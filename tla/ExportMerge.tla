---------------------------- MODULE ExportMerge ----------------------------
(***************************************************************************)
(* The parallel token export (scripts/export_graph_vq_tokens.py, one       *)
(* process per shard), the script that launches the shards and waits for   *)
(* them (scripts/_run_export_parallel_l4safe_human.sh), and the merge of   *)
(* their files into one cache (scripts/merge_export_shards.py).            *)
(*                                                                         *)
(* All of them work in one output directory that nothing ever clears: what *)
(* an earlier run left there is what a later run finds, the clips of a     *)
(* larger export among it.  A tokenizer stands for the whole static        *)
(* contract of a sidecar.                                                  *)
(***************************************************************************)
EXTENDS Naturals, FiniteSets

CONSTANTS
  NumClips,      \* most clips a split ever has
  Sizes,         \* clips of a split in one run: its data set, cut by --max_clips
  NumSplits,
  ShardCounts,   \* values of --num_shards an operator may choose
  Tokenizers,    \* frozen checkpoints an operator may export with
  ManualMerge,   \* the operator may merge although a shard failed
  MaxRuns,       \* bound: exports started
  MaxFails       \* bound: failures of a shard or of the merge

ASSUME ExportAssumption ==
  /\ NumClips \in Nat /\ NumSplits \in Nat \ {0}
  /\ Sizes \subseteq 0 .. NumClips
  /\ ShardCounts \subseteq 2 .. NumClips /\ ShardCounts # {}
  /\ {"none", "torn"} \cap Tokenizers = {}
  /\ ManualMerge \in BOOLEAN /\ MaxRuns \in Nat /\ MaxFails \in Nat

Clips    == 0 .. (NumClips - 1)
Splits   == 1 .. NumSplits
ShardIds == 0 .. (NumClips - 1)

VARIABLES
  k,         \* --num_shards of the last run, 0 before the first
  count,     \* clips of a split in that run, the first ones of its data set
  phase,     \* "idle", "export" or a step of the merge
  msplit,    \* the split the merge is at
  shard,     \* shard processes: step, tokenizer, split and clips to do
  npz,       \* split, clip -> what the clip's file holds
  rows,      \* split, shard -> index_shard<s>.jsonl
  side,      \* split, shard -> manifest_shard<s>.json
  index,     \* split -> index.jsonl, shard by shard
  manifest,  \* manifest.json, and the run it is of
  runs,      \* exports started
  fails      \* failures so far

disk == <<npz, rows, side>>
cache == <<index, manifest>>
vars == <<k, count, phase, msplit, shard, disk, cache, runs, fails>>

Active == {s \in ShardIds : s < k}

(* --shard_idx s of n: every n-th of c clips.                              *)
Mine(c, n, s) == {i \in Clips : i < c /\ i % n = s}

NoRows == [lines |-> {}, state |-> "none"]

Idle == [pc |-> "off", tok |-> "none", split |-> 1, todo |-> {}]

Begin(c, n, s, tok) == [pc |-> "clips", tok |-> tok, split |-> 1, todo |-> Mine(c, n, s)]

AllOk == k > 0 /\ \A s \in Active : shard[s].pc = "ok"

Init ==
  /\ k = 0
  /\ count = 0
  /\ phase = "idle"
  /\ msplit = 1
  /\ shard = [s \in ShardIds |-> Idle]
  /\ npz = [sp \in Splits |-> [i \in Clips |-> "none"]]
  /\ rows = [sp \in Splits |-> [s \in ShardIds |-> NoRows]]
  /\ side = [sp \in Splits |-> [s \in ShardIds |-> "none"]]
  /\ index = [sp \in Splits |-> [s \in ShardIds |-> NoRows]]
  /\ manifest = [state |-> "none", run |-> 0]
  /\ runs = 0
  /\ fails = 0

-----------------------------------------------------------------------------
(* The launching script.                                                   *)

(* All shards of a new run; each reads the frozen checkpoint for itself,   *)
(* so the path may name another tokenizer from one to the next.  A shard   *)
(* without clips fails its preflight: there are no more shards than clips. *)
Launch(n, c) ==
  /\ phase = "idle"
  /\ runs < MaxRuns
  /\ n <= c
  /\ \E tok \in [ShardIds -> Tokenizers] :
       shard' = [s \in ShardIds |-> IF s < n THEN Begin(c, n, s, tok[s]) ELSE Idle]
  /\ k' = n
  /\ count' = c
  /\ phase' = "export"
  /\ runs' = runs + 1
  /\ UNCHANGED <<msplit, disk, cache, fails>>

(* "re-run failed shards before merge"                                     *)
Rerun(s) ==
  /\ phase = "idle"
  /\ runs < MaxRuns
  /\ shard[s].pc = "failed"
  /\ \E tok \in Tokenizers : shard' = [shard EXCEPT ![s] = Begin(count, k, s, tok)]
  /\ phase' = "export"
  /\ runs' = runs + 1
  /\ UNCHANGED <<k, count, msplit, disk, cache, fails>>

\* Mutant: the failure of a shard is not noticed.
Careless_AllEnded ==
  /\ phase = "export"
  /\ \A s \in Active : shard[s].pc \in {"ok", "failed"}
  /\ phase' = "check"
  /\ UNCHANGED <<k, count, msplit, shard, disk, cache, runs, fails>>

(* Merge when every shard succeeded.                                       *)
AllEnded ==
  /\ phase = "export"
  /\ \A s \in Active : shard[s].pc \in {"ok", "failed"}
  /\ phase' = IF AllOk THEN "check" ELSE "idle"
  /\ UNCHANGED <<k, count, msplit, shard, disk, cache, runs, fails>>

(* The operator starts a merge by hand, after one that was interrupted or  *)
(* refused.                                                                *)
MergeByHand ==
  /\ phase = "idle"
  /\ k > 0
  /\ AllOk \/ ManualMerge
  /\ phase' = "check"
  /\ UNCHANGED <<k, count, msplit, shard, disk, cache, runs, fails>>

-----------------------------------------------------------------------------
(* A shard process.                                                        *)

(* Export the next clip.                                                   *)
ExportClip(s) ==
  /\ shard[s].pc = "clips"
  /\ \E i \in shard[s].todo :
       /\ \A j \in shard[s].todo : i <= j
       /\ npz' = [npz EXCEPT ![shard[s].split][i] = shard[s].tok]
       /\ shard' = [shard EXCEPT ![s].todo = @ \ {i}]
  /\ UNCHANGED <<k, count, phase, msplit, rows, side, cache, runs, fails>>

(* Past the identity gate: the index rows of the split, then its sidecar.  *)
WriteRows(s) ==
  /\ shard[s].pc = "clips"
  /\ shard[s].todo = {}
  /\ rows' = [rows EXCEPT ![shard[s].split][s] = [lines |-> Mine(count, k, s), state |-> "whole"]]
  /\ shard' = [shard EXCEPT ![s].pc = "side"]
  /\ UNCHANGED <<k, count, phase, msplit, npz, side, cache, runs, fails>>

WriteSide(s) ==
  /\ shard[s].pc = "side"
  /\ side' = [side EXCEPT ![shard[s].split][s] = shard[s].tok]
  /\ shard' = [shard EXCEPT ![s] =
       IF @.split < NumSplits
       THEN [Begin(count, k, s, @.tok) EXCEPT !.split = shard[s].split + 1]
       ELSE [@ EXCEPT !.pc = "ok"]]
  /\ UNCHANGED <<k, count, phase, msplit, npz, rows, cache, runs, fails>>

(* A gate raises, or the process dies: the file it was writing may be cut  *)
(* off anywhere, an index even after its last line.                        *)
ShardFails(s) ==
  /\ shard[s].pc \in {"clips", "side"}
  /\ fails < MaxFails
  /\ fails' = fails + 1
  /\ shard' = [shard EXCEPT ![s].pc = "failed"]
  /\ LET sp == shard[s].split IN
     \/ UNCHANGED disk
     \/ /\ shard[s].pc = "clips"
        /\ \E i \in shard[s].todo :
             /\ \A j \in shard[s].todo : i <= j
             /\ npz' = [npz EXCEPT ![sp][i] = "torn"]
        /\ UNCHANGED <<rows, side>>
     \/ /\ shard[s].pc = "clips"
        /\ shard[s].todo = {}
        /\ \E S \in SUBSET Mine(count, k, s) :
             rows' = [rows EXCEPT ![sp][s] = [lines |-> S, state |-> "cut"]]
        /\ UNCHANGED <<npz, side>>
     \/ /\ shard[s].pc = "side"
        /\ side' = [side EXCEPT ![sp][s] = "torn"]
        /\ UNCHANGED <<npz, rows>>
  /\ UNCHANGED <<k, count, phase, msplit, cache, runs>>

-----------------------------------------------------------------------------
(* The merge.  Every refusal is an exception that leaves all files.        *)

Refuse == phase' = "idle" /\ UNCHANGED <<msplit, cache>>

\* Mutant: shard 0 speaks for all.
Trusting_ContractsAgree == side[1][0] \in Tokenizers

\* Mutant: sidecars of all shards ever exported are compared.
Stale_ContractsAgree ==
  /\ side[1][0] \in Tokenizers
  /\ \A sp \in Splits, s \in ShardIds : side[sp][s] \in {side[1][0], "none"}

(* Every sidecar of every split must agree with shard 0 of the first.      *)
ContractsAgree ==
  /\ side[1][0] \in Tokenizers
  /\ \A sp \in Splits, s \in Active : side[sp][s] = side[1][0]

CheckContracts ==
  /\ phase = "check"
  /\ IF ContractsAgree THEN /\ phase' = "merge" /\ msplit' = 1
                            /\ UNCHANGED cache
                       ELSE Refuse
  /\ UNCHANGED <<k, count, shard, disk, runs, fails>>

(* The lines of a split's index files, all shards together.                *)
Lines(sp) == Cardinality({p \in Active \X Clips : p[2] \in rows[sp][p[1]].lines})
Files(sp) == Cardinality({i \in Clips : npz[sp][i] # "none"})

(* All index files are there, and have as many lines as there are npz,     *)
(* those included that only an older, larger export wrote.                 *)
SplitCounts(sp) ==
  /\ \A s \in Active : rows[sp][s].state # "none"
  /\ Lines(sp) = Files(sp)

\* Mutant: a split's shard files are removed as soon as it is merged.
Eager_MergeSplit ==
  /\ phase = "merge"
  /\ IF SplitCounts(msplit)
     THEN /\ index' = [index EXCEPT ![msplit] =
               [s \in ShardIds |-> IF s \in Active THEN rows[msplit][s] ELSE NoRows]]
          /\ rows' = [rows EXCEPT ![msplit] = [s \in ShardIds |-> NoRows]]
          /\ side' = [side EXCEPT ![msplit] = [s \in ShardIds |-> "none"]]
          /\ phase' = IF msplit < NumSplits THEN "merge" ELSE "manifest"
          /\ msplit' = IF msplit < NumSplits THEN msplit + 1 ELSE msplit
          /\ UNCHANGED manifest
     ELSE Refuse /\ UNCHANGED <<rows, side>>
  /\ UNCHANGED <<k, count, shard, npz, runs, fails>>

(* One split: its index files, in shard order, become index.jsonl.         *)
MergeSplit ==
  /\ phase = "merge"
  /\ IF SplitCounts(msplit)
     THEN /\ index' = [index EXCEPT ![msplit] =
               [s \in ShardIds |-> IF s \in Active THEN rows[msplit][s] ELSE NoRows]]
          /\ phase' = IF msplit < NumSplits THEN "merge" ELSE "manifest"
          /\ msplit' = IF msplit < NumSplits THEN msplit + 1 ELSE msplit
          /\ UNCHANGED manifest
     ELSE Refuse
  /\ UNCHANGED <<k, count, shard, disk, runs, fails>>

WriteManifest ==
  /\ phase = "manifest"
  /\ manifest' = [state |-> side[1][0], run |-> runs]
  /\ phase' = "clean"
  /\ UNCHANGED <<k, count, msplit, shard, disk, index, runs, fails>>

(* The shard files of a set of splits and shards are unlinked.             *)
Unlink(D) ==
  /\ rows' = [sp \in Splits |->
       [s \in ShardIds |-> IF <<sp, s>> \in D THEN NoRows ELSE rows[sp][s]]]
  /\ side' = [sp \in Splits |->
       [s \in ShardIds |-> IF <<sp, s>> \in D THEN "none" ELSE side[sp][s]]]

(* Only now the shard files go.                                            *)
Clean ==
  /\ phase = "clean"
  /\ phase' = "idle"
  /\ Unlink(Splits \X Active)
  /\ UNCHANGED <<k, count, msplit, shard, npz, cache, runs, fails>>

(* The merge dies; the file it was writing is lost.                        *)
MergeDies ==
  /\ phase \in {"check", "merge", "manifest", "clean"}
  /\ fails < MaxFails
  /\ fails' = fails + 1
  /\ phase' = "idle"
  /\ IF phase = "clean" THEN \E D \in SUBSET (Splits \X Active) : Unlink(D)
                        ELSE UNCHANGED <<rows, side>>
  /\ index' = IF phase = "merge"
              THEN [index EXCEPT ![msplit] = [s \in ShardIds |-> NoRows]] ELSE index
  /\ manifest' = IF phase = "manifest" THEN [state |-> "torn", run |-> 0] ELSE manifest
  /\ UNCHANGED <<k, count, msplit, shard, npz, runs>>

(* Between two commands of the operator there need not be a third.         *)
Rest == phase = "idle" /\ UNCHANGED vars

-----------------------------------------------------------------------------
Next ==
  \/ \E n \in ShardCounts, c \in Sizes : Launch(n, c)
  \/ \E s \in Active : \/ Rerun(s) \/ ExportClip(s) \/ WriteRows(s)
                       \/ WriteSide(s) \/ ShardFails(s)
  \/ AllEnded \/ MergeByHand
  \/ CheckContracts \/ MergeSplit \/ WriteManifest \/ Clean \/ MergeDies
  \/ Rest

Spec == Init /\ [][Next]_vars

-----------------------------------------------------------------------------
(* Properties.                                                             *)

(* A cache is published, with manifest.json written, only when every clip  *)
(* of every split was completely exported with the tokenizer it names, and *)
(* no clip of a larger export is left next to them                         *)
(* (merge_export_shards.py: the contracts, and lines against files).       *)
UniformCache ==
  phase = "clean" =>
    \A sp \in Splits, i \in Clips :
      npz[sp][i] = IF i < count THEN manifest.state ELSE "none"

(* A published index lists each clip of the run in exactly one shard, in   *)
(* whole rows, and no other clip.                                          *)
ExactIndex ==
  phase = "clean" =>
    \A sp \in Splits :
      /\ \A s \in ShardIds : index[sp][s].state # "cut"
      /\ \A i \in Clips : i < count =>
           \E s \in ShardIds : {t \in ShardIds : i \in index[sp][t].lines} = {s}
      /\ \A i \in Clips, s \in ShardIds : i \in index[sp][s].lines => i < count

(* Until the cache of a finished export is published, all its shard files  *)
(* are there: a merge that died can be run again.                          *)
Rerunnable ==
  AllOk /\ manifest.run # runs =>
    \A sp \in Splits, s \in Active :
      rows[sp][s].state = "whole" /\ side[sp][s] \in Tokenizers

(* A file of a clip that the last run does not have: an older export had   *)
(* more clips.                                                             *)
LeftOver == \E sp \in Splits, i \in Clips : i >= count /\ npz[sp][i] # "none"

(* The merge refuses an export whose shards all succeeded with one         *)
(* tokenizer only when it was published already or when clips of a larger  *)
(* export are left over; older shard files, other shard counts and other   *)
(* tokenizers never make it refuse (merge_export_shards.py).               *)
NoFalseRefusal ==
  [][ /\ phase \in {"check", "merge"} /\ phase' = "idle" /\ fails' = fails
      /\ AllOk /\ \A s \in Active : shard[s].tok = shard[0].tok
      => manifest.run = runs \/ LeftOver ]_vars
=============================================================================
