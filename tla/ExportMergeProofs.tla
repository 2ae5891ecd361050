-------------------------- MODULE ExportMergeProofs --------------------------
(***************************************************************************)
(* Proofs about ExportMerge for any number of clips, splits and shards,    *)
(* any tokenizers, any number of runs and failures, for an operator who    *)
(* merges only what succeeded, as the launching script does.               *)
(***************************************************************************)
EXTENDS ExportMerge, Integers, FiniteSetTheorems, TLAPS

(* Types.                                                                  *)
Step == [pc : {"off", "clips", "side", "ok", "failed"}, tok : Tokenizers \cup {"none"},
         split : Splits, todo : SUBSET Clips]

Index == [lines : SUBSET Clips, state : {"none", "cut", "whole"}]

Content == Tokenizers \cup {"none", "torn"}

Types ==
  /\ k \in Nat /\ k <= NumClips
  /\ count \in Nat /\ count <= NumClips
  /\ phase \in {"idle", "export", "check", "merge", "manifest", "clean"}
  /\ msplit \in Splits
  /\ shard \in [ShardIds -> Step]
  /\ npz \in [Splits -> [Clips -> Content]]
  /\ rows \in [Splits -> [ShardIds -> Index]]
  /\ side \in [Splits -> [ShardIds -> Content]]
  /\ index \in [Splits -> [ShardIds -> Index]]
  /\ manifest \in [state : Content, run : Nat]
  /\ runs \in Nat /\ fails \in Nat

-----------------------------------------------------------------------------
(* The clips of the last run.                                              *)
Exported == {i \in Clips : i < count}

(* What shard s has left on disk for a split it has gone through: first    *)
(* the clips, then also the rows, then also the sidecar.                   *)
WholeRows(s) == [lines |-> Mine(count, k, s), state |-> "whole"]

ClipsDone(sp, s) == \A i \in Mine(count, k, s) : npz[sp][i] = shard[s].tok

FilesKept(sp, s) == rows[sp][s] = WholeRows(s) /\ side[sp][s] = shard[s].tok

SplitDone(sp, s) == ClipsDone(sp, s) /\ FilesKept(sp, s)

(* A shard that works has done the splits before the one it is at, and of  *)
(* that one what its step says.                                            *)
Working(s) ==
  /\ shard[s].pc \in {"clips", "side"} =>
       \A sp \in Splits : sp < shard[s].split => SplitDone(sp, s)
  /\ shard[s].pc = "clips" =>
       \A i \in Mine(count, k, s) \ shard[s].todo : npz[shard[s].split][i] = shard[s].tok
  /\ shard[s].pc = "side" =>
       /\ ClipsDone(shard[s].split, s)
       /\ rows[shard[s].split][s] = WholeRows(s)

(* A shard that succeeded has done all splits; its files are there, all of *)
(* them until the cache of this run is published.                          *)
Succeeded(s) ==
  shard[s].pc = "ok" =>
    \A sp \in Splits :
      /\ ClipsDone(sp, s)
      /\ rows[sp][s] \in {WholeRows(s), NoRows}
      /\ side[sp][s] \in {shard[s].tok, "none"}
      /\ manifest.run # runs => FilesKept(sp, s)

Shard(s) ==
  /\ shard[s].pc # "off" /\ shard[s].tok \in Tokenizers
  /\ shard[s].todo \subseteq Mine(count, k, s)
  /\ Working(s)
  /\ Succeeded(s)

Shards == \A s \in Active : Shard(s)

-----------------------------------------------------------------------------
(* The merge: it runs on shards that all succeeded, past the check their   *)
(* contracts agree, and the splits it is through were whole.               *)
Merging == phase \in {"check", "merge", "manifest", "clean"}

SplitMerged(sp) ==
  /\ \A s \in Active : rows[sp][s] = WholeRows(s)
  /\ \A i \in Clips \ Exported : npz[sp][i] = "none"
  /\ index[sp] = [s \in ShardIds |-> IF s \in Active THEN WholeRows(s) ELSE NoRows]

Merge ==
  /\ Merging => AllOk
  /\ phase \in {"merge", "manifest", "clean"} => ContractsAgree
  /\ phase = "merge" => \A sp \in Splits : sp < msplit => SplitMerged(sp)
  /\ phase \in {"manifest", "clean"} => \A sp \in Splits : SplitMerged(sp)
  /\ phase = "clean" => manifest = [state |-> side[1][0], run |-> runs]

(* manifest.json is of this run only when all its shards succeeded.        *)
Published ==
  /\ manifest.run <= runs
  /\ k > 0 => runs > 0
  /\ k > 0 /\ manifest.run = runs => AllOk

IInv == Types /\ Shards /\ Merge /\ Published

-----------------------------------------------------------------------------
(* Shards take every n-th clip: each clip is of one shard.                 *)
LEMMA ModRange ==
  ASSUME NEW n \in Nat \ {0}, NEW i \in Nat
  PROVE  i % n \in 0 .. (n - 1)
BY SMTT(20)

LEMMA MineParts ==
  ASSUME Types, k > 0, NEW i \in Exported
  PROVE  i % k \in Active /\ i \in Mine(count, k, i % k)
<1>1. k \in Nat \ {0} /\ i \in Nat /\ k <= NumClips BY DEF Types, Clips, Exported
<1>2. i % k \in 0 .. (k - 1) BY <1>1, ModRange
<1>3. i % k \in ShardIds /\ i % k < k
  BY <1>1, <1>2, ExportAssumption DEF ShardIds
<1> QED BY <1>3 DEF Active, Mine, Exported

LEMMA MineApart ==
  ASSUME NEW s, NEW t, s # t, NEW i \in Mine(count, k, s)
  PROVE  i \notin Mine(count, k, t) /\ i \in Clips
BY DEF Mine

LEMMA FirstSplit == 0 \in ShardIds /\ 1 \in Splits
<1>1. \E n \in ShardCounts : n \in 2 .. NumClips BY ExportAssumption
<1> QED BY <1>1, ExportAssumption DEF ShardIds, Splits

(* One entry of a table of tables.                                         *)
LEMMA EntryType ==
  ASSUME NEW A, NEW B, NEW C, NEW f \in [A -> [B -> C]],
         NEW a \in A, NEW b \in B, NEW c \in C
  PROVE  [f EXCEPT ![a][b] = c] \in [A -> [B -> C]]
OBVIOUS

LEMMA NoRowsType == NoRows \in Index
BY DEF NoRows, Index

LEMMA RowFields ==
  /\ NoRows.lines = {} /\ NoRows.state = "none"
  /\ \A s : WholeRows(s).lines = Mine(count, k, s) /\ WholeRows(s).state = "whole"
BY DEF WholeRows, NoRows

-----------------------------------------------------------------------------
(* What another shard does leaves a shard where it was: they share no clip *)
(* and no file.                                                            *)
LEMMA OthersKeep ==
  ASSUME NEW t \in Active, Shard(t), UNCHANGED <<k, count, manifest, runs>>,
         shard'[t] = shard[t],
         \A sp \in Splits : /\ \A i \in Mine(count, k, t) : npz'[sp][i] = npz[sp][i]
                            /\ rows'[sp][t] = rows[sp][t]
                            /\ side'[sp][t] = side[sp][t],
         shard[t].split \in Splits
  PROVE  Shard(t)'
<1> USE DEF ClipsDone, FilesKept, SplitDone, WholeRows, Mine
<1>1. Working(t)' BY DEF Shard, Working
<1>2. Succeeded(t)' BY DEF Shard, Succeeded, NoRows
<1> QED BY <1>1, <1>2 DEF Shard

(* A shard that is at work: nothing merges, nothing is published.          *)
LEMMA AtWork ==
  ASSUME IInv, NEW s \in Active, shard[s].pc # "ok"
  PROVE  ~ AllOk /\ ~ Merging /\ k > 0 /\ manifest.run # runs
<1>1. ~ AllOk BY DEF AllOk
<1>2. k > 0 BY DEF Active, ShardIds, IInv, Types
<1> QED BY <1>1, <1>2 DEF IInv, Merge, Published

(* A step of one shard keeps the invariant if it keeps the types and its   *)
(* own part.                                                               *)
LEMMA ShardStep ==
  ASSUME IInv, Types', NEW s \in Active, shard[s].pc # "ok",
         UNCHANGED <<k, count, phase, manifest, runs>>, Shard(s)',
         \A t \in Active \ {s} :
           /\ shard'[t] = shard[t]
           /\ \A sp \in Splits : /\ \A i \in Mine(count, k, t) : npz'[sp][i] = npz[sp][i]
                                 /\ rows'[sp][t] = rows[sp][t]
                                 /\ side'[sp][t] = side[sp][t]
  PROVE  IInv'
<1>1. Active' = Active BY DEF Active
<1>2. ~ AllOk /\ ~ Merging /\ k > 0 /\ manifest.run # runs BY AtWork
<1>3. \A t \in Active : shard[t].split \in Splits BY DEF IInv, Types, Active, Step
<1>4. \A t \in Active \ {s} : Shard(t)' BY <1>3, OthersKeep DEF IInv, Shards
<1>5. Shards' BY <1>1, <1>4 DEF Shards
<1>6. ~ Merging' BY <1>2 DEF Merging
<1>7. Merge' BY <1>6 DEF Merge, Merging
<1>8. Published' BY <1>2 DEF IInv, Published
<1> QED BY <1>5, <1>7, <1>8 DEF IInv

(* A step of the script or of the merge that touches no shard file.        *)
LEMMA FilesStay ==
  ASSUME IInv, UNCHANGED <<k, count, shard, disk, runs>>,
         \/ manifest'.run \in {manifest.run, runs}
         \/ \A sp \in Splits, s \in Active : FilesKept(sp, s)
  PROVE  Shards'
<1>1. Active' = Active /\ \A s : Mine(count, k, s)' = Mine(count, k, s) BY DEF Active, Mine
<1> SUFFICES ASSUME NEW s \in Active, Shard(s) PROVE Shard(s)'
  BY <1>1 DEF IInv, Shards
<1> USE <1>1 DEF ClipsDone, FilesKept, SplitDone, WholeRows, disk
<1>2. Working(s)' BY DEF Shard, Working
<1>3. Succeeded(s)' BY DEF Shard, Succeeded, NoRows
<1> QED BY <1>2, <1>3 DEF Shard

(* The files of a published run may go.                                    *)
LEMMA FilesGo ==
  ASSUME IInv, phase = "clean", UNCHANGED <<k, count, shard, npz, manifest, runs>>,
         NEW D, Unlink(D)
  PROVE  Shards'
<1>1. Active' = Active /\ \A s : Mine(count, k, s)' = Mine(count, k, s) BY DEF Active, Mine
<1> SUFFICES ASSUME NEW s \in Active, Shard(s) PROVE Shard(s)'
  BY <1>1 DEF IInv, Shards
<1>2. shard[s].pc = "ok" /\ manifest.run = runs
  BY DEF IInv, Merge, Merging, AllOk
<1>3. s \in ShardIds BY DEF Active
<1> USE <1>1, <1>2 DEF ClipsDone, FilesKept, SplitDone, WholeRows
<1>4. Working(s)' BY DEF Working
<1>5. Succeeded(s)' BY <1>3 DEF Shard, Succeeded, NoRows, Unlink
<1> QED BY <1>4, <1>5 DEF Shard

-----------------------------------------------------------------------------
(* Types are kept.                                                         *)
LEMMA TypesUnlink ==
  ASSUME Types, NEW D, Unlink(D)
  PROVE  /\ rows' \in [Splits -> [ShardIds -> Index]]
         /\ side' \in [Splits -> [ShardIds -> Content]]
BY NoRowsType DEF Types, Unlink, Content

LEMMA TypesNext == Types /\ [Next]_vars => Types'
<1> SUFFICES ASSUME Types, [Next]_vars PROVE Types' OBVIOUS
<1> USE ExportAssumption DEF disk, cache
<1>1. CASE UNCHANGED vars \/ Rest
  BY <1>1 DEF Types, vars, Rest
<1>2. ASSUME NEW n \in ShardCounts, NEW c \in Sizes, Launch(n, c) PROVE Types'
  <2>1. n \in Nat /\ n <= NumClips /\ c \in Nat /\ c <= NumClips BY DEF Launch
  <2>2. 1 \in Splits BY DEF Splits
  <2>3. shard' \in [ShardIds -> Step]
    BY <1>2, <2>2 DEF Launch, Begin, Idle, Step, Mine
  <2> QED BY <1>2, <2>1, <2>3 DEF Launch, Types
<1>3. ASSUME NEW s \in Active, Rerun(s) PROVE Types'
  <2>1. 1 \in Splits /\ s \in ShardIds BY DEF Splits, Active
  <2>2. shard' \in [ShardIds -> Step]
    BY <1>3, <2>1 DEF Rerun, Begin, Step, Mine, Types
  <2> QED BY <1>3, <2>2 DEF Rerun, Types
<1>4. ASSUME NEW s \in Active, ExportClip(s) PROVE Types'
  <2>1. s \in ShardIds /\ shard[s] \in Step BY DEF Active, Types
  <2>2. PICK i \in shard[s].todo :
          /\ npz' = [npz EXCEPT ![shard[s].split][i] = shard[s].tok]
          /\ shard' = [shard EXCEPT ![s].todo = @ \ {i}]
    BY <1>4 DEF ExportClip
  <2>3. /\ [shard[s] EXCEPT !.todo = @ \ {i}] \in Step
        /\ i \in Clips /\ shard[s].split \in Splits /\ shard[s].tok \in Content
    BY <2>1 DEF Step, Content
  <2>4. shard' \in [ShardIds -> Step]
    BY <2>1, <2>2, <2>3 DEF Types
  <2>5. npz' \in [Splits -> [Clips -> Content]]
    BY <2>2, <2>3, EntryType DEF Types
  <2> QED BY <1>4, <2>4, <2>5 DEF ExportClip, Types
<1>5. ASSUME NEW s \in Active, WriteRows(s) PROVE Types'
  <2>1. s \in ShardIds /\ shard[s] \in Step BY DEF Active, Types
  <2>2. shard' \in [ShardIds -> Step]
    BY <1>5, <2>1 DEF WriteRows, Step, Types
  <2>3. [lines |-> Mine(count, k, s), state |-> "whole"] \in Index BY DEF Index, Mine
  <2>4. rows' \in [Splits -> [ShardIds -> Index]]
    BY <1>5, <2>1, <2>3 DEF WriteRows, Types
  <2> QED BY <1>5, <2>2, <2>4 DEF WriteRows, Types
<1>6. ASSUME NEW s \in Active, WriteSide(s) PROVE Types'
  <2>1. s \in ShardIds /\ shard[s] \in Step BY DEF Active, Types
  <2>2. shard[s].split < NumSplits => shard[s].split + 1 \in Splits
    BY <2>1 DEF Step, Splits
  <2>3. [shard[s] EXCEPT !.pc = "ok"] \in Step
    BY <2>1 DEF Step
  <2>4. shard[s].split < NumSplits =>
          [Begin(count, k, s, shard[s].tok) EXCEPT !.split = shard[s].split + 1] \in Step
    BY <2>1, <2>2 DEF Step, Begin, Mine
  <2>5. shard' \in [ShardIds -> Step]
    <3> DEFINE next == IF shard[s].split < NumSplits
                       THEN [Begin(count, k, s, shard[s].tok) EXCEPT !.split = shard[s].split + 1]
                       ELSE [shard[s] EXCEPT !.pc = "ok"]
    <3>1. next \in Step BY <2>3, <2>4
    <3>2. shard' = [shard EXCEPT ![s] = next] BY <1>6 DEF WriteSide
    <3> HIDE DEF next
    <3> QED BY <2>1, <3>1, <3>2 DEF Types
  <2>6. shard[s].split \in Splits /\ shard[s].tok \in Content
    BY <2>1 DEF Step, Content
  <2>7. side' \in [Splits -> [ShardIds -> Content]]
    BY <1>6, <2>1, <2>6, EntryType DEF WriteSide, Types
  <2> QED BY <1>6, <2>5, <2>7 DEF WriteSide, Types
<1>7. ASSUME NEW s \in Active, ShardFails(s) PROVE Types'
  <2>1. s \in ShardIds /\ shard[s] \in Step BY DEF Active, Types
  <2>2. shard' \in [ShardIds -> Step]
    BY <1>7, <2>1 DEF ShardFails, Step, Types
  <2>3. shard[s].split \in Splits /\ shard[s].todo \subseteq Clips /\ "torn" \in Content
    BY <2>1 DEF Step, Content
  <2>4. npz' \in [Splits -> [Clips -> Content]]
    <3>1. \A i \in shard[s].todo :
            [npz EXCEPT ![shard[s].split][i] = "torn"] \in [Splits -> [Clips -> Content]]
      BY <2>3, EntryType DEF Types
    <3>2. \/ npz' = npz
          \/ \E i \in shard[s].todo : npz' = [npz EXCEPT ![shard[s].split][i] = "torn"]
      BY <1>7 DEF ShardFails
    <3>3. npz \in [Splits -> [Clips -> Content]] BY DEF Types
    <3> QED BY <3>1, <3>2, <3>3, Zenon
  <2>5. rows' \in [Splits -> [ShardIds -> Index]]
    <3>1. \A S \in SUBSET Mine(count, k, s) : [lines |-> S, state |-> "cut"] \in Index
      BY DEF Index, Mine
    <3>2. \A S \in SUBSET Mine(count, k, s) :
            [rows EXCEPT ![shard[s].split][s] = [lines |-> S, state |-> "cut"]]
              \in [Splits -> [ShardIds -> Index]]
      BY <2>1, <2>3, <3>1, EntryType DEF Types
    <3>3. \/ rows' = rows
          \/ \E S \in SUBSET Mine(count, k, s) :
               rows' = [rows EXCEPT ![shard[s].split][s] = [lines |-> S, state |-> "cut"]]
      BY <1>7 DEF ShardFails
    <3>4. rows \in [Splits -> [ShardIds -> Index]] BY DEF Types
    <3> QED BY <3>2, <3>3, <3>4, Zenon
  <2>6. side' \in [Splits -> [ShardIds -> Content]]
    <3>1. [side EXCEPT ![shard[s].split][s] = "torn"] \in [Splits -> [ShardIds -> Content]]
      BY <2>1, <2>3, EntryType DEF Types
    <3> QED BY <1>7, <3>1 DEF ShardFails, Types
  <2>7. fails' \in Nat /\ UNCHANGED <<k, count, phase, msplit, index, manifest, runs>>
    BY <1>7 DEF ShardFails, Types
  <2> QED BY <2>2, <2>4, <2>5, <2>6, <2>7 DEF Types
<1>8. CASE AllEnded \/ MergeByHand
  BY <1>8 DEF AllEnded, MergeByHand, Types
<1>9. CASE CheckContracts
  BY <1>9 DEF CheckContracts, Refuse, Types, Splits
<1>10. CASE MergeSplit
  <2>1. index' \in [Splits -> [ShardIds -> Index]]
    <3>1. \A sp \in Splits :
            [s \in ShardIds |-> IF s \in Active THEN rows[sp][s] ELSE NoRows]
              \in [ShardIds -> Index]
      BY NoRowsType DEF Types
    <3> QED BY <1>10, <3>1 DEF MergeSplit, Refuse, Types
  <2>2. msplit' \in Splits BY <1>10 DEF MergeSplit, Refuse, Types, Splits
  <2>3. manifest' = manifest BY <1>10 DEF MergeSplit, Refuse
  <2>4. phase' \in {"idle", "merge", "manifest"} BY <1>10 DEF MergeSplit, Refuse
  <2> QED BY <1>10, <2>1, <2>2, <2>3, <2>4 DEF MergeSplit, Types
<1>11. CASE WriteManifest
  <2>1. side[1][0] \in Content
    BY FirstSplit DEF Types
  <2> QED BY <1>11, <2>1 DEF WriteManifest, Types
<1>12. CASE Clean
  BY <1>12, TypesUnlink DEF Clean, Types
<1>13. CASE MergeDies
  <2>1. /\ rows' \in [Splits -> [ShardIds -> Index]]
        /\ side' \in [Splits -> [ShardIds -> Content]]
    BY <1>13, TypesUnlink DEF MergeDies, Types
  <2>2. index' \in [Splits -> [ShardIds -> Index]]
    BY <1>13, NoRowsType DEF MergeDies, Types
  <2>3. manifest' \in [state : Content, run : Nat]
    BY <1>13 DEF MergeDies, Types, Content
  <2> QED BY <1>13, <2>1, <2>2, <2>3 DEF MergeDies, Types
<1> QED
  BY <1>1, <1>2, <1>3, <1>4, <1>5, <1>6, <1>7, <1>8, <1>9, <1>10, <1>11, <1>12, <1>13
  DEF Next
-----------------------------------------------------------------------------
(* One lemma for each step of a shard.                                     *)
LEMMA ExportClipKeeps ==
  ASSUME IInv, Types', NEW s \in Active, ExportClip(s)
  PROVE  IInv'
<1> USE DEF ExportClip, cache
<1>1. PICK i \in shard[s].todo :
        /\ npz' = [npz EXCEPT ![shard[s].split][i] = shard[s].tok]
        /\ shard' = [shard EXCEPT ![s].todo = @ \ {i}]
  OBVIOUS
<1>2. s \in ShardIds /\ shard[s] \in Step BY DEF Active, IInv, Types
<1>3. Shard(s) BY DEF IInv, Shards
<1>4. i \in Mine(count, k, s) /\ i \in Clips BY <1>3 DEF Shard, Mine
<1>5. /\ shard'[s].pc = "clips" /\ shard'[s].tok = shard[s].tok
      /\ shard'[s].split = shard[s].split /\ shard'[s].todo = shard[s].todo \ {i}
  BY <1>1, <1>2 DEF IInv, Types, Step
<1>6. \A sp \in Splits, j \in Clips :
        npz'[sp][j] = IF sp = shard[s].split /\ j = i THEN shard[s].tok ELSE npz[sp][j]
  BY <1>1, <1>2, <1>4 DEF IInv, Types, Step
<1>7. \A t \in Active \ {s} : /\ shard'[t] = shard[t]
                              /\ \A j \in Mine(count, k, t) : j # i /\ j \in Clips
  BY <1>1, <1>4, MineApart DEF Active, IInv, Types
<1>8. Working(s)'
  <2>1. \A sp \in Splits : sp < shard[s].split => SplitDone(sp, s)'
    <3> SUFFICES ASSUME NEW sp \in Splits, sp < shard[s].split PROVE SplitDone(sp, s)'
      OBVIOUS
    <3>1. SplitDone(sp, s) BY <1>3 DEF Shard, Working
    <3>2. sp # shard[s].split BY <1>2 DEF Step, Splits
    <3>3. \A j \in Mine(count, k, s) : npz'[sp][j] = npz[sp][j] BY <1>6, <3>2 DEF Mine
    <3> QED BY <1>5, <3>1, <3>3 DEF SplitDone, ClipsDone, FilesKept, WholeRows, Mine
  <2>2. \A j \in Mine(count, k, s) \ shard'[s].todo : npz'[shard[s].split][j] = shard[s].tok
    BY <1>2, <1>3, <1>5, <1>6 DEF Shard, Working, Mine, Step
  <2> QED BY <1>5, <2>1, <2>2 DEF Working, Mine
<1>9. Shard(s)'
  BY <1>3, <1>5, <1>8 DEF Shard, Succeeded, Mine
<1> QED BY <1>6, <1>7, <1>9, ShardStep

LEMMA WriteRowsKeeps ==
  ASSUME IInv, Types', NEW s \in Active, WriteRows(s)
  PROVE  IInv'
<1> USE DEF WriteRows, cache
<1>1. s \in ShardIds /\ shard[s] \in Step BY DEF Active, IInv, Types
<1>2. Shard(s) BY DEF IInv, Shards
<1>3. /\ shard'[s].pc = "side" /\ shard'[s].tok = shard[s].tok
      /\ shard'[s].split = shard[s].split /\ shard'[s].todo = shard[s].todo
  BY <1>1 DEF IInv, Types, Step
<1>4. \A sp \in Splits, t \in ShardIds :
        rows'[sp][t] = IF sp = shard[s].split /\ t = s THEN WholeRows(s) ELSE rows[sp][t]
  BY <1>1 DEF IInv, Types, Step, WholeRows
<1>5. \A t \in Active \ {s} : shard'[t] = shard[t] /\ t \in ShardIds
  BY DEF Active, IInv, Types
<1>6. Working(s)'
  <2>1. \A sp \in Splits : sp < shard[s].split => SplitDone(sp, s)'
    <3> SUFFICES ASSUME NEW sp \in Splits, sp < shard[s].split PROVE SplitDone(sp, s)'
      OBVIOUS
    <3>1. SplitDone(sp, s) BY <1>2 DEF Shard, Working
    <3>2. sp # shard[s].split BY <1>1 DEF Step, Splits
    <3>3. rows'[sp][s] = rows[sp][s] BY <1>1, <1>4, <3>2
    <3> QED BY <1>3, <3>1, <3>3 DEF SplitDone, ClipsDone, FilesKept, WholeRows, Mine
  <2>2. ClipsDone(shard[s].split, s)'
    BY <1>2, <1>3 DEF Shard, Working, ClipsDone, Mine
  <2>3. rows'[shard[s].split][s] = WholeRows(s)' BY <1>1, <1>4 DEF Step, WholeRows, Mine
  <2> QED BY <1>3, <2>1, <2>2, <2>3 DEF Working
<1>7. Shard(s)' BY <1>2, <1>3, <1>6 DEF Shard, Succeeded, Mine
<1> QED BY <1>4, <1>5, <1>7, ShardStep

LEMMA WriteSideKeeps ==
  ASSUME IInv, Types', NEW s \in Active, WriteSide(s)
  PROVE  IInv'
<1> USE DEF WriteSide, cache
<1>1. s \in ShardIds /\ shard[s] \in Step BY DEF Active, IInv, Types
<1>2. Shard(s) BY DEF IInv, Shards
<1>3. \A sp \in Splits, t \in ShardIds :
        side'[sp][t] = IF sp = shard[s].split /\ t = s THEN shard[s].tok ELSE side[sp][t]
  BY <1>1 DEF IInv, Types, Step
<1>4. \A t \in Active \ {s} : shard'[t] = shard[t] /\ t \in ShardIds
  BY DEF Active, IInv, Types
<1>5. shard'[s] = IF shard[s].split < NumSplits
                  THEN [Begin(count, k, s, shard[s].tok) EXCEPT !.split = shard[s].split + 1]
                  ELSE [shard[s] EXCEPT !.pc = "ok"]
  BY <1>1 DEF IInv, Types
<1>6. shard'[s].tok = shard[s].tok BY <1>1, <1>5 DEF Step, Begin
<1>7. \A sp \in Splits : sp <= shard[s].split => SplitDone(sp, s)'
  <2> SUFFICES ASSUME NEW sp \in Splits, sp <= shard[s].split PROVE SplitDone(sp, s)'
    OBVIOUS
  <2>1. CASE sp = shard[s].split
    <3>1. side'[sp][s] = shard[s].tok BY <1>1, <1>3, <2>1
    <3> QED
      BY <1>2, <1>6, <2>1, <3>1
      DEF Shard, Working, SplitDone, ClipsDone, FilesKept, WholeRows, Mine
  <2>2. CASE sp < shard[s].split
    <3>1. SplitDone(sp, s) BY <1>2, <2>2 DEF Shard, Working
    <3>2. side'[sp][s] = side[sp][s] BY <1>1, <1>3, <2>2 DEF Step, Splits
    <3> QED BY <1>6, <3>1, <3>2 DEF SplitDone, ClipsDone, FilesKept, WholeRows, Mine
  <2> QED BY <1>1, <2>1, <2>2 DEF Step, Splits
<1>8. Shard(s)'
  <2>1. CASE shard[s].split < NumSplits
    <3>1. /\ shard'[s].pc = "clips" /\ shard'[s].split = shard[s].split + 1
          /\ shard'[s].todo = Mine(count, k, s)
      BY <1>5, <2>1 DEF Begin
    <3>2. \A sp \in Splits : sp < shard[s].split + 1 => sp <= shard[s].split
      BY <1>1 DEF Step, Splits
    <3>3. Working(s)' BY <1>7, <3>1, <3>2 DEF Working, Mine
    <3> QED BY <1>2, <1>6, <3>1, <3>3 DEF Shard, Succeeded, Mine
  <2>2. CASE ~ (shard[s].split < NumSplits)
    <3>1. shard'[s].pc = "ok" /\ shard'[s].todo = shard[s].todo
      BY <1>1, <1>5, <2>2 DEF Step
    <3>2. \A sp \in Splits : sp <= shard[s].split
      BY <1>1, <2>2, ExportAssumption DEF Step, Splits
    <3>3. \A sp \in Splits : SplitDone(sp, s)' BY <1>7, <3>2
    <3>4. Succeeded(s)' BY <3>3 DEF Succeeded, SplitDone, FilesKept
    <3>5. Working(s)' BY <3>1 DEF Working
    <3> QED BY <1>2, <1>6, <3>1, <3>4, <3>5 DEF Shard, Mine
  <2> QED BY <2>1, <2>2
<1> QED BY <1>3, <1>4, <1>8, ShardStep

LEMMA ShardFailsKeeps ==
  ASSUME IInv, Types', NEW s \in Active, ShardFails(s)
  PROVE  IInv'
<1> USE DEF ShardFails, cache, disk
<1>1. s \in ShardIds /\ shard[s] \in Step BY DEF Active, IInv, Types
<1>2. Shard(s) BY DEF IInv, Shards
<1>3. /\ shard'[s].pc = "failed" /\ shard'[s].tok = shard[s].tok
      /\ shard'[s].todo = shard[s].todo
  BY <1>1 DEF IInv, Types, Step
<1>4. Shard(s)' BY <1>2, <1>3 DEF Shard, Working, Succeeded, Mine
<1>5. ASSUME NEW t \in Active \ {s}, NEW sp \in Splits
      PROVE  /\ shard'[t] = shard[t]
             /\ \A i \in Mine(count, k, t) : npz'[sp][i] = npz[sp][i]
             /\ rows'[sp][t] = rows[sp][t]
             /\ side'[sp][t] = side[sp][t]
  <2>1. t \in ShardIds /\ shard'[t] = shard[t] BY DEF Active, IInv, Types
  <2>2. \A i \in Mine(count, k, t) : i \in Clips /\ i \notin shard[s].todo
    BY <1>2, MineApart DEF Shard
  <2>3. \A i \in Mine(count, k, t) : npz'[sp][i] = npz[sp][i]
    <3>1. \/ npz' = npz
          \/ \E i \in shard[s].todo : npz' = [npz EXCEPT ![shard[s].split][i] = "torn"]
      OBVIOUS
    <3>2. npz \in [Splits -> [Clips -> Content]] BY DEF IInv, Types
    <3> SUFFICES ASSUME NEW i \in Mine(count, k, t) PROVE npz'[sp][i] = npz[sp][i] OBVIOUS
    <3>3. ASSUME NEW j \in shard[s].todo, npz' = [npz EXCEPT ![shard[s].split][j] = "torn"]
          PROVE  npz'[sp][i] = npz[sp][i]
      BY <2>2, <3>2, <3>3
    <3> QED BY <3>1, <3>3
  <2>4. rows'[sp][t] = rows[sp][t]
    <3>1. \/ rows' = rows
          \/ \E S \in SUBSET Mine(count, k, s) :
               rows' = [rows EXCEPT ![shard[s].split][s] = [lines |-> S, state |-> "cut"]]
      OBVIOUS
    <3>2. rows \in [Splits -> [ShardIds -> Index]] BY DEF IInv, Types
    <3>3. ASSUME NEW S \in SUBSET Mine(count, k, s),
                 rows' = [rows EXCEPT ![shard[s].split][s] = [lines |-> S, state |-> "cut"]]
          PROVE  rows'[sp][t] = rows[sp][t]
      BY <2>1, <3>2, <3>3
    <3> QED BY <3>1, <3>3
  <2>5. side'[sp][t] = side[sp][t]
    <3>1. side' = side \/ side' = [side EXCEPT ![shard[s].split][s] = "torn"] OBVIOUS
    <3>2. side \in [Splits -> [ShardIds -> Content]] BY DEF IInv, Types
    <3>3. ASSUME side' = [side EXCEPT ![shard[s].split][s] = "torn"]
          PROVE  side'[sp][t] = side[sp][t]
      BY <2>1, <3>2, <3>3
    <3> QED BY <3>1, <3>3
  <2> QED BY <2>1, <2>3, <2>4, <2>5
<1>6. 1 \in Splits BY FirstSplit
<1> QED BY <1>4, <1>5, <1>6, ShardStep
-----------------------------------------------------------------------------
(* The launching script.                                                   *)
LEMMA LaunchKeeps ==
  ASSUME IInv, Types', NEW n \in ShardCounts, NEW c \in Sizes, Launch(n, c)
  PROVE  IInv'
<1>1. /\ k' = n /\ count' = c /\ phase' = "export" /\ runs' = runs + 1 /\ n \in Nat
      /\ UNCHANGED <<msplit, npz, rows, side, index, manifest>>
  BY ExportAssumption DEF Launch, disk, cache
<1>2. PICK tok \in [ShardIds -> Tokenizers] :
        shard' = [s \in ShardIds |-> IF s < n THEN Begin(c, n, s, tok[s]) ELSE Idle]
  BY DEF Launch
<1>3. ASSUME NEW s \in Active' PROVE Shard(s)'
  <2>1. s \in ShardIds /\ s < n BY <1>1, <1>3 DEF Active
  <2>2. shard'[s] = Begin(c, n, s, tok[s]) BY <1>2, <2>1
  <2>3. /\ shard'[s].pc = "clips" /\ shard'[s].tok \in Tokenizers
        /\ shard'[s].split = 1 /\ shard'[s].todo = Mine(c, n, s)
    BY <2>1, <2>2 DEF Begin
  <2>4. \A sp \in Splits : ~ (sp < 1) BY DEF Splits
  <2>5. Working(s)' BY <1>1, <2>3, <2>4 DEF Working, Mine
  <2> QED BY <1>1, <2>3, <2>5 DEF Shard, Succeeded, Mine
<1>4. Shards' BY <1>3 DEF Shards
<1>5. Merge' BY <1>1 DEF Merge, Merging
<1>6. Published' BY <1>1 DEF IInv, Types, Published
<1> QED BY <1>4, <1>5, <1>6 DEF IInv

LEMMA RerunKeeps ==
  ASSUME IInv, Types', NEW s \in Active, Rerun(s)
  PROVE  IInv'
<1>1. /\ phase' = "export" /\ runs' = runs + 1
      /\ UNCHANGED <<k, count, msplit, npz, rows, side, index, manifest>>
  BY DEF Rerun, disk, cache
<1>2. PICK tok \in Tokenizers : shard' = [shard EXCEPT ![s] = Begin(count, k, s, tok)]
  BY DEF Rerun
<1>3. shard[s].pc # "ok" BY DEF Rerun
<1>4. manifest.run # runs /\ k > 0 BY <1>3, AtWork
<1>5. Active' = Active BY <1>1 DEF Active
<1>6. ASSUME NEW t \in Active PROVE Shard(t)'
  <2>1. t \in ShardIds BY DEF Active
  <2>2. CASE t = s
    <3>1. shard'[t] = Begin(count, k, s, tok) BY <1>2, <2>1, <2>2 DEF IInv, Types
    <3>2. /\ shard'[t].pc = "clips" /\ shard'[t].tok \in Tokenizers
          /\ shard'[t].split = 1 /\ shard'[t].todo = Mine(count, k, t)
      BY <2>2, <3>1 DEF Begin
    <3>3. \A sp \in Splits : ~ (sp < 1) BY DEF Splits
    <3>4. Working(t)' BY <1>1, <3>2, <3>3 DEF Working, Mine
    <3> QED BY <1>1, <3>2, <3>4 DEF Shard, Succeeded, Mine
  <2>3. CASE t # s
    <3>1. shard'[t] = shard[t] BY <1>2, <2>1, <2>3 DEF IInv, Types
    <3>2. Shard(t) BY DEF IInv, Shards
    <3> USE <1>1, <3>1 DEF ClipsDone, FilesKept, SplitDone, WholeRows, Mine
    <3>3. Working(t)' BY <3>2 DEF Shard, Working
    <3>4. Succeeded(t)' BY <1>4, <3>2 DEF Shard, Succeeded, NoRows
    <3> QED BY <3>2, <3>3, <3>4 DEF Shard
  <2> QED BY <2>2, <2>3
<1>7. Shards' BY <1>5, <1>6 DEF Shards
<1>8. Merge' BY <1>1 DEF Merge, Merging
<1>9. Published' BY <1>1 DEF IInv, Types, Published
<1> QED BY <1>7, <1>8, <1>9 DEF IInv

(* What the merge of succeeded shards finds.                               *)
LEMMA AllFiles ==
  ASSUME IInv, AllOk, NEW sp \in Splits, NEW i \in Exported
  PROVE  /\ i % k \in Active /\ i \in Mine(count, k, i % k)
         /\ npz[sp][i] = shard[i % k].tok
         /\ npz[sp][i] \in Tokenizers
<1>1. i % k \in Active /\ i \in Mine(count, k, i % k)
  BY MineParts DEF IInv, Types, AllOk
<1>2. Shard(i % k) /\ shard[i % k].pc = "ok"
  BY <1>1 DEF IInv, Shards, AllOk
<1>3. npz[sp][i] = shard[i % k].tok
  BY <1>1, <1>2 DEF Shard, Succeeded, ClipsDone
<1> QED BY <1>1, <1>2, <1>3 DEF Shard

LEMMA ClipsFinite == IsFiniteSet(Clips) /\ IsFiniteSet(Exported)
<1>1. IsFiniteSet(Clips) BY FS_Interval, ExportAssumption DEF Clips
<1>2. Exported \in SUBSET Clips BY DEF Exported
<1> QED BY <1>1, <1>2, FS_Subset

(* The lines of whole index files are as many as the clips of the run:     *)
(* each clip is the line of one shard.                                     *)
LEMMA LinesAreClips ==
  ASSUME IInv, AllOk, NEW sp \in Splits, \A s \in Active : rows[sp][s] = WholeRows(s)
  PROVE  Lines(sp) = Cardinality(Exported)
<1> DEFINE Pairs == {p \in Active \X Clips : p[2] \in rows[sp][p[1]].lines}
           line  == [i \in Exported |-> <<i % k, i>>]
<1>1. IsFiniteSet(Exported) BY ClipsFinite
<1>2. \A i \in Exported : i % k \in Active /\ i \in Mine(count, k, i % k)
  BY MineParts DEF IInv, Types, AllOk
<1>3. \A i \in Exported : <<i % k, i>> \in Pairs BY <1>2, RowFields DEF Exported
<1>4. \A p \in Pairs : p[2] \in Exported /\ p = <<p[2] % k, p[2]>>
  <2> SUFFICES ASSUME NEW s \in Active, NEW i \in Clips, i \in rows[sp][s].lines
               PROVE  i \in Exported /\ s = i % k
    OBVIOUS
  <2> QED BY RowFields DEF Mine, Exported
<1>5. line \in Bijection(Exported, Pairs)
  <2>1. line \in [Exported -> Pairs] BY <1>3
  <2>2. \A i, j \in Exported : line[i] = line[j] => i = j OBVIOUS
  <2>3. \A p \in Pairs : \E i \in Exported : line[i] = p BY <1>4
  <2> HIDE DEF line, Pairs
  <2> QED BY <2>1, <2>2, <2>3 DEF Bijection, Injection, Surjection, IsInjective
<1> HIDE DEF line
<1>6. ExistsBijection(Exported, Pairs) BY <1>5 DEF ExistsBijection
<1>7. Cardinality(Pairs) = Cardinality(Exported) BY <1>1, <1>6, FS_Bijection
<1> QED BY <1>7 DEF Lines

(* The clips of the run are files, so as many files as lines means that no *)
(* other file is there.                                                    *)
LEMMA FilesAreClips ==
  ASSUME IInv, AllOk, NEW sp \in Splits, \A s \in Active : rows[sp][s] = WholeRows(s)
  PROVE  Lines(sp) = Files(sp) <=> \A i \in Clips \ Exported : npz[sp][i] = "none"
<1> DEFINE Found == {i \in Clips : npz[sp][i] # "none"}
<1>1. Exported \subseteq Found BY AllFiles, ExportAssumption DEF Exported
<1>2. IsFiniteSet(Found)
  <2>1. Found \in SUBSET Clips OBVIOUS
  <2> QED BY <2>1, ClipsFinite, FS_Subset
<1>3. Files(sp) = Cardinality(Found) BY DEF Files
<1>4. Found \subseteq Exported <=> \A i \in Clips \ Exported : npz[sp][i] = "none"
  OBVIOUS
<1> HIDE DEF Found
<1>5. Cardinality(Found) = Cardinality(Exported) => Found = Exported
  <2>1. Exported \in SUBSET Found BY <1>1
  <2> QED BY <2>1, <1>2, FS_Subset
<1>6. Cardinality(Found) = Cardinality(Exported) <=> Found \subseteq Exported
  <2>1. Found \subseteq Exported => Found = Exported BY <1>1
  <2> QED BY <2>1, <1>5
<1> QED BY <1>3, <1>4, <1>6, LinesAreClips

(* The merge, and what comes between an export and a merge.                *)
LEMMA MergeKeeps ==
  ASSUME IInv, Types', ~ ManualMerge,
         AllEnded \/ MergeByHand \/ CheckContracts \/ MergeSplit \/ WriteManifest
           \/ Clean \/ MergeDies \/ Rest \/ UNCHANGED vars
  PROVE  IInv'
<1>1. k' = k /\ count' = count /\ runs' = runs /\ shard' = shard /\ npz' = npz
  BY DEF AllEnded, MergeByHand, CheckContracts, MergeSplit, WriteManifest, Clean,
         MergeDies, Rest, vars, disk
<1>2. /\ Active' = Active /\ AllOk' = AllOk /\ Exported' = Exported
      /\ \A s : /\ Mine(count, k, s)' = Mine(count, k, s)
               /\ WholeRows(s)' = WholeRows(s)
  BY <1>1 DEF Active, Mine, WholeRows, AllOk, Exported
<1>3. ASSUME NEW m \in {manifest, [state |-> side[1][0], run |-> runs],
                         [state |-> "torn", run |-> 0]},
             manifest' = m, AllOk \/ m = manifest
      PROVE  Published'
  BY <1>1, <1>2, <1>3 DEF IInv, Types, Published
<1> USE <1>1, <1>2 DEF disk, cache
<1>4. CASE AllEnded \/ MergeByHand
  <2> USE <1>4 DEF AllEnded, MergeByHand
  <2>1. Shards' BY FilesStay
  <2>2. Merge' BY DEF Merge, Merging
  <2>3. Published' BY <1>3
  <2> QED BY <2>1, <2>2, <2>3 DEF IInv
<1>5. CASE CheckContracts
  <2> USE <1>5 DEF CheckContracts, Refuse
  <2>1. Shards' BY FilesStay
  <2>2. ContractsAgree' = ContractsAgree BY DEF ContractsAgree
  <2>3. \A sp \in Splits : ~ (sp < 1) BY DEF Splits
  <2>4. Merge' BY <2>2, <2>3 DEF IInv, Merge, Merging
  <2>5. Published' BY <1>3
  <2> QED BY <2>1, <2>4, <2>5 DEF IInv
<1>6. CASE MergeSplit
  <2> USE <1>6 DEF MergeSplit, Refuse
  <2>1. Shards' BY FilesStay
  <2>2. AllOk /\ ContractsAgree /\ ContractsAgree'
    BY DEF IInv, Merge, Merging, ContractsAgree
  <2>3. ASSUME SplitCounts(msplit), NEW sp \in Splits, sp <= msplit
        PROVE  SplitMerged(sp)'
    <3>1. CASE sp = msplit
      <4>1. \A s \in Active : rows[sp][s] = WholeRows(s)
        BY <2>2, <2>3, <3>1
        DEF IInv, Shards, Shard, Succeeded, AllOk, SplitCounts, NoRows
      <4>2. index'[sp] = [s \in ShardIds |-> IF s \in Active THEN rows[sp][s] ELSE NoRows]
        BY <2>3, <3>1 DEF IInv, Types
      <4>3. index'[sp] = [s \in ShardIds |-> IF s \in Active THEN WholeRows(s) ELSE NoRows]
        BY <4>1, <4>2
      <4>4. \A i \in Clips \ Exported : npz[sp][i] = "none"
        BY <2>2, <2>3, <3>1, <4>1, FilesAreClips DEF SplitCounts
      <4> QED BY <2>3, <4>1, <4>3, <4>4 DEF SplitMerged, WholeRows
    <3>2. CASE sp < msplit
      <4>1. SplitMerged(sp) BY <3>2 DEF IInv, Merge
      <4>2. index'[sp] = index[sp] BY <2>3, <3>2 DEF IInv, Types, Splits
      <4> QED BY <2>3, <4>1, <4>2 DEF SplitMerged, WholeRows
    <3> QED BY <2>3, <3>1, <3>2 DEF IInv, Types, Splits
  <2>4. Merge'
    <3>1. CASE SplitCounts(msplit) /\ msplit < NumSplits
      <4>1. \A sp \in Splits : sp < msplit + 1 => sp <= msplit
        BY DEF IInv, Types, Splits
      <4> QED BY <2>2, <2>3, <3>1, <4>1 DEF Merge, Merging
    <3>2. CASE SplitCounts(msplit) /\ ~ (msplit < NumSplits)
      <4>1. \A sp \in Splits : sp <= msplit
        BY <3>2, ExportAssumption DEF IInv, Types, Splits
      <4> QED BY <2>2, <2>3, <3>2, <4>1 DEF Merge, Merging
    <3>3. CASE ~ SplitCounts(msplit)
      BY <3>3 DEF Merge, Merging
    <3> QED BY <3>1, <3>2, <3>3
  <2>5. Published' BY <1>3
  <2> QED BY <2>1, <2>4, <2>5 DEF IInv
<1>7. CASE WriteManifest
  <2> USE <1>7 DEF WriteManifest
  <2>1. manifest'.run = runs BY DEF IInv, Types
  <2>2. Shards' BY <2>1, FilesStay
  <2>3. AllOk /\ ContractsAgree /\ ContractsAgree' /\ \A sp \in Splits : SplitMerged(sp)
    BY DEF IInv, Merge, Merging, ContractsAgree
  <2>4. \A sp \in Splits : SplitMerged(sp)' BY <2>3 DEF SplitMerged, WholeRows
  <2>5. Merge' BY <2>3, <2>4 DEF Merge, Merging
  <2>6. Published' BY <1>3, <2>3
  <2> QED BY <2>2, <2>5, <2>6 DEF IInv
<1>8. CASE Clean
  <2> USE <1>8 DEF Clean
  <2>1. Shards' BY FilesGo
  <2>2. Merge' BY DEF Merge, Merging
  <2>3. Published' BY <1>3
  <2> QED BY <2>1, <2>2, <2>3 DEF IInv
<1>9. CASE MergeDies
  <2> USE <1>9 DEF MergeDies
  <2>1. phase' = "idle" OBVIOUS
  <2>2. Shards'
    <3>1. CASE phase = "clean"
      <4>1. PICK D \in SUBSET (Splits \X Active) : Unlink(D) BY <3>1
      <4>2. manifest' = manifest BY <3>1
      <4> QED BY <3>1, <4>1, <4>2, FilesGo
    <3>2. CASE phase = "manifest"
      <4>1. AllOk /\ ContractsAgree /\ \A sp \in Splits : SplitMerged(sp)
        BY <3>2 DEF IInv, Merge, Merging
      <4>2. \A sp \in Splits, s \in Active : FilesKept(sp, s)
        <5> SUFFICES ASSUME NEW sp \in Splits, NEW s \in Active PROVE FilesKept(sp, s)
          OBVIOUS
        <5>1. side[sp][s] \in Tokenizers /\ rows[sp][s] = WholeRows(s)
          BY <4>1 DEF ContractsAgree, SplitMerged
        <5>2. side[sp][s] \in {shard[s].tok, "none"}
          BY <4>1 DEF IInv, Shards, Shard, Succeeded, AllOk
        <5>3. "none" \notin Tokenizers BY ExportAssumption
        <5> QED BY <5>1, <5>2, <5>3 DEF FilesKept
      <4> QED BY <3>2, <4>2, FilesStay
    <3>3. CASE phase \in {"check", "merge"}
      <4>1. manifest' = manifest /\ UNCHANGED <<rows, side>> BY <3>3
      <4> QED BY <4>1, FilesStay
    <3> QED BY <3>1, <3>2, <3>3
  <2>3. Merge' BY <2>1 DEF Merge, Merging
  <2>4. AllOk BY DEF IInv, Merge, Merging
  <2>5. Published' BY <1>3, <2>4
  <2> QED BY <2>2, <2>3, <2>5 DEF IInv
<1>10. CASE Rest \/ UNCHANGED vars
  <2> USE <1>10 DEF Rest, vars
  <2>1. Shards' BY FilesStay
  <2>2. ContractsAgree' = ContractsAgree /\ \A sp : SplitMerged(sp)' = SplitMerged(sp)
    BY DEF ContractsAgree, SplitMerged, WholeRows
  <2>3. Merge' BY <2>2 DEF IInv, Merge, Merging
  <2>4. Published' BY <1>3
  <2> QED BY <2>1, <2>3, <2>4 DEF IInv
<1> QED BY <1>4, <1>5, <1>6, <1>7, <1>8, <1>9, <1>10

-----------------------------------------------------------------------------
LEMMA InvInit == Init => IInv
<1> SUFFICES ASSUME Init PROVE IInv OBVIOUS
<1> USE DEF Init
<1>1. Active = {} BY DEF Active, ShardIds
<1>2. Types BY FirstSplit, NoRowsType, ExportAssumption DEF Types, Step, Idle, Content
<1>3. Shards BY <1>1 DEF Shards
<1>4. Merge BY DEF Merge, Merging
<1>5. Published BY DEF Published
<1> QED BY <1>2, <1>3, <1>4, <1>5 DEF IInv

LEMMA InvNext == ~ ManualMerge /\ IInv /\ [Next]_vars => IInv'
<1> SUFFICES ASSUME ~ ManualMerge, IInv, [Next]_vars PROVE IInv' OBVIOUS
<1>1. Types' BY TypesNext DEF IInv
<1>2. ASSUME NEW n \in ShardCounts, NEW c \in Sizes, Launch(n, c) PROVE IInv'
  BY <1>1, <1>2, LaunchKeeps
<1>3. ASSUME NEW s \in Active,
             Rerun(s) \/ ExportClip(s) \/ WriteRows(s) \/ WriteSide(s) \/ ShardFails(s)
      PROVE  IInv'
  BY <1>1, <1>3, RerunKeeps, ExportClipKeeps, WriteRowsKeeps, WriteSideKeeps, ShardFailsKeeps
<1>4. CASE AllEnded \/ MergeByHand \/ CheckContracts \/ MergeSplit \/ WriteManifest
             \/ Clean \/ MergeDies \/ Rest \/ UNCHANGED vars
  BY <1>1, <1>4, MergeKeeps
<1> QED BY <1>2, <1>3, <1>4 DEF Next

LEMMA Invariant == ASSUME ~ ManualMerge PROVE Spec => []IInv
BY InvInit, InvNext, PTL DEF Spec
-----------------------------------------------------------------------------
(* A published cache holds the clips of the last run and no other, all of  *)
(* one tokenizer in every split, the one its manifest names, whatever      *)
(* earlier exports of more or fewer clips left in the directory            *)
(* (merge_export_shards.py and the launching script).                      *)
THEOREM UniformCacheCorrect == ASSUME ~ ManualMerge PROVE Spec => []UniformCache
<1>1. IInv => UniformCache
  <2> SUFFICES ASSUME IInv, phase = "clean", NEW sp \in Splits, NEW i \in Clips
               PROVE  npz[sp][i] = IF i < count THEN manifest.state ELSE "none"
    BY DEF UniformCache
  <2>1. AllOk /\ ContractsAgree /\ manifest.state = side[1][0] /\ SplitMerged(sp)
    BY DEF IInv, Merge, Merging
  <2>2. i \in Exported <=> i < count BY DEF Exported
  <2> SUFFICES ASSUME i \in Exported PROVE npz[sp][i] = manifest.state
    BY <2>1, <2>2 DEF SplitMerged
  <2> DEFINE s == i % k
  <2>3. s \in Active /\ npz[sp][i] = shard[s].tok BY <2>1, AllFiles
  <2>4. side[sp][s] = side[1][0] /\ side[sp][s] \in Tokenizers
    BY <2>1, <2>3 DEF ContractsAgree
  <2>5. side[sp][s] \in {shard[s].tok, "none"}
    BY <2>1, <2>3 DEF IInv, Shards, Shard, Succeeded, AllOk
  <2>6. "none" \notin Tokenizers BY ExportAssumption
  <2> QED BY <2>1, <2>3, <2>4, <2>5, <2>6
<1> QED BY <1>1, Invariant, PTL

(* A published index lists every clip of the run exactly once, in whole    *)
(* rows, and no other clip (merge_split).                                  *)
THEOREM ExactIndexCorrect == ASSUME ~ ManualMerge PROVE Spec => []ExactIndex
<1>1. IInv => ExactIndex
  <2> SUFFICES ASSUME IInv, phase = "clean", NEW sp \in Splits
               PROVE  /\ \A s \in ShardIds : index[sp][s].state # "cut"
                      /\ \A i \in Clips : i < count =>
                           \E s \in ShardIds :
                             {t \in ShardIds : i \in index[sp][t].lines} = {s}
                      /\ \A i \in Clips, s \in ShardIds :
                           i \in index[sp][s].lines => i < count
    BY DEF ExactIndex
  <2>1. AllOk /\ SplitMerged(sp) BY DEF IInv, Merge, Merging
  <2>2. \A s \in ShardIds :
          index[sp][s] = IF s \in Active THEN WholeRows(s) ELSE NoRows
    BY <2>1 DEF SplitMerged
  <2>3. \A s \in ShardIds : index[sp][s].state # "cut"
    BY <2>2, RowFields
  <2>4. ASSUME NEW i \in Clips, i < count
        PROVE  \E s \in ShardIds : {t \in ShardIds : i \in index[sp][t].lines} = {s}
    <3>1. i % k \in Active /\ i % k \in ShardIds /\ i \in Mine(count, k, i % k)
      BY <2>1, <2>4, AllFiles DEF Active, Exported
    <3>2. \A t \in ShardIds : i \in index[sp][t].lines <=> t = i % k
      BY <2>2, <3>1, RowFields DEF Mine
    <3>3. {t \in ShardIds : i \in index[sp][t].lines} = {i % k} BY <3>1, <3>2
    <3> QED BY <3>1, <3>3
  <2>5. \A i \in Clips, s \in ShardIds : i \in index[sp][s].lines => i < count
    BY <2>2, RowFields DEF Mine
  <2> QED BY <2>3, <2>4, <2>5
<1> QED BY <1>1, Invariant, PTL

(* Until the cache of a finished export is published, no shard file is     *)
(* missing: a merge that died or refused can be run again.                 *)
THEOREM RerunnableCorrect == ASSUME ~ ManualMerge PROVE Spec => []Rerunnable
<1>1. IInv => Rerunnable
  <2> SUFFICES ASSUME IInv, AllOk, manifest.run # runs, NEW sp \in Splits, NEW s \in Active
               PROVE  rows[sp][s].state = "whole" /\ side[sp][s] \in Tokenizers
    BY DEF Rerunnable
  <2>1. FilesKept(sp, s) /\ shard[s].tok \in Tokenizers
    BY DEF IInv, Shards, Shard, Succeeded, AllOk
  <2> QED BY <2>1, RowFields DEF FilesKept
<1> QED BY <1>1, Invariant, PTL

-----------------------------------------------------------------------------
(* An export that has succeeded with one tokenizer passes both gates, if   *)
(* no clip of a larger one is left.                                        *)
LEMMA GatesPass ==
  ASSUME IInv, AllOk, manifest.run # runs,
         \A s \in Active : shard[s].tok = shard[0].tok, ~ LeftOver
  PROVE  ContractsAgree /\ \A sp \in Splits : SplitCounts(sp)
<1>1. \A sp \in Splits, s \in Active : FilesKept(sp, s) /\ shard[s].tok \in Tokenizers
  BY DEF IInv, Shards, Shard, Succeeded, AllOk
<1>2. 0 \in Active /\ 1 \in Splits BY FirstSplit DEF Active, AllOk
<1>3. ContractsAgree
  BY <1>1, <1>2 DEF ContractsAgree, FilesKept
<1>4. ASSUME NEW sp \in Splits PROVE SplitCounts(sp)
  <2>1. \A s \in Active : rows[sp][s] = WholeRows(s) BY <1>1 DEF FilesKept
  <2>2. \A s \in Active : rows[sp][s].state # "none" BY <2>1, RowFields
  <2>3. \A i \in Clips \ Exported : npz[sp][i] = "none"
    <3>1. \A i \in Clips : i \notin Exported => i >= count
      BY DEF IInv, Types, Clips, Exported
    <3> QED BY <3>1 DEF LeftOver
  <2>4. Lines(sp) = Files(sp) BY <2>1, <2>3, FilesAreClips
  <2> QED BY <2>2, <2>4 DEF SplitCounts
<1> QED BY <1>3, <1>4

(* The merge refuses an export whose shards all succeeded with one         *)
(* tokenizer only when its cache was published already or clips of a       *)
(* larger export are left in the directory: what older runs with other     *)
(* shards, tokenizers or no more clips left never makes it refuse          *)
(* (merge_export_shards.py).                                               *)
THEOREM NoFalseRefusalCorrect == ASSUME ~ ManualMerge PROVE Spec => NoFalseRefusal
<1> DEFINE NoRefusal ==
      /\ phase \in {"check", "merge"} /\ phase' = "idle" /\ fails' = fails
      /\ AllOk /\ \A s \in Active : shard[s].tok = shard[0].tok
      => manifest.run = runs \/ LeftOver
<1>1. IInv /\ [Next]_vars => [NoRefusal]_vars
  <2> SUFFICES ASSUME IInv, [Next]_vars,
                      phase \in {"check", "merge"}, phase' = "idle", fails' = fails,
                      AllOk, \A s \in Active : shard[s].tok = shard[0].tok,
                      manifest.run # runs, ~ LeftOver
               PROVE  FALSE
    OBVIOUS
  <2>1. ContractsAgree /\ \A sp \in Splits : SplitCounts(sp) BY GatesPass
  <2>2. \A s \in Active : shard[s].pc = "ok" BY DEF AllOk
  <2>3. CASE CheckContracts
    BY <2>1, <2>3 DEF CheckContracts
  <2>4. CASE MergeSplit
    <3>1. msplit \in Splits BY DEF IInv, Types
    <3> QED BY <2>1, <2>4, <3>1 DEF MergeSplit
  <2>5. CASE MergeDies
    BY <2>5 DEF MergeDies, IInv, Types
  <2>6. CASE UNCHANGED vars
    BY <2>6 DEF vars
  <2> QED
    BY <2>2, <2>3, <2>4, <2>5, <2>6
    DEF Next, Launch, Rerun, ExportClip, WriteRows, WriteSide, ShardFails, AllEnded,
        MergeByHand, WriteManifest, Clean, Rest
<1> QED BY <1>1, Invariant, PTL DEF Spec, NoFalseRefusal
=============================================================================
