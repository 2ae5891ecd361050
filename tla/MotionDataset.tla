---------------------------- MODULE MotionDataset ----------------------------
(***************************************************************************)
(* Construction of AnyTopDataset (data/anytop_dataset.py) while other      *)
(* processes and an operator touch the same directory: the cache of the    *)
(* normalised cond.npy, the match of clips to skeletons by file-name       *)
(* prefix, and the train / val / held lists with their checks.             *)
(*                                                                         *)
(* Four constructions share the directory: "train" and then "val" of a     *)
(* training process, "xtrain" and then "xval" of the script that exports   *)
(* the split lists.  Each line of a construction that touches a file is a  *)
(* step of its own, so every interleaving with the writers is covered.     *)
(***************************************************************************)
EXTENDS Naturals, FiniteSets

CONSTANTS
  Clips,        \* motions/*.npy that exist or may be added
  Species,      \* object types
  OwnerOf,      \* the species a clip was recorded from
  Shorter,      \* the next shorter object type that is a prefix of this one
  None,         \* no species, no such prefix
  KeysOf,       \* cond.npy version -> types that normalise within max_joints
  Whitelist,    \* species_whitelist; Species when it is not given
  ValPercent,   \* val_frac in percent
  Draw(_, _),   \* the first k clips of the seeded shuffle of a set
  MaxAdds       \* bound: clips added while the processes run

Versions == 1 .. 2

ASSUME DatasetAssumption ==
  /\ OwnerOf \in [Clips -> Species]
  /\ Shorter \in [Species -> Species \cup {None}]
  /\ None \notin Species
  /\ KeysOf \in [Versions -> SUBSET Species]
  /\ Whitelist \subseteq Species
  /\ ValPercent \in 0 .. 100
  /\ IsFiniteSet(Clips)
  /\ \A S \in SUBSET Clips : \A k \in 0 .. Cardinality(S) : Draw(S, k) \subseteq S
  /\ MaxAdds \in Nat

Training == {"train", "val"}
Export   == {"xtrain", "xval"}
Builders == Training \cup Export

VARIABLES
  disk,      \* clips in motions/
  cond,      \* version of cond.npy
  cache,     \* version in _cond_normalized_J*.pkl, 0 when there is none
  age,       \* modification time of the cache against that of cond.npy
  lists,     \* splits/train.txt and val.txt: [exists, clips]
  held,      \* clips named by held_*.txt
  pc,        \* where each construction is
  keys,      \* object types each construction works with
  matched,   \* clips it scanned, with the type each was matched to
  want,      \* the list of its own split, as read
  samples,   \* its samples once it is ready
  byFile,    \* it took the lists, not the stratified fallback
  writer,    \* what the export has written so far
  adds,      \* clips added so far
  straddled, \* history: cond.npy changed between its load and the cache write
  rewritten, \* history: a list was written since "train" was begun
  drifted    \* history: motions/ or cond.npy changed since the export began

world    == <<disk, cond, held>>
files    == <<cache, age, lists>>
local    == <<pc, keys, matched, want, samples, byFile>>
history  == <<adds, straddled, rewritten, drifted>>
dataVars == <<world, files, local, writer, history>>

-----------------------------------------------------------------------------
(* Pure parts.                                                             *)

Least(a, b)    == IF a < b THEN a ELSE b
Greatest(a, b) == IF a < b THEN b ELSE a

(* The chain of types whose name is a prefix of a clip of species s.       *)
Prefixes(s) == {s} \cup (IF Shorter[s] = None THEN {} ELSE {Shorter[s]})

(* Keys are tried from the longest to the shortest.                        *)
Match(c, ks) ==
  CASE OwnerOf[c] \in ks                -> OwnerOf[c]
    [] Prefixes(OwnerOf[c]) \cap ks = {} -> None
    [] OTHER                            -> Shorter[OwnerOf[c]]

Scanned(ks) == {c \in disk : Match(c, ks) # None}

OfType(cs, ks, s) == {c \in cs : Match(c, ks) = s}

(* round(n * val_frac), at least one and never all of them.                *)
HoldoutSize(n) ==
  IF n < 2 THEN 0
  ELSE Least(Greatest(1, (n * ValPercent + 50) \div 100), n - 1)

Stratified(cs, ks) ==
  UNION {LET own == OfType(cs, ks, s) IN Draw(own, HoldoutSize(Cardinality(own)))
           : s \in ks}

Whitelisted(cs, ks) == {c \in cs : Match(c, ks) \in Whitelist}

ListOf(b)  == IF b \in {"train", "xtrain"} THEN "train" ELSE "val"
OtherOf(b) == IF ListOf(b) = "train" THEN "val" ELSE "train"

-----------------------------------------------------------------------------
NoList == [exists |-> FALSE, clips |-> {}]

(* Either no lists yet, or lists that agree with the disk, with part of    *)
(* the clips held out.                                                     *)
DataInit ==
  /\ disk \in {D \in SUBSET Clips : Cardinality(D) + MaxAdds = Cardinality(Clips)}
  /\ cond = 1
  /\ cache \in {0, 1}
  /\ age = IF cache = 0 THEN "older" ELSE "newer"
  /\ \/ /\ held = {}
        /\ lists = [l \in Training |-> NoList]
     \/ \E T, V \in SUBSET Scanned(KeysOf[1]) :
          /\ T # {} /\ V # {} /\ T \cap V = {}
          /\ held = Scanned(KeysOf[1]) \ (T \cup V)
          /\ lists = [l \in Training |->
                        [exists |-> TRUE, clips |-> IF l = "train" THEN T ELSE V]]
  /\ pc = [b \in Builders |-> "off"]
  /\ keys = [b \in Builders |-> {}]
  /\ matched = [b \in Builders |-> {}]
  /\ want = [b \in Builders |-> {}]
  /\ samples = [b \in Builders |-> {}]
  /\ byFile = [b \in Builders |-> FALSE]
  /\ writer = "idle"
  /\ adds = 0
  /\ straddled = FALSE
  /\ rewritten = FALSE
  /\ drifted = FALSE

(* "val" follows "train" in its process, "xval" follows "xtrain".          *)
MayBegin(b) ==
  CASE b = "val"  -> pc["train"] = "ready"
    [] b = "xval" -> pc["xtrain"] = "ready"
    [] OTHER      -> TRUE

Begin(b) ==
  /\ pc[b] = "off"
  /\ MayBegin(b)
  /\ pc' = [pc EXCEPT ![b] = "cond"]
  /\ rewritten' = IF b = "train" THEN FALSE ELSE rewritten
  /\ drifted' = IF b = "xtrain" THEN FALSE ELSE drifted
  /\ UNCHANGED <<world, files, keys, matched, want, samples, byFile, writer, adds,
                 straddled>>

\* Mutant: a cache written in the second of the edit counts as new.
Tie_CacheIsNewer == cache # 0 /\ age \in {"same", "newer"}

CacheIsNewer == cache # 0 /\ age = "newer"

LoadCache(b) ==
  /\ pc[b] = "cond"
  /\ CacheIsNewer
  /\ keys' = [keys EXCEPT ![b] = KeysOf[cache]]
  /\ pc' = [pc EXCEPT ![b] = "scan"]
  /\ UNCHANGED <<world, files, matched, want, samples, byFile, writer, history>>

NormalizeCond(b) ==
  /\ pc[b] = "cond"
  /\ ~ CacheIsNewer
  /\ keys' = [keys EXCEPT ![b] = KeysOf[cond]]
  /\ pc' = [pc EXCEPT ![b] = IF cond = 1 THEN "save1" ELSE "save2"]
  /\ UNCHANGED <<world, files, matched, want, samples, byFile, writer, history>>

Saving(b) == pc[b] \in {"save1", "save2"}

(* A temporary file of its own, renamed: the last writer wins.             *)
SaveCache(b) ==
  /\ Saving(b)
  /\ cache' = IF pc[b] = "save1" THEN 1 ELSE 2
  /\ age' \in {"same", "newer"}
  /\ pc' = [pc EXCEPT ![b] = "scan"]
  /\ UNCHANGED <<world, lists, keys, matched, want, samples, byFile, writer, history>>

Scan(b) ==
  /\ pc[b] = "scan"
  /\ matched' = [matched EXCEPT ![b] = Scanned(keys[b])]
  /\ pc' = [pc EXCEPT ![b] = "split"]
  /\ UNCHANGED <<world, files, keys, want, samples, byFile, writer, history>>

Finish(b, cs) ==
  LET kept == Whitelisted(cs, keys[b]) IN
  IF kept = {} /\ Whitelist # Species
    THEN /\ pc' = [pc EXCEPT ![b] = "refused"]
         /\ UNCHANGED samples
    ELSE /\ pc' = [pc EXCEPT ![b] = "ready"]
         /\ samples' = [samples EXCEPT ![b] = kept]

Refuse(b) ==
  /\ pc' = [pc EXCEPT ![b] = "refused"]
  /\ UNCHANGED samples

ListsExist == lists["train"].exists /\ lists["val"].exists

(* The export forces the algorithm (use_split_file=False).                 *)
UsesLists(b) == b \in Training /\ ListsExist

Fallback(b) ==
  /\ pc[b] = "split"
  /\ ~ UsesLists(b)
  /\ LET val == Stratified(matched[b], keys[b]) IN
     Finish(b, IF ListOf(b) = "val" THEN val ELSE matched[b] \ val)
  /\ UNCHANGED <<world, files, keys, matched, want, byFile, writer, history>>

ReadOwn(b) ==
  /\ pc[b] = "split"
  /\ UsesLists(b)
  /\ want' = [want EXCEPT ![b] = lists[ListOf(b)].clips]
  /\ byFile' = [byFile EXCEPT ![b] = TRUE]
  /\ pc' = [pc EXCEPT ![b] = "other"]
  /\ UNCHANGED <<world, files, keys, matched, samples, writer, history>>

\* Mutant: the coverage check of the lists is left out.
Lax_ListsSound(b, other) ==
  /\ want[b] # {} /\ other # {}
  /\ want[b] \cap other = {}
  /\ (want[b] \cup other) \cap held = {}

(* Empty, overlapping, absent, held twice, uncovered: each is an error.    *)
ListsSound(b, other) ==
  /\ want[b] # {} /\ other # {}
  /\ want[b] \cap other = {}
  /\ want[b] \cup other \subseteq matched[b]
  /\ (want[b] \cup other) \cap held = {}
  /\ matched[b] \subseteq want[b] \cup other \cup held

ReadOther(b) ==
  /\ pc[b] = "other"
  /\ IF ListsSound(b, lists[OtherOf(b)].clips)
       THEN Finish(b, want[b])
       ELSE Refuse(b)
  /\ UNCHANGED <<world, files, keys, matched, want, byFile, writer, history>>

Construct(b) ==
  \/ Begin(b) \/ LoadCache(b) \/ NormalizeCond(b) \/ SaveCache(b) \/ Scan(b)
  \/ Fallback(b) \/ ReadOwn(b) \/ ReadOther(b)

-----------------------------------------------------------------------------
(* The export writes train.txt, then val.txt; each write truncates first.  *)
Write(l, cs) ==
  /\ lists' = [lists EXCEPT ![l] = [exists |-> TRUE, clips |-> cs]]
  /\ rewritten' = TRUE
  /\ UNCHANGED <<world, cache, age, local, adds, straddled, drifted>>

ExportedDisjoint == samples["xtrain"] \cap samples["xval"] = {}

BeginTrainList ==
  /\ writer = "idle"
  /\ pc["xval"] = "ready"
  /\ ExportedDisjoint
  /\ writer' = "train"
  /\ \E part \in SUBSET samples["xtrain"] : Write("train", part)

EndTrainList ==
  /\ writer = "train"
  /\ writer' = "between"
  /\ Write("train", samples["xtrain"])

BeginValList ==
  /\ writer = "between"
  /\ writer' = "val"
  /\ \E part \in SUBSET samples["xval"] : Write("val", part)

EndValList ==
  /\ writer = "val"
  /\ writer' = "done"
  /\ Write("val", samples["xval"])

ExportLists == BeginTrainList \/ EndTrainList \/ BeginValList \/ EndValList

-----------------------------------------------------------------------------
(* Changes of the data under the running processes.                        *)
AddClip ==
  /\ adds < MaxAdds
  /\ \E c \in Clips \ disk : disk' = disk \cup {c}
  /\ adds' = adds + 1
  /\ drifted' = TRUE
  /\ UNCHANGED <<cond, held, files, local, writer, straddled, rewritten>>

UpdateCond ==
  /\ cond = 1
  /\ cond' = 2
  /\ age' \in {"older", "same"}
  /\ straddled' = (straddled \/ \E b \in Builders : Saving(b))
  /\ drifted' = TRUE
  /\ UNCHANGED <<disk, held, cache, lists, local, writer, adds, rewritten>>

DataNext ==
  \/ \E b \in Builders : Construct(b)
  \/ ExportLists
  \/ AddClip
  \/ UpdateCond

DataSpec == DataInit /\ [][DataNext]_dataVars

-----------------------------------------------------------------------------
(* Properties.                                                             *)

(* Types of the directory and of the constructions.                        *)
DataTypeOK ==
  /\ disk \subseteq Clips /\ held \subseteq Clips
  /\ cond \in Versions /\ cache \in 0 .. 2
  /\ age \in {"older", "same", "newer"}
  /\ lists \in [Training -> [exists : BOOLEAN, clips : SUBSET Clips]]
  /\ pc \in [Builders -> {"off", "cond", "save1", "save2", "scan", "split", "other",
                          "ready", "refused"}]
  /\ keys \in [Builders -> SUBSET Species]
  /\ {matched, want, samples} \subseteq [Builders -> SUBSET Clips]
  /\ byFile \in [Builders -> BOOLEAN]
  /\ writer \in {"idle", "train", "between", "val", "done"}
  /\ adds \in 0 .. MaxAdds

(* A cache that the next construction would load holds the cond.npy on     *)
(* disk, whatever was written in whatever order and within one tick of the *)
(* file clock; the exception is an edit of cond.npy between a load of it   *)
(* and the write of the cache.                                             *)
CacheHonest == CacheIsNewer /\ ~ straddled => cache = cond

(* While the lists stand, the training and the validation set of a process *)
(* that takes both by the lists, without a whitelist, never share a clip   *)
(* and leave out only what is held, although each reads the directory at a *)
(* time of its own and clips and skeletons may arrive in between.  Nothing *)
(* is said of sets drawn anew, nor of lists exported again in between.     *)
SplitsPartition ==
  /\ \A b \in Training : pc[b] = "ready" /\ byFile[b]
  /\ ~ rewritten
  /\ Whitelist = Species
  => /\ samples["train"] \cap samples["val"] = {}
     /\ samples["train"] \cup samples["val"] \cup held = matched["val"] \cup held

(* Lists exported from unchanged data, with nothing held and no whitelist, *)
(* are accepted by both constructions, and divide the clips as the         *)
(* stratified algorithm does.                                              *)
ExportServes ==
  /\ writer = "done" /\ ~ drifted /\ ~ straddled
  /\ held = {} /\ Whitelist = Species
  => /\ ListsExist
     /\ lists["train"].clips \cap lists["val"].clips = {}
     /\ lists["train"].clips \cup lists["val"].clips = Scanned(KeysOf[cond])
     /\ lists["val"].clips = Stratified(Scanned(KeysOf[cond]), KeysOf[cond])

(* The lists divide the clips: as they are exported, and as two loads of   *)
(* them see the data.                                                      *)
SplitsSound == DataTypeOK /\ SplitsPartition /\ ExportServes

(* A species whose skeleton is skipped takes its clips with it: every      *)
(* sample is served on the skeleton it was recorded from (warning at       *)
(* anytop_dataset.py:611).                                                 *)
OwnSkeleton ==
  \A b \in Builders : \A c \in samples[b] : Match(c, keys[b]) = OwnerOf[c]
=============================================================================
