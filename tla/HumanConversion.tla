--------------------------- MODULE HumanConversion ---------------------------
(***************************************************************************)
(* convert_humanml3d_to_anytop13.py: the official HumanML3D clips become a *)
(* data set of the loader's form.  A run first removes what an earlier one *)
(* left, then writes clip after clip, and last the statistics, the lists   *)
(* and the captions; it may be killed anywhere and run again with another  *)
(* selection.  A file carries the run that wrote it.                       *)
(***************************************************************************)
EXTENDS Integers, FiniteSets, Sequences

CONSTANTS
  Clips,       \* all.txt
  Official,    \* [train, val, test] -> clips
  Short,       \* clips of at most 4 frames
  Selections,  \* what a run converts: every clip or a sample
  MaxRuns      \* bound: runs

Splits == {"train", "val", "test"}
Dirs   == {"motions", "heldout"}

(* What the constants have to satisfy; the module that gives them values *)
(* assumes it.                                                             *)
ConversionAssumption ==
  /\ Official \in [Splits -> SUBSET Clips]
  /\ Short \subseteq Clips /\ Selections \subseteq SUBSET Clips
  /\ MaxRuns \in Nat

Nothing == [run |-> 0, clips |-> {}]

VARIABLES
  files,     \* directory -> clip -> run that wrote it, 0 when absent
  cond,      \* cond.npy: [run, clips of its statistics]
  lists,     \* splits/<split>.txt: [run, clips]
  captions,  \* motion_texts_by_file.json
  torn,      \* of "cond" and "captions": truncated
  pc,
  ids,       \* clips of this run still to convert
  chosen,    \* its selection
  sums,      \* clips accumulated for the statistics
  written,   \* split -> clips
  run

disk  == <<files, cond, lists, captions, torn>>
local == <<ids, chosen, sums, written>>
vars  == <<disk, pc, local, run>>

NoFile == [c \in Clips |-> 0]

Init ==
  /\ files = [d \in Dirs |-> NoFile]
  /\ cond = Nothing /\ captions = Nothing
  /\ lists = [s \in Splits |-> Nothing]
  /\ torn = {} /\ pc = "off"
  /\ ids = {} /\ chosen = {} /\ sums = {}
  /\ written = [s \in Splits |-> {}]
  /\ run = 0

Start ==
  /\ pc \in {"off", "done", "failed"} /\ run < MaxRuns
  /\ run' = run + 1
  /\ pc' = "rm_motions"
  /\ chosen' \in Selections
  /\ UNCHANGED <<disk, ids, sums, written>>

(* rmtree goes through a directory file by file.                           *)
Unlink ==
  \E d \in Dirs :
    /\ pc = "rm_" \o d
    /\ \E c \in Clips : files[d][c] # 0 /\ files' = [files EXCEPT ![d][c] = 0]
    /\ UNCHANGED <<cond, lists, captions, torn, pc, local, run>>

Emptied(d) == \A c \in Clips : files[d][c] = 0

RemovedMotions ==
  /\ pc = "rm_motions" /\ Emptied("motions")
  /\ pc' = "rm_heldout"
  /\ UNCHANGED <<disk, local, run>>

RemovedHeldout ==
  /\ pc = "rm_heldout" /\ Emptied("heldout")
  /\ pc' = "rm_splits"
  /\ UNCHANGED <<disk, local, run>>

UnlinkList ==
  /\ pc = "rm_splits"
  /\ \E s \in Splits : lists[s] # Nothing /\ lists' = [lists EXCEPT ![s] = Nothing]
  /\ UNCHANGED <<files, cond, captions, torn, pc, local, run>>

RemoveCond ==
  /\ pc = "rm_splits" /\ \A s \in Splits : lists[s] = Nothing
  /\ cond' = Nothing /\ torn' = torn \ {"cond"}
  /\ pc' = "rm_captions"
  /\ UNCHANGED <<files, lists, captions, local, run>>

RemoveCaptions ==
  /\ pc = "rm_captions"
  /\ captions' = Nothing /\ torn' = torn \ {"captions"}
  /\ pc' = "convert"
  /\ ids' = chosen /\ sums' = {} /\ written' = [s \in Splits |-> {}]
  /\ UNCHANGED <<files, cond, lists, chosen, run>>

(* The first list that names a clip wins; a clip of none is a test clip.   *)
SplitOf(c) ==
  CASE c \in Official["train"] -> "train"
    [] c \in Official["val"] \ Official["train"] -> "val"
    [] OTHER -> "test"

ToLoader(c) == SplitOf(c) \in {"train", "val"} /\ c \notin Short

InStats(c) == SplitOf(c) = "train" /\ ToLoader(c)

(* One turn of the loop over the clips.                                    *)
Convert ==
  /\ pc = "convert"
  /\ \E c \in ids :
       /\ ids' = ids \ {c}
       /\ files' = [files EXCEPT ![IF ToLoader(c) THEN "motions" ELSE "heldout"][c] = run]
       /\ sums' = IF InStats(c) THEN sums \cup {c} ELSE sums
       /\ written' = IF ToLoader(c) \/ SplitOf(c) = "test"
                     THEN [written EXCEPT ![SplitOf(c)] = @ \cup {c}] ELSE written
  /\ UNCHANGED <<cond, lists, captions, torn, pc, chosen, run>>

(* Without a training clip there is nothing to compute statistics of.      *)
Converted ==
  /\ pc = "convert" /\ ids = {}
  /\ pc' = IF sums = {} THEN "failed" ELSE "cond"
  /\ UNCHANGED <<disk, local, run>>

SaveCond ==
  /\ pc = "cond"
  /\ cond' = [run |-> run, clips |-> sums]
  /\ pc' = "train"
  /\ UNCHANGED <<files, lists, captions, torn, local, run>>

AfterList(s) == CASE s = "train" -> "val" [] s = "val" -> "test" [] OTHER -> "captions"

SaveList ==
  \E s \in Splits :
    /\ pc = s
    /\ lists' = [lists EXCEPT ![s] = [run |-> run, clips |-> written[s]]]
    /\ pc' = AfterList(s)
    /\ UNCHANGED <<files, cond, captions, torn, local, run>>

SaveCaptions ==
  /\ pc = "captions"
  /\ captions' = [run |-> run, clips |-> chosen]
  /\ pc' = "done"
  /\ UNCHANGED <<files, cond, lists, torn, local, run>>

(* Killed between two writes, or while it writes the lists or one of the   *)
(* other files.                                                            *)
KilledInList ==
  \E s \in Splits : \E part \in SUBSET written[s] :
    /\ pc = s
    /\ lists' = [lists EXCEPT ![s] = [run |-> run, clips |-> part]]
    /\ UNCHANGED <<files, cond, captions, torn>>

KilledInFile ==
  /\ pc \in {"cond", "captions"}
  /\ torn' = torn \cup {pc}
  /\ UNCHANGED <<files, cond, lists, captions>>

Kill ==
  /\ pc \notin {"off", "done", "failed"} /\ run < MaxRuns
  /\ UNCHANGED disk \/ KilledInList \/ KilledInFile
  /\ pc' = "off"
  /\ UNCHANGED <<local, run>>

Next == \/ Start \/ Unlink \/ RemovedMotions \/ RemovedHeldout \/ UnlinkList \/ RemoveCond
        \/ RemoveCaptions \/ Convert \/ Converted \/ SaveCond \/ SaveList \/ SaveCaptions
        \/ Kill

Spec == Init /\ [][Next]_vars

-----------------------------------------------------------------------------
(* Properties.                                                             *)

(* What the loader accepts with lists: cond.npy can be read, the two lists *)
(* are there, do not overlap and name exactly the clips in motions/.       *)
Loads ==
  /\ cond # Nothing /\ "cond" \notin torn
  /\ \A s \in {"train", "val"} : lists[s].clips # {}
  /\ lists["train"].clips \cap lists["val"].clips = {}
  /\ lists["train"].clips \cup lists["val"].clips = {c \in Clips : files["motions"][c] # 0}

(* A directory the loader accepts is the work of one run, whatever was     *)
(* killed before: its clips, lists and statistics belong together, the     *)
(* statistics are those of the training list, and it has no short clip and *)
(* none that only the test list names.                                     *)
LoadedIsOneRun ==
  Loads =>
    /\ \A c \in Clips : files["motions"][c] \in {0, cond.run}
    /\ lists["train"] = cond
    /\ lists["val"].run = cond.run
    /\ \A c \in Short \cup (Official["test"] \ (Official["train"] \cup Official["val"])) :
         files["motions"][c] = 0

(* A run that ends leaves a directory the loader accepts, with a caption   *)
(* for every clip, when its selection has validation clips.                *)
ConvertedLoads ==
  pc = "done" /\ (\E v \in chosen : ToLoader(v) /\ SplitOf(v) = "val") =>
    /\ Loads
    /\ captions = [run |-> run, clips |-> chosen] /\ torn = {}
    /\ \A c \in chosen : \E d \in Dirs : files[d][c] = run
=============================================================================
