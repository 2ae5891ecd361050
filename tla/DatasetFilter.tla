---------------------------- MODULE DatasetFilter ----------------------------
(***************************************************************************)
(* Removing clips from a data set in place and deriving cleaned data sets: *)
(* filter_animo4d_proximal_rotation.py and clean_animo4d_l2_to_l3.py (kind *)
(* "animo4d"), filter_planet_zoo_velocity_risks.py and                     *)
(* clean_planet_zoo_mainframe.py (kind "zoo").                             *)
(*                                                                         *)
(* A directory holds motions and files about them; a file is the set of    *)
(* clips it speaks of.  A script is a program of steps, each of which      *)
(* rewrites one file; it may be killed at any of them, which leaves the    *)
(* file that was being written truncated.                                  *)
(***************************************************************************)
EXTENDS Integers, Sequences, FiniteSets, SequencesExt

CONSTANTS
  Clips,
  ObjectOf,     \* clip -> object
  Removals,     \* removal lists the operator has
  Kinds,
  MaxJobs,      \* bound: scripts started
  MaxKills      \* bound: scripts killed

(* What the constants have to satisfy; the module that gives them values *)
(* assumes it.                                                             *)
FilterAssumption ==
  /\ DOMAIN ObjectOf = Clips
  /\ Removals \subseteq SUBSET Clips
  /\ Kinds \subseteq {"animo4d", "zoo"}
  /\ {MaxJobs, MaxKills} \subseteq Nat

Roots    == {"source", "derived"}
Listings == {"captions", "manifest", "rows"}  \* JSON by file, JSON of rows, lines
Files    == Listings \cup {"cond", "index", "summary"}

VARIABLES
  kind,
  motions,   \* root -> clips in motions/
  bvhs,      \* root -> clips in bvhs/
  parked,    \* root -> <<kind of file, clip>> in the directory of removed files
  about,     \* root -> file -> clips; of cond: those of its statistics
  present,   \* roots that exist
  torn,      \* <<root, file>>: cut short by a kill once, or not written yet
  backup,    \* <<root, file>> -> <<>> or <<clips>>: metadata_before_filter
  cut,       \* <<root, file>>: the copy into the backup was truncated
  cache,     \* roots with a _cond_normalized file
  stale,     \* roots whose removed directory has one
  job,       \* [op, removal, roots]
  todo,      \* <<step, root>> still to run
  last,      \* how the last script ended
  jobs, kills

disk == <<motions, bvhs, parked, about, present, torn, backup, cut, cache, stale>>
vars == <<kind, disk, job, todo, last, jobs, kills>>

Idle == [op |-> "idle", removal |-> {}, roots |-> <<>>]
Objects == {ObjectOf[c] : c \in Clips}

At(step) == todo # <<>> /\ todo[1][1] = step
Here == todo[1][2]
Advance == todo' = Tail(todo) /\ UNCHANGED <<job, last>>

(* The script raises; nothing is undone.                                   *)
Fail == todo' = <<>> /\ job' = Idle /\ last' = "failed"

(* backup_once.                                                            *)
Backup(r, f) ==
  IF backup[<<r, f>>] # <<>> THEN backup ELSE [backup EXCEPT ![<<r, f>>] = <<about[r][f]>>]

(* Rewrites one file in place, after its backup.                           *)
Rewrite(r, f, clips) ==
  /\ backup' = Backup(r, f)
  /\ about' = [about EXCEPT ![r][f] = clips]
  /\ UNCHANGED <<kind, motions, bvhs, parked, present, torn, cut, cache, stale, jobs, kills>>

(* The rows of an index: objects, each with its count.  A row is rewritten *)
(* and never added, so a truncated index stays short.                      *)
Listed(r) == {ObjectOf[c] : c \in about[r]["index"]}
OfObjects(r, objects) == {c \in motions[r] : ObjectOf[c] \in objects}
Absent(r, f) == about[r][f] = {} /\ <<r, f>> \notin torn

Skip == Advance /\ UNCHANGED <<kind, disk, jobs, kills>>
Raise == Fail /\ UNCHANGED <<kind, disk, jobs, kills>>

-----------------------------------------------------------------------------
(* The filters.                                                            *)

FilterSteps(r) ==
  LET steps == <<"open", "move", "keep_cond", "captions", "manifest", "rows",
                 "cache", "stats", "index", "summary">>
  IN  [i \in DOMAIN steps |-> <<steps[i], r>>]

(* main: the roots of the command line one after the other.                *)
StartFilter ==
  /\ job = Idle /\ jobs < MaxJobs
  /\ \E removal \in Removals, rs \in {<<"source">>, <<"source", "derived">>} :
       /\ job' = [op |-> "filter", removal |-> removal, roots |-> rs]
       /\ todo' = FlattenSeq([i \in DOMAIN rs |-> FilterSteps(rs[i])])
  /\ last' = "none" /\ jobs' = jobs + 1
  /\ UNCHANGED <<kind, disk, kills>>

(* process_dataset loads cond.npy first.                                   *)
Open ==
  /\ At("open")
  /\ IF Here \in present /\ <<Here, "cond">> \notin torn THEN Skip ELSE Raise

\* Mutant: the BVH file of a clip whose motion is gone already is not looked for.
Motion_Pending == job.removal \cap motions[Here]

Pending == job.removal \cap (motions[Here] \cup bvhs[Here])

(* move_if_exists, for a motion and its BVH file.                          *)
MoveClip ==
  /\ At("move")
  /\ \E c \in Pending :
       /\ motions' = [motions EXCEPT ![Here] = @ \ {c}]
       /\ bvhs' = [bvhs EXCEPT ![Here] = @ \ {c}]
       /\ parked' = [parked EXCEPT ![Here] = @ \cup
            {<<"motion", d>> : d \in {c} \cap motions[Here]}
            \cup {<<"bvh", d>> : d \in {c} \cap bvhs[Here]}]
  /\ UNCHANGED <<kind, about, present, torn, backup, cut, cache, stale, job, todo, last, jobs, kills>>

EndMove ==
  /\ At("move") /\ Pending = {}
  /\ Skip

KeepCond ==
  /\ At("keep_cond")
  /\ backup' = Backup(Here, "cond")
  /\ Advance
  /\ UNCHANGED <<kind, motions, bvhs, parked, about, present, torn, cut, cache, stale, jobs, kills>>

(* Entries that go: of every clip of the list, moved now or before.        *)
Unlisted(f) == job.removal \cap about[Here][f]

(* The JSON and line filters.  A caption file that cannot be parsed is     *)
(* left alone; so is the manifest of the zoo, while the other one raises;  *)
(* lines that cannot be parsed are kept.                                   *)
FilterListing ==
  \E f \in Listings :
    /\ At(f)
    /\ CASE <<Here, f>> \in torn /\ f = "manifest" /\ kind = "animo4d" -> Raise
         [] <<Here, f>> \in torn /\ f # "rows" /\ (f = "captions" \/ kind = "zoo") -> Skip
         [] Unlisted(f) = {} -> Skip
         [] OTHER -> Advance /\ Rewrite(Here, f, about[Here][f] \ Unlisted(f))

(* move_stale_cond_cache, when an earlier run has parked a cache already:  *)
(* one script leaves the new one where it is, the other raises.            *)
MoveCache ==
  /\ At("cache")
  /\ IF Here \in cache /\ Here \in stale
     THEN IF kind = "zoo" THEN Raise ELSE Skip
     ELSE /\ cache' = cache \ {Here}
          /\ stale' = stale \cup (cache \cap {Here})
          /\ Advance
          /\ UNCHANGED <<kind, motions, bvhs, parked, about, present, torn, backup, cut, jobs, kills>>

Emptied(r) == {ObjectOf[c] : c \in motions[r]} # Objects

Stats(r) == motions[r]

(* recompute_stats: over every motion on disk, refused when an object has  *)
(* none left.                                                              *)
Recompute ==
  /\ At("stats")
  /\ IF Emptied(Here) THEN Raise
     ELSE /\ about' = [about EXCEPT ![Here]["cond"] = Stats(Here)]
          /\ Advance
          /\ UNCHANGED <<kind, motions, bvhs, parked, present, torn, backup, cut, cache, stale, jobs, kills>>

(* Files that are not there are passed over, and so is the zoo's summary   *)
(* without an index.  A summary cannot be read when it is truncated.       *)
Recounted(f) ==
  /\ ~Absent(Here, f)
  /\ f = "summary" =>
       <<Here, f>> \notin torn /\ (kind = "zoo" => ~Absent(Here, "index"))

(* update_object_index, update_pack_summary and the other summaries, from  *)
(* one count of the motions on disk: the index for the rows it has.  A     *)
(* truncated summary is skipped by one script and stops the other.         *)
Count ==
  \E f \in {"index", "summary"} :
    /\ At(f)
    /\ CASE Recounted(f) ->
              /\ Advance
              /\ Rewrite(Here, f, IF f = "index" THEN OfObjects(Here, Listed(Here))
                                  ELSE motions[Here])
         [] ~Absent(Here, f) /\ kind = "animo4d" -> Raise
         [] OTHER -> Skip

-----------------------------------------------------------------------------
(* The cleaned data set.                                                   *)

CleanSteps ==
  LET steps == IF kind = "animo4d"
               THEN <<"slice_cond", "copy", "slices", "own_stats", "own_index", "own_summary">>
               ELSE <<"slice_cond", "slices", "own_index", "copy", "own_summary">>
  IN  [i \in DOMAIN steps |-> <<steps[i], "derived">>]

(* The target is made afresh; until its cond.npy is written it has none    *)
(* that could be read.                                                     *)
EmptyTarget ==
  /\ present' = Roots
  /\ motions' = [motions EXCEPT !["derived"] = {}]
  /\ bvhs' = [bvhs EXCEPT !["derived"] = {}]
  /\ parked' = [parked EXCEPT !["derived"] = {}]
  /\ about' = [about EXCEPT !["derived"] = [f \in Files |-> {}]]
  /\ torn' = {p \in torn : p[1] # "derived"} \cup {<<"derived", "cond">>}
  /\ cut' = {p \in cut : p[1] # "derived"}
  /\ backup' = [p \in DOMAIN backup |-> IF p[1] = "derived" THEN <<>> ELSE backup[p]]
  /\ cache' = cache \ {"derived"} /\ stale' = stale \ {"derived"}

(* An existing output is refused, or removed first: by the zoo's script    *)
(* before it tries to read the source's cond.npy, by the other after.      *)
StartClean ==
  /\ job = Idle /\ jobs < MaxJobs
  /\ jobs' = jobs + 1
  /\ \E overwrite \in BOOLEAN :
       LET refused    == "derived" \in present /\ ~overwrite
           unreadable == <<"source", "cond">> \in torn
       IN  /\ IF refused \/ (unreadable /\ kind = "animo4d") THEN UNCHANGED disk ELSE EmptyTarget
           /\ IF refused \/ unreadable
              THEN last' = "failed" /\ UNCHANGED <<job, todo>>
              ELSE job' = [Idle EXCEPT !.op = "clean"] /\ todo' = CleanSteps /\ last' = "none"
  /\ UNCHANGED <<kind, kills>>

Build(f, clips) ==
  /\ Advance
  /\ about' = [about EXCEPT !["derived"][f] = clips]
  /\ torn' = torn \ {<<"derived", f>>}
  /\ UNCHANGED <<kind, motions, bvhs, parked, present, backup, cut, cache, stale, jobs, kills>>

(* The skeletons are pruned; the statistics are slices of the source's.    *)
SliceCond == At("slice_cond") /\ Build("cond", about["source"]["cond"])

(* Listings are copied as they are, truncated ones too; the zoo's script   *)
(* copies captions only.                                                   *)
CopyMetadata ==
  /\ At("copy")
  /\ LET copied == IF kind = "zoo" THEN {"captions"} ELSE Listings
     IN  /\ about' = [about EXCEPT !["derived"] =
                       [f \in Files |-> IF f \in copied THEN about["source"][f] ELSE @[f]]]
         /\ torn' = torn \cup {<<"derived", f>> : f \in {g \in copied : <<"source", g>> \in torn}}
  /\ Advance
  /\ UNCHANGED <<kind, motions, bvhs, parked, present, backup, cut, cache, stale, jobs, kills>>

(* Worker processes slice the motions in any order.                        *)
SliceMotion ==
  /\ At("slices")
  /\ \E c \in motions["source"] \ motions["derived"] :
       motions' = [motions EXCEPT !["derived"] = @ \cup {c}]
  /\ UNCHANGED <<kind, bvhs, parked, about, present, torn, backup, cut, cache, stale, job, todo, last, jobs, kills>>

EndSlices ==
  /\ At("slices") /\ motions["source"] = motions["derived"]
  /\ Skip

(* The statistics of the slices, with cond.npy written a second time.      *)
OwnStats ==
  /\ At("own_stats")
  /\ IF Emptied("derived") THEN Raise ELSE Build("cond", Stats("derived"))

(* write_object_index: one script has a row for every object it cleaned,   *)
(* the other for those of the source's index, unless that has none.        *)
IndexRows ==
  IF kind = "zoo" \/ Listed("source") = {} THEN Objects ELSE Listed("source")

OwnIndex ==
  /\ At("own_index")
  /\ Build("index", OfObjects("derived", IndexRows))

OwnSummary == At("own_summary") /\ Build("summary", motions["derived"])

Finish ==
  /\ job # Idle /\ todo = <<>>
  /\ job' = Idle /\ last' = "done"
  /\ UNCHANGED <<kind, disk, todo, jobs, kills>>

-----------------------------------------------------------------------------
(* The file the step under way may be writing.                             *)
Writing ==
  IF todo = <<>> THEN {}
  ELSE CASE todo[1][1] \in Listings ->
              {f \in {todo[1][1]} : Unlisted(f) # {} /\ (f = "rows" \/ <<Here, f>> \notin torn)}
         [] todo[1][1] \in {"stats", "own_stats"} -> IF Emptied(Here) THEN {} ELSE {"cond"}
         [] todo[1][1] = "slice_cond" -> {"cond"}
         [] todo[1][1] \in {"index", "summary"} -> {f \in {todo[1][1]} : Recounted(f)}
         [] todo[1][1] = "own_index" -> {"index"}
         [] todo[1][1] = "own_summary" -> {"summary"}
         [] OTHER -> {}

(* The script is killed: between two writes; between the two files of a    *)
(* clip; while it writes a file, after its backup; while it makes one.     *)
KilledBetween == UNCHANGED <<motions, parked, about, torn, cut, backup>>

KilledMoving ==
  /\ At("move")
  /\ \E c \in job.removal \cap motions[Here] :
       /\ motions' = [motions EXCEPT ![Here] = @ \ {c}]
       /\ parked' = [parked EXCEPT ![Here] = @ \cup {<<"motion", c>>}]
  /\ UNCHANGED <<about, torn, cut, backup>>

(* Of an index the rows written so far are left; another file is of no use *)
(* any more.                                                               *)
KilledWriting ==
  \E f \in Writing :
    /\ torn' = torn \cup {<<Here, f>>}
    /\ backup' = IF job.op = "filter" THEN Backup(Here, f) ELSE backup
    /\ IF f = "index"
       THEN \E left \in SUBSET (IF job.op = "filter" THEN Listed(Here) ELSE IndexRows) :
              about' = [about EXCEPT ![Here]["index"] = OfObjects(Here, left)]
       ELSE UNCHANGED about
    /\ UNCHANGED <<motions, parked, cut>>

KilledKeeping ==
  \E f \in Writing \cup (IF At("keep_cond") THEN {"cond"} ELSE {}) :
    /\ job.op = "filter" /\ backup[<<Here, f>>] = <<>>
    /\ backup' = Backup(Here, f)
    /\ cut' = cut \cup {<<Here, f>>}
    /\ UNCHANGED <<motions, parked, about, torn>>

Kill ==
  /\ job # Idle /\ kills < MaxKills
  /\ KilledBetween \/ KilledMoving \/ KilledWriting \/ KilledKeeping
  /\ kills' = kills + 1
  /\ job' = Idle /\ todo' = <<>> /\ last' = "killed"
  /\ UNCHANGED <<kind, bvhs, present, cache, stale, jobs>>

(* Training on a directory leaves a cache in it.                           *)
Train ==
  /\ job = Idle
  /\ \E r \in present \ cache :
       /\ <<r, "cond">> \notin torn
       /\ cache' = cache \cup {r}
  /\ UNCHANGED <<kind, motions, bvhs, parked, about, present, torn, backup, cut, stale, job, todo,
                 last, jobs, kills>>

Init ==
  /\ kind \in Kinds
  /\ motions = [r \in Roots |-> IF r = "source" THEN Clips ELSE {}]
  /\ bvhs = motions
  /\ parked = [r \in Roots |-> {}]
  /\ about = [r \in Roots |-> [f \in Files |-> motions[r]]]
  /\ present = {"source"}
  /\ torn = {} /\ cut = {} /\ cache = {} /\ stale = {}
  /\ backup = [p \in Roots \X Files |-> <<>>]
  /\ job = Idle /\ todo = <<>> /\ last = "none" /\ jobs = 0 /\ kills = 0

Next == \/ StartFilter \/ Open \/ MoveClip \/ EndMove \/ KeepCond \/ FilterListing
        \/ MoveCache \/ Recompute \/ Count
        \/ StartClean \/ SliceCond \/ CopyMetadata \/ SliceMotion \/ EndSlices
        \/ OwnStats \/ OwnIndex \/ OwnSummary \/ Finish \/ Kill \/ Train

Spec == Init /\ [][Next]_vars

-----------------------------------------------------------------------------
(* Properties.                                                             *)

(* Every file speaks of clips; a script has steps only while it runs.      *)
TypeOK ==
  /\ motions \in [Roots -> SUBSET Clips] /\ bvhs \in [Roots -> SUBSET Clips]
  /\ about \in [Roots -> [Files -> SUBSET Clips]]
  /\ \A r \in Roots : parked[r] \subseteq {"motion", "bvh"} \X Clips
  /\ torn \subseteq Roots \X Files /\ cut \subseteq Roots \X Files
  /\ \A p \in Roots \X Files : Len(backup[p]) <= 1
  /\ job = Idle => todo = <<>>
  /\ last \in {"none", "done", "failed", "killed"}
  /\ jobs \in 0 .. MaxJobs /\ kills \in 0 .. MaxKills

(* An index counts exactly the motions of the objects it has rows for.  It *)
(* has all of them, unless a kill truncated it, or truncated the source's  *)
(* from which it was made: no script ever adds the rows that were lost.    *)
IndexAgrees(r) ==
  /\ about[r]["index"] = OfObjects(r, Listed(r))
  /\ about[r]["index"] = motions[r] \/ {<<r, "index">>, <<"source", "index">>} \cap torn # {}

(* Whatever was killed before: when a filter has done with a root, none of *)
(* its clips is there as a motion, a BVH file or a listing entry, and the  *)
(* statistics and counts are those of the motions on disk.  Only a listing *)
(* or a summary that a kill truncated may keep entries, an index that was  *)
(* truncated lacks rows, and an index or summary that an unfinished        *)
(* cleaning never wrote is still missing.                                  *)
FilteredAgrees ==
  job.op = "filter" =>
    \A i \in DOMAIN job.roots :
      LET r == job.roots[i] IN
      (\A k \in DOMAIN todo : todo[k][2] # r) =>
        /\ job.removal \cap (motions[r] \cup bvhs[r]) = {}
        /\ \A f \in Listings : <<r, f>> \in torn \/ job.removal \cap about[r][f] = {}
        /\ about[r]["cond"] = motions[r]
        /\ Absent(r, "index") \/ IndexAgrees(r)
        /\ <<r, "summary">> \in torn \/ Absent(r, "summary") \/ about[r]["summary"] = motions[r]

(* The first contents of a file of the source are in its backup as soon as *)
(* the file was rewritten, however many lists were applied and scripts     *)
(* killed, unless the copying itself was cut short.  That does happen and  *)
(* is never redone: the original is then lost with the rewrite.            *)
OriginalsKept ==
  \A f \in Files :
    about["source"][f] # Clips \/ <<"source", f>> \in torn =>
      backup[<<"source", f>>] = <<Clips>> \/ <<"source", f>> \in cut

(* A cleaned data set that was built to the end has every motion of its    *)
(* source, an index that counts them, for the rows it has where these come *)
(* from the source's, and statistics of these motions: always where it     *)
(* computes its own, for the zoo, which slices the ones it finds, when no  *)
(* filter had stopped before its recomputation.                            *)
CleanAgrees ==
  job.op = "clean" /\ todo = <<>> =>
    /\ motions["derived"] = motions["source"]
    /\ IndexAgrees("derived") /\ (kind = "zoo" => about["derived"]["index"] = motions["derived"])
    /\ about["derived"]["summary"] = motions["derived"]
    /\ kind = "animo4d" \/ about["source"]["cond"] = motions["source"] =>
         about["derived"]["cond"] = motions["derived"]

====
