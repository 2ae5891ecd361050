---------------------------- MODULE PreprocessFix ----------------------------
(***************************************************************************)
(* fix_preprocess_J_mismatch.py: clips whose number of joints differs from *)
(* the majority of their species are deleted, a skeleton with more joints  *)
(* is cut down to the majority, one with fewer takes its species with it,  *)
(* and a last pass deletes what still disagrees.  The script may be killed *)
(* between any two of its deletions and saves and run again.               *)
(***************************************************************************)
EXTENDS Integers, FiniteSets

CONSTANTS
  Clips,
  SpeciesOf,    \* clip -> species
  Sizes,        \* numbers of joints
  MaxRuns       \* bound: runs of the script

Species == {SpeciesOf[c] : c \in Clips}
Missing == 0

(* What the constants have to satisfy; the module that gives them values *)
(* assumes it.                                                             *)
FixAssumption ==
  /\ DOMAIN SpeciesOf = Clips /\ IsFiniteSet(Clips)
  /\ Sizes \subseteq Nat \ {Missing} /\ MaxRuns \in Nat

VARIABLES
  clip,     \* clip -> joints of its file, Missing when it is deleted
  skeleton, \* species -> joints of its file, Missing when it is deleted
  torn,     \* species whose skeleton file was truncated
  phase,
  bySpecies,\* species -> clips found at the start
  canonical,\* species -> majority
  doomed,   \* to_delete
  actions,  \* species whose skeleton has to be saved again
  checked,  \* clips the last pass has seen
  runs

vars == <<clip, skeleton, torn, phase, bySpecies, canonical, doomed, actions, checked, runs>>

Present == {c \in Clips : clip[c] # Missing}

Init ==
  /\ clip \in [Clips -> Sizes]
  /\ skeleton \in [Species -> Sizes \cup {Missing}]
  /\ torn = {} /\ phase = "idle" /\ runs = 0
  /\ bySpecies = [s \in Species |-> {}] /\ canonical = [s \in Species |-> Missing]
  /\ doomed = {} /\ actions = {} /\ checked = {}

Votes(s, n) == Cardinality({c \in Present : SpeciesOf[c] = s /\ clip[c] = n})

(* most_common(1): one of those with the most clips.                       *)
Majorities(s) == {n \in Sizes : Votes(s, n) > 0 /\ \A k \in Sizes : Votes(s, k) <= Votes(s, n)}

Found == {SpeciesOf[c] : c \in Present}

(* The survey of clips and skeletons; a truncated skeleton raises.         *)
Survey ==
  /\ phase = "idle" /\ runs < MaxRuns
  /\ runs' = runs + 1
  /\ bySpecies' = [s \in Species |-> {c \in Present : SpeciesOf[c] = s}]
  /\ canonical' \in {f \in [Species -> Sizes \cup {Missing}] :
       \A s \in Species : IF s \in Found THEN f[s] \in Majorities(s) ELSE f[s] = Missing}
  /\ IF Found \cap torn # {}
     THEN /\ phase' = "failed"
          /\ UNCHANGED <<doomed, actions>>
     ELSE /\ doomed' = {c \in Present : clip[c] # canonical'[SpeciesOf[c]]}
          /\ actions' = {s \in Found : skeleton[s] \notin {Missing, canonical'[s]}}
          /\ phase' = "delete"
  /\ checked' = {}
  /\ UNCHANGED <<clip, skeleton, torn>>

Delete ==
  /\ phase = "delete"
  /\ \E c \in doomed \cap Present : clip' = [clip EXCEPT ![c] = Missing]
  /\ UNCHANGED <<skeleton, torn, phase, bySpecies, canonical, doomed, actions, checked, runs>>

EndDelete ==
  /\ phase = "delete" /\ doomed \cap Present = {}
  /\ phase' = "skeletons"
  /\ UNCHANGED <<clip, skeleton, torn, bySpecies, canonical, doomed, actions, checked, runs>>

(* The first joints are cut off.                                           *)
Truncate(s) ==
  /\ skeleton[s] > canonical[s]
  /\ skeleton' = [skeleton EXCEPT ![s] = canonical[s]]
  /\ actions' = actions \ {s}
  /\ UNCHANGED <<clip, doomed>>

(* The skeleton's file goes, then the clips one by one.                    *)
DropSkeleton(s) ==
  /\ skeleton[s] < canonical[s] /\ skeleton[s] # Missing
  /\ skeleton' = [skeleton EXCEPT ![s] = Missing]
  /\ UNCHANGED <<clip, doomed, actions>>

DropClip(s) ==
  /\ skeleton[s] = Missing
  /\ \E c \in bySpecies[s] \cap Present :
       clip' = [clip EXCEPT ![c] = Missing] /\ doomed' = doomed \cup {c}
  /\ UNCHANGED <<skeleton, actions>>

Dropped(s) ==
  /\ skeleton[s] = Missing /\ bySpecies[s] \cap Present = {}
  /\ actions' = actions \ {s}
  /\ UNCHANGED <<clip, skeleton, doomed>>

FixSkeleton ==
  /\ phase = "skeletons"
  /\ \E s \in actions : Truncate(s) \/ DropSkeleton(s) \/ DropClip(s) \/ Dropped(s)
  /\ UNCHANGED <<torn, phase, bySpecies, canonical, checked, runs>>

EndSkeletons ==
  /\ phase = "skeletons" /\ actions = {}
  /\ phase' = "verify"
  /\ UNCHANGED <<clip, skeleton, torn, bySpecies, canonical, doomed, actions, checked, runs>>

Disagrees(c) == skeleton[SpeciesOf[c]] # clip[c]

(* The last pass; it also reads skeletons, so a truncated one raises.      *)
Verify ==
  /\ phase = "verify"
  /\ \E c \in Present \ checked :
       /\ clip' = IF Disagrees(c) THEN [clip EXCEPT ![c] = Missing] ELSE clip
       /\ checked' = checked \cup {c}
  /\ UNCHANGED <<skeleton, torn, phase, bySpecies, canonical, doomed, actions, runs>>

Finish ==
  /\ phase = "verify" /\ Present \subseteq checked
  /\ phase' = "finished"
  /\ UNCHANGED <<clip, skeleton, torn, bySpecies, canonical, doomed, actions, checked, runs>>

(* The script ended; the operator may run it again.                        *)
Return ==
  /\ phase = "finished" /\ runs < MaxRuns
  /\ phase' = "idle"
  /\ UNCHANGED <<clip, skeleton, torn, bySpecies, canonical, doomed, actions, checked, runs>>

(* Killed, possibly while it saves a skeleton.                             *)
Kill ==
  /\ phase \in {"delete", "skeletons", "verify"}
  /\ phase' = "idle"
  /\ torn' \in {torn} \cup {torn \cup {s} : s \in
       IF phase = "skeletons" THEN {a \in actions : skeleton[a] > canonical[a]} ELSE {}}
  /\ UNCHANGED <<clip, skeleton, bySpecies, canonical, doomed, actions, checked, runs>>

Next == Survey \/ Delete \/ EndDelete \/ FixSkeleton \/ EndSkeletons \/ Verify
        \/ Finish \/ Return \/ Kill

Spec == Init /\ [][Next]_vars

-----------------------------------------------------------------------------
(* Properties.                                                             *)

(* However often it was killed before: when the script has finished, every *)
(* clip has a skeleton with as many joints.                                *)
FinishedAgrees ==
  phase = "finished" =>
    \A c \in Present : skeleton[SpeciesOf[c]] = clip[c] /\ SpeciesOf[c] \notin torn

(* A clip of the size its species settled on is deleted only where the     *)
(* skeleton is gone, and a skeleton goes only when it has too few joints.  *)
MajorityStep ==
  /\ \A c \in Clips :
       clip[c] = canonical[SpeciesOf[c]] /\ clip'[c] # clip[c] =>
         skeleton[SpeciesOf[c]] = Missing \/ clip[c] = Missing
  /\ \A s \in Species :
       skeleton[s] # Missing /\ skeleton'[s] = Missing => skeleton[s] < canonical[s]
=============================================================================
