---------------------------- MODULE SkeletonPrune ----------------------------
(***************************************************************************)
(* Removing joints from a skeleton: build_clean_index and what             *)
(* clean_cond_entry derives from it, in clean_animo4d_l2_to_l3.py          *)
(* ("animo4d") and clean_planet_zoo_mainframe.py ("zoo").  A name pattern  *)
(* is the set of joints whose names it matches.                            *)
(***************************************************************************)
EXTENDS SkeletonTree, SequencesExt

CONSTANT MaxJoints   \* bound: joints of a skeleton

(* What the constants have to satisfy; the module that gives them values *)
(* assumes it.                                                             *)
PruneAssumption == MaxJoints \in Nat \ {0}

VARIABLES
  script,  \* "animo4d" or "zoo"
  par,     \* parents
  match,   \* [subtree, leaf]: joints whose names match each pattern
  phase,
  stack,   \* subtree_descendants
  remove,
  keep,    \* joints kept, in their order
  newPar,
  chains

vars == <<script, par, match, phase, stack, remove, keep, newPar, chains>>

(* A joint follows its parent; several roots are refused below.            *)
Forests ==
  UNION {{p \in [0 .. n - 1 -> -1 .. n - 1] : \A j \in 0 .. n - 1 : p[j] < j}
           : n \in 1 .. MaxJoints}

Init ==
  /\ script \in {"animo4d", "zoo"}
  /\ par \in Forests
  /\ match \in [subtree : SUBSET DOMAIN par,
                leaf : IF script = "zoo" THEN {{}} ELSE SUBSET DOMAIN par]
  /\ phase = "seed"
  /\ stack = <<>> /\ remove = {} /\ keep = <<>> /\ newPar = <<>> /\ chains = {}

(* The root is never a seed for one script; a leaf pattern needs a leaf.   *)
SubtreeSeeds == IF script = "zoo" THEN match.subtree ELSE match.subtree \ {0}

LeafSeeds == (match.leaf \cap Leaves(par)) \ ({0} \cup match.subtree)

Ascending(S) == SetToSortSeq(S, <)

Seed ==
  /\ phase = "seed"
  /\ stack' = Ascending(SubtreeSeeds)
  /\ phase' = "grow"
  /\ UNCHANGED <<script, par, match, remove, keep, newPar, chains>>

Popped(rest, j) == rest

Pushed(j) == Ascending(Children(par, j))

(* One turn of the loop of subtree_descendants.                            *)
Grow ==
  /\ phase = "grow" /\ stack # <<>>
  /\ LET j == Last(stack) IN
     IF j \in remove
     THEN stack' = Popped(Front(stack), j) /\ UNCHANGED remove
     ELSE stack' = Front(stack) \o Pushed(j) /\ remove' = remove \cup {j}
  /\ UNCHANGED <<script, par, match, phase, keep, newPar, chains>>

Kept(gone) == Ascending(DOMAIN par \ gone)

EndGrow ==
  /\ phase = "grow" /\ stack = <<>>
  /\ remove' = remove \cup LeafSeeds
  /\ IF 0 \in remove'
     THEN phase' = "refused" /\ UNCHANGED keep
     ELSE phase' = "remap" /\ keep' = Kept(remove')
  /\ UNCHANGED <<script, par, match, stack, newPar, chains>>

NewIndex(j) == IF j < 0 THEN -1 ELSE CHOOSE i \in 0 .. Len(keep) - 1 : keep[i + 1] = j

(* The raises of remap_parents.                                            *)
ParentsKept == \A i \in DOMAIN keep : par[keep[i]] \in {-1} \cup ToSet(keep)

Remapped == [i \in 0 .. Len(keep) - 1 |-> NewIndex(par[keep[i + 1]])]

Remap ==
  /\ phase = "remap"
  /\ IF ParentsKept /\ RootFirst(Remapped)
     THEN phase' = "chains" /\ newPar' = Remapped
     ELSE phase' = "refused" /\ UNCHANGED newPar
  /\ UNCHANGED <<script, par, match, stack, remove, keep, chains>>

(* The path from the root to a joint.                                      *)
Path(p, leaf) ==
  LET up[j \in DOMAIN p] == IF p[j] < 0 THEN <<j>> ELSE Append(up[p[j]], j)
  IN  up[leaf]

(* kinematic_chains_from_parents.                                          *)
Chains ==
  /\ phase = "chains"
  /\ chains' = {Path(newPar, leaf) : leaf \in Leaves(newPar)}
  /\ phase' = "done"
  /\ UNCHANGED <<script, par, match, stack, remove, keep, newPar>>

Next == Seed \/ Grow \/ EndGrow \/ Remap \/ Chains

(* The cleaning script is one loop after the other.                        *)
Spec == Init /\ [][Next]_vars /\ WF_vars(Next)

-----------------------------------------------------------------------------
(* Properties.                                                             *)

AncestorsOrSelf(j) == ToSet(Path(par, j))

(* What the patterns ask to remove: whole subtrees, and leaves.            *)
Asked == {j \in DOMAIN par : AncestorsOrSelf(j) \cap SubtreeSeeds # {}} \cup LeafSeeds

(* The loop finds exactly the joints asked for, and the skeleton is        *)
(* refused exactly when it has several roots left or its root was asked    *)
(* for: no kept joint ever has a removed parent.                           *)
RemovedExact ==
  /\ phase \in {"remap", "chains", "done"} => remove = Asked
  /\ phase \in {"refused", "chains", "done"} =>
       (phase = "refused" <=>
          0 \in Asked \/ \E j \in DOMAIN par \ (Asked \cup {0}) : par[j] = -1)

(* The pruned skeleton is the old one without the removed joints: the      *)
(* joints keep their order, a joint has the parent it had, and the chains  *)
(* lead from the root to every leaf and cover every joint.                 *)
PrunedFaithful ==
  phase = "done" =>
    /\ \A i \in DOMAIN newPar \ {0} : keep[newPar[i] + 1] = par[keep[i + 1]]
    /\ \A i \in 2 .. Len(keep) : keep[i - 1] < keep[i]
    /\ UNION {ToSet(ch) : ch \in chains} = DOMAIN newPar
    /\ \A ch \in chains :
         /\ ch[1] = 0 /\ ch[Len(ch)] \in Leaves(newPar)
         /\ \A i \in 2 .. Len(ch) : newPar[ch[i]] = ch[i - 1]

(* The loop ends, and with it the cleaning of the skeleton.                *)
Ended == phase \in {"done", "refused"}
=============================================================================
