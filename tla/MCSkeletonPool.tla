--------------------------- MODULE MCSkeletonPool ---------------------------
(***************************************************************************)
(* The parent lists and settings on which SkeletonPool is checked: every   *)
(* parent list of at most three joints, malformed ones included, every     *)
(* root-first tree of at most five joints, and longer skeletons whose      *)
(* chains are cut, chunked and merged several times.                       *)
(***************************************************************************)
EXTENDS SkeletonPool

MCJ == 8

AnyLists == UNION {[0 .. (n - 1) -> -1 .. n] : n \in 1 .. 3}

RootFirstTrees ==
  UNION {{f \in [0 .. (n - 1) -> -1 .. (n - 1)] :
            f[0] = -1 /\ \A j \in 1 .. (n - 1) : f[j] \in 0 .. (j - 1)} : n \in 1 .. 5}

(* The list <<-1, ...>> as a function on 0 .. n - 1.                       *)
List(s) == [j \in 0 .. (Len(s) - 1) |-> s[j + 1]]

LongSkeletons ==
  {List(<<-1, 0, 1, 2, 3, 4, 5, 6>>),   \* one chain
   List(<<-1, 0, 1, 2, 0, 4, 5>>),      \* two limbs at the root
   List(<<-1, 0, 1, 2, 2, 4, 5>>),      \* a trunk that branches
   List(<<-1, 0, 0, 1, 2, 3, 4, 5>>),   \* limbs numbered in turns
   List(<<-1, 0, 1, 1, 2, 3, 4, 5>>)}

MCParentLists == AnyLists \cup RootFirstTrees \cup LongSkeletons

MCSettings ==
  {[cap |-> 3, chunk |-> 2, radius |-> 1],
   [cap |-> 5, chunk |-> 3, radius |-> 1],
   [cap |-> 4, chunk |-> 4, radius |-> 1]}
=============================================================================
