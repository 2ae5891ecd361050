------------------------------ MODULE ClipItem ------------------------------
(***************************************************************************)
(* One item of AnyTopDataset (src/src/data/anytop_dataset.py): the joints  *)
(* of cond.npy are reordered root first, relations between joints are      *)
(* derived, and __getitem__ permutes a clip alike, may remove end          *)
(* effectors, crops or pads it and pads every per-joint array.             *)
(*                                                                         *)
(* Joints carry their index in cond.npy as their name, frames their index  *)
(* in the motion file, so that an array is known by whose rows it holds.   *)
(***************************************************************************)
EXTENDS SkeletonTree, SequencesExt

CONSTANTS
  RawParents,   \* parent lists found in cond.npy, in any order
  Held,         \* topologies held out of training
  MaxJoints,    \* rows of every padded array
  NumFrames,    \* frames of every padded array
  ClipLengths,  \* frames of the motion files
  MaxPath,      \* max_path_len
  RatePercent   \* removal_rate

(* What the constants have to satisfy; the module that gives them values *)
(* assumes it.                                                             *)
ClipAssumption ==
  /\ MaxJoints \in Nat \ {0} /\ NumFrames \in Nat \ {0}
  /\ ClipLengths \subseteq Nat \ {0}
  /\ MaxPath \in Nat \ {0}
  /\ RatePercent \in 0 .. 100
  /\ \A p \in RawParents \cup Held :
       \E n \in 1 .. MaxJoints : p \in [0 .. (n - 1) -> -1 .. (n - 1)]

VARIABLES
  raw,      \* parents in cond.npy
  pc,       \* the part of the code; "skipped", "raised" and "served" are ends
  queue,    \* joints of the breadth-first search, not yet expanded
  names,    \* the skeleton in use: name of each joint
  par,      \* its parents
  row,      \* next row of the relation tables
  edge,     \* edge_rel, row by row
  topo,     \* topo_rel, row by row
  feet,     \* joints (by name) with contact in this clip
  todo,     \* joints still to be removed, the highest first
  full,     \* the cached skeleton, while a reduced one is in use
  window,   \* raw frame shown in each of NumFrames rows, -1 for padding
  moments,  \* moments the clip was normalised with
  item      \* the sample

skeleton == <<names, par>>
tables   == <<row, edge, topo>>
clip     == <<feet, todo, full>>
result   == <<window, moments, item>>
vars     == <<raw, pc, queue, skeleton, tables, clip, result>>

N == Cardinality(Joints(par))

NoItem == [served |-> FALSE]

Nothing == [names |-> <<>>, par |-> <<>>, edge |-> <<>>, topo |-> <<>>]

Reduced == full # Nothing

Init ==
  /\ raw \in RawParents
  /\ pc = "root"
  /\ queue = <<>>
  /\ names = <<>>
  /\ par = raw
  /\ row = 0 /\ edge = <<>> /\ topo = <<>>
  /\ feet = {} /\ todo = <<>> /\ full = Nothing
  /\ window = <<>> /\ moments = "none" /\ item = NoItem

-----------------------------------------------------------------------------
(* _normalize_parents_to_root_first.                                       *)
Roots == {j \in Joints(raw) : raw[j] = -1}

FindRoot ==
  /\ pc = "root"
  /\ IF Cardinality(Roots) = 1
       THEN /\ queue' = SetToSeq(Roots)
            /\ names' = queue'
            /\ pc' = "search"
       ELSE /\ pc' = "skipped"
            /\ UNCHANGED <<queue, names>>
  /\ UNCHANGED <<raw, par, tables, clip, result>>

(* New indices are given in the order of discovery.                        *)
Expand ==
  /\ pc = "search"
  /\ queue # <<>>
  /\ LET found == SetToSortSeq(Children(raw, Head(queue)), LAMBDA a, b : a < b)
     IN /\ queue' = Tail(queue) \o found
        /\ names' = names \o found
  /\ UNCHANGED <<raw, pc, par, tables, clip, result>>

NewIndex(name) == CHOOSE i \in 1 .. Len(names) : names[i] = name

Renumber ==
  /\ pc = "search"
  /\ queue = <<>>
  /\ IF Len(names) # Cardinality(Joints(raw))
       THEN pc' = "skipped" /\ UNCHANGED par
       ELSE /\ par' = [j \in Joints(raw) |->
                         LET p == raw[names[j + 1]]
                         IN IF p = -1 THEN -1 ELSE NewIndex(p) - 1]
            /\ pc' = "relations"
  /\ UNCHANGED <<raw, queue, names, tables, clip, result>>

-----------------------------------------------------------------------------
(* _create_topology_edge_relations, a row at a time.                       *)
EdgeRow(i) ==
  [j \in Joints(par) |->
     CASE i = j           -> IF Children(par, i) = {} THEN "end_effector" ELSE "self"
       [] par[j] = i      -> "child"
       [] j = par[i]      -> "parent"
       [] par[j] = par[i] -> "sibling"
       [] OTHER           -> "no_relation"]

(* Entries to the left are read from the rows above, entries to the right  *)
(* from the entry of the parent in this row.                               *)
TopoRow(i) ==
  LET entry[j \in Joints(par)] ==
        CASE i = j      -> 0
          [] j < i      -> topo[j + 1][i]
          [] par[j] = i -> 1
          [] OTHER      -> entry[par[j]] + 1
  IN entry

Relate ==
  /\ pc = "relations"
  /\ row < N
  /\ edge' = Append(edge, EdgeRow(row))
  /\ topo' = Append(topo, TopoRow(row))
  /\ row' = row + 1
  /\ UNCHANGED <<raw, pc, queue, skeleton, clip, result>>

Clamp(n) == IF n > MaxPath THEN MaxPath ELSE n

(* A reduced skeleton goes on to the check against the held topologies.    *)
EndRelations ==
  /\ pc = "relations"
  /\ row = N
  /\ topo' = [i \in 1 .. N |-> [j \in Joints(par) |-> Clamp(topo[i][j])]]
  /\ pc' = IF Reduced THEN "held" ELSE "clip"
  /\ UNCHANGED <<raw, queue, skeleton, row, edge, clip, result>>

-----------------------------------------------------------------------------
(* _remove_joints_aug.                                                     *)
Removable(contact) == {j \in Leaves(par) \ {0} : names[j + 1] \notin contact}

(* A clip of the type is opened, with some end effectors touching ground.  *)
Open ==
  /\ pc = "clip"
  /\ \E contact \in SUBSET {names[j + 1] : j \in Leaves(par)} : feet' = contact
  /\ pc' \in {"augment", "crop"}
  /\ UNCHANGED <<raw, queue, skeleton, tables, todo, full, result>>

ToRemove == (Cardinality(Removable(feet)) * RatePercent) \div 100

NothingToRemove ==
  /\ pc = "augment"
  /\ ToRemove = 0
  /\ pc' = "crop"
  /\ UNCHANGED <<raw, queue, skeleton, tables, clip, result>>

ChooseRemoved ==
  /\ pc = "augment"
  /\ ToRemove > 0
  /\ \E R \in {S \in SUBSET Removable(feet) : Cardinality(S) = ToRemove} :
       todo' = SetToSortSeq(R, LAMBDA a, b : a > b)
  /\ full' = [names |-> names, par |-> par, edge |-> edge, topo |-> topo]
  /\ pc' = "remove"
  /\ UNCHANGED <<raw, queue, skeleton, tables, feet, result>>

Lowered(p, gone) == IF p > gone THEN p - 1 ELSE p

(* Deleting a row and lowering the parents above it, the highest first.    *)
RemoveOne ==
  /\ pc = "remove"
  /\ todo # <<>>
  /\ LET gone == Head(todo)
         old(j) == IF j < gone THEN j ELSE j + 1
     IN /\ par' = [j \in 0 .. (N - 2) |-> Lowered(par[old(j)], gone)]
        /\ names' = RemoveAt(names, gone + 1)
  /\ todo' = Tail(todo)
  /\ UNCHANGED <<raw, pc, queue, tables, feet, full, result>>

(* The derived arrays of the smaller skeleton are built anew.              *)
Rebuild ==
  /\ pc = "remove"
  /\ todo = <<>>
  /\ row' = 0 /\ edge' = <<>> /\ topo' = <<>>
  /\ pc' = "relations"
  /\ UNCHANGED <<raw, queue, skeleton, clip, result>>

(* canonical_form: equal for skeletons that differ only in the order of    *)
(* their joints.                                                           *)
SameForm(p, q) ==
  /\ Cardinality(Joints(p)) = Cardinality(Joints(q))
  /\ \E f \in [Joints(p) -> Joints(q)] :
       /\ \A a, b \in Joints(p) : f[a] = f[b] => a = b
       /\ \A a \in Joints(p) : q[f[a]] = IF p[a] = -1 THEN -1 ELSE f[p[a]]

IsHeld(p) == \E q \in Held : SameForm(p, q)

HeldGuard ==
  /\ pc = "held"
  /\ ~ IsHeld(par)
  /\ pc' = "crop"
  /\ UNCHANGED <<raw, queue, skeleton, tables, clip, result>>

\* Mutant: the derived arrays of the reduced skeleton stay.
Bare_Restore ==
  /\ pc = "held"
  /\ IsHeld(par)
  /\ names' = full.names /\ par' = full.par
  /\ row' = Len(full.names)
  /\ full' = Nothing
  /\ pc' = "crop"
  /\ UNCHANGED <<raw, queue, edge, topo, feet, todo, result>>

(* The removal is dropped, the clip is kept with its cached skeleton.      *)
Restore ==
  /\ pc = "held"
  /\ IsHeld(par)
  /\ names' = full.names /\ par' = full.par
  /\ edge' = full.edge /\ topo' = full.topo
  /\ row' = Len(full.names)
  /\ full' = Nothing
  /\ pc' = "crop"
  /\ UNCHANGED <<raw, queue, feet, todo, result>>

-----------------------------------------------------------------------------
(* Crop, pad and build the item.                                           *)
Shown(len, start) ==
  [t \in 1 .. NumFrames |-> IF t <= len THEN start + t - 1 ELSE -1]

(* A random or a zero start for a long clip, zero rows behind a short one; *)
(* positions, contacts, normalised channels and rotations share it.        *)
Crop ==
  /\ pc = "crop"
  /\ window = <<>>
  /\ \E len \in ClipLengths :
       \/ /\ len > NumFrames
          /\ \E start \in 0 .. (len - NumFrames) : window' = Shown(len, start)
       \/ /\ len <= NumFrames
          /\ window' = Shown(len, 0)
  /\ moments' \in {"own", "source"}
  /\ UNCHANGED <<raw, pc, queue, skeleton, tables, clip, item>>

PadTo(seq) == [j \in 1 .. MaxJoints |-> IF j <= Len(seq) THEN seq[j] ELSE -1]

(* The table of joint semantics was built for the full skeleton.           *)
Table == IF Reduced THEN full.names ELSE names

SemanticsFit == names = Table

(* The adjacency matrix is derived in the same call as edge_rel, and kept  *)
(* and replaced with it.                                                   *)
Linked ==
  {<<i, j>> \in {<<a, b>> \in (0 .. (Len(edge) - 1)) \X (0 .. (Len(edge) - 1)) :
                  b \in DOMAIN edge[a + 1]} : edge[i + 1][j] \in {"child", "parent"}}

Item(semantics, m) ==
  [served    |-> TRUE,
   parents   |-> par,
   adjacency |-> Linked,
   numJoints |-> Len(names),
   numFrames |-> Cardinality({t \in 1 .. NumFrames : window[t] # -1}),
   rows      |-> PadTo(names),
   semantics |-> PadTo(IF semantics THEN SubSeq(Table, 1, Len(names)) ELSE names),
   jointMask |-> [j \in 1 .. MaxJoints |-> j <= Len(names)],
   frames    |-> window,
   frameMask |-> [t \in 1 .. NumFrames |-> window[t] # -1],
   moments   |-> m]

Serve(semantics) ==
  /\ pc = "crop"
  /\ window # <<>>
  /\ semantics => SemanticsFit
  /\ item' = Item(semantics, moments)
  /\ pc' = "served"
  /\ UNCHANGED <<raw, queue, skeleton, tables, clip, window, moments>>

(* A different order of joints is an error.                                *)
RaiseOrder ==
  /\ pc = "crop"
  /\ window # <<>>
  /\ ~ SemanticsFit
  /\ pc' = "raised"
  /\ UNCHANGED <<raw, queue, skeleton, tables, clip, result>>

-----------------------------------------------------------------------------
(* GraphMotionBatch.from_collate_dict, for one item of the batch.          *)

LengthsAccepted(it) ==
  /\ it.numJoints \in 1 .. MaxJoints
  /\ it.numJoints = Cardinality({j \in 1 .. MaxJoints : it.jointMask[j]})
  /\ it.numFrames \in 1 .. NumFrames
  /\ it.numFrames = Cardinality({t \in 1 .. NumFrames : it.frameMask[t]})

(* Lists have one entry per joint; the parents are a rooted tree in order. *)
ListsAccepted(it) ==
  /\ Cardinality(DOMAIN it.parents) = it.numJoints
  /\ IsRootedTree(it.parents)
  /\ RootFirst(it.parents)

MasksAccepted(it) ==
  /\ \A j \in 1 .. MaxJoints : it.jointMask[j] <=> j <= it.numJoints
  /\ \A t \in 1 .. NumFrames : it.frameMask[t] <=> t <= it.numFrames

(* Binary, symmetric, without self-loops, zero in padded rows: all of it   *)
(* says that the matrix is that of the parents.                            *)
AdjacencyAccepted(it) == it.adjacency = Adjacency(it.parents)

Next ==
  \/ FindRoot \/ Expand \/ Renumber
  \/ Relate \/ EndRelations
  \/ Open \/ NothingToRemove \/ ChooseRemoved \/ RemoveOne \/ Rebuild \/ HeldGuard \/ Restore
  \/ Crop \/ \E semantics \in BOOLEAN : Serve(semantics)
  \/ RaiseOrder

Spec == Init /\ [][Next]_vars

-----------------------------------------------------------------------------
(* Properties.                                                             *)

(* Types of the skeleton in use and of the item.                           *)
TypeOK ==
  /\ pc \in {"root", "search", "relations", "clip", "augment", "crop", "remove", "held",
             "skipped", "raised", "served"}
  /\ Len(names) <= MaxJoints
  /\ \A j \in Joints(par) : par[j] \in -1 .. (MaxJoints - 1)
  /\ row \in 0 .. MaxJoints /\ Len(edge) = row
  /\ moments \in {"none", "own", "source"}

Reordered == pc \notin {"root", "search", "skipped"}

ParentName(j) == IF par[j] = -1 THEN -1 ELSE names[par[j] + 1]

(* What is skipped is no rooted tree; what is kept is root first and has   *)
(* the tree of cond.npy, joint by joint.                                   *)
OrderIsFaithful ==
  /\ pc = "skipped" => ~ IsRootedTree(raw)
  /\ Reordered =>
       /\ IsRootedTree(raw)
       /\ pc # "remove" => RootFirst(par)
       /\ Len(names) = N /\ IsInjective(names)
       /\ \A j \in Joints(par) : pc # "remove" => ParentName(j) = raw[names[j + 1]]

(* The tables are the relations of the tree in use: hop counts clamped at  *)
(* max_path_len, whatever the tree, before and after a removal.            *)
RelationsExact ==
  pc \in {"clip", "held", "crop"} =>
    LET d == GeodesicDist(par)
    IN \A i, j \in Joints(par) :
         /\ topo[i + 1][j] = Clamp(d[i][j])
         /\ (edge[i + 1][j] = "sibling") <=> (i # j /\ par[i] = par[j])
         /\ (edge[i + 1][j] \in {"child", "parent"}) <=> d[i][j] = 1
         /\ (edge[i + 1][j] = "child") <=> (edge[j + 1][i] = "parent")

(* A removal takes end effectors only, never a foot or the root, and       *)
(* leaves the tree between the other joints as it was.                     *)
ReductionExact ==
  pc \in {"held", "served"} /\ Reduced =>
    LET gone == Range(full.names) \ Range(names)
        leaf == {full.names[j + 1] : j \in Leaves(full.par)}
    IN /\ gone \subseteq leaf \ (feet \cup {full.names[1]})
       /\ names = SelectSeq(full.names, LAMBDA x : x \notin gone)

(* A topology the protocol holds out is never served, not even as the      *)
(* skeleton that a removal leaves.                                         *)
HeldNeverServed == pc = "served" /\ ~ IsHeld(raw) => ~ IsHeld(par)

(* Every array of the item shows the same joints in the same rows and      *)
(* marks exactly the real ones, and de-normalising inverts what was        *)
(* applied.                                                                *)
ItemAligned ==
  pc = "served" =>
    /\ item.semantics = item.rows
    /\ \A j \in 1 .. MaxJoints : item.jointMask[j] <=> item.rows[j] # -1
    /\ \A t \in 1 .. NumFrames : item.frameMask[t] <=> item.frames[t] # -1
    /\ item.moments = moments

(* The checks of the batch never stop training over an item that was       *)
(* served: lengths, lists, masks and the graph describe one skeleton, also *)
(* after joints were removed and after a removal was dropped.              *)
ServedIsAccepted ==
  pc = "served" => /\ LengthsAccepted(item) /\ ListsAccepted(item)
                   /\ MasksAccepted(item) /\ AdjacencyAccepted(item)
=============================================================================
