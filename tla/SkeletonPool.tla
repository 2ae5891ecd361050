---------------------------- MODULE SkeletonPool ----------------------------
(***************************************************************************)
(* From a parent list to a coarse graph and back: the skeleton's own walk  *)
(* over its parents (src/data/skeleton_graph.py), the validation of a      *)
(* batch (graph_salad/batch.py, graph_utils.py), the three pools           *)
(* (pool_dynamic.py, pool_deterministic.py, pool_edge_segment.py), the     *)
(* Floyd-Warshall loop on the pooled graph, and the unpool (unpool.py).    *)
(*                                                                         *)
(* One sample of a batch padded to J joints and T frames is followed; the  *)
(* loops of the code are steps, so that what holds in the middle of a loop *)
(* can be stated.  A feature tensor is represented by what it was computed *)
(* from: the joints and the frames whose features it read.                 *)
(***************************************************************************)
EXTENDS SkeletonTree

CONSTANTS
  ParentLists,  \* parent lists that reach the program
  J,            \* joints of the padded batch
  T,            \* frames of the padded batch
  Stride,       \* temporal_stride
  Settings,     \* records [cap, chunk, radius]: max_coarse,
                \* max_chain_chunk_len and local_radius
  MaxNested     \* bound: joints of a graph whose anchors are given

ASSUME PoolAssumption ==
  /\ MaxNested \in Nat
  /\ J \in Nat \ {0} /\ J <= Inf /\ Stride \in Nat \ {0}
  /\ T \in Nat \ {0} /\ T % Stride = 0
  /\ \A par \in ParentLists :
       \E n \in 1 .. J : par \in [0 .. (n - 1) -> Int]
  /\ Settings # {}
  /\ \A s \in Settings : /\ s.cap \in Nat \ {0}
                         /\ s.chunk \in Nat \ {0}
                         /\ s.radius \in Nat \ {0}

Kinds == {"dynamic", "hard", "soft", "edge", "none"}

VARIABLES
  par,      \* parent_indices of the sample
  pc,       \* the loop the program is in; at the end "done", "invalid" (no
            \* batch was built) or "refused" (by the pool)
  walk,     \* skeleton: the joint whose depth is counted, and where it is
  depths,   \* skeleton: depth of each joint
  queue,    \* validation: joints to visit
  visited,  \* validation: joints reached from the root
  kind,     \* which pool
  set,      \* its settings
  given,    \* the anchors came from the caller
  anchors,  \* anchor joints
  leaves,   \* leaves whose path to the root is still to be walked
  up,       \* where that walk is, non-anchors passed in a row
  stack,    \* edge pool: starts of chains to cut, the top first
  segs,     \* edge pool: segments so far
  chainOf,  \* edge pool: seg_chain_id
  reads,    \* joint -> coarse nodes with a non-zero assignment
  hard,     \* joint -> argmax of its assignment
  padj,     \* pooled adjacency
  dist,     \* pooled distances
  k,        \* next pivot of the Floyd-Warshall loop
  nf,       \* valid frames of the sample
  lat,      \* latent frames marked valid
  out       \* fine features marked valid: joint and frame -> what was read

skel   == <<walk, depths>>
check  == <<queue, visited>>
choice == <<kind, set>>
chosen == <<given, anchors, leaves, up>>
edge   == <<stack, segs, chainOf>>
assign == <<reads, hard>>
pooled == <<padj, dist, k>>
motion == <<nf, lat, out>>
vars   == <<par, pc, skel, check, choice, chosen, edge, assign, pooled, motion>>

Valid  == Joints(par)
Padded == 0 .. (J - 1)
Slots  == 0 .. (set.cap - 1)

(* Coarse nodes marked valid in the pooled mask.                           *)
Coarse == CASE kind = "edge" -> 0 .. (Len(segs) - 1)
            [] kind = "none" -> Valid
            [] OTHER         -> 0 .. (Cardinality(anchors) - 1)

(* A set of numbers in ascending order.                                    *)
Sorted(S) ==
  [i \in 1 .. Cardinality(S) |->
     CHOOSE x \in S : Cardinality({y \in S : y < x}) = i - 1]

(* A sequence without its i-th element.                                    *)
Without(s, i) == [n \in 1 .. (Len(s) - 1) |-> IF n < i THEN s[n] ELSE s[n + 1]]

Init ==
  /\ par \in ParentLists
  /\ pc \in {"depth", "validate"}
  /\ walk = [joint |-> 0, at |-> par[0]]
  /\ depths = [j \in Joints(par) |-> 0]
  /\ queue = <<>> /\ visited = {}
  /\ kind = "none" /\ set \in {CHOOSE s \in Settings : TRUE}
  /\ given = FALSE /\ anchors = {} /\ leaves = {} /\ up = [at |-> -1, consec |-> 0]
  /\ stack = <<>> /\ segs = <<>> /\ chainOf = <<>>
  /\ reads = [j \in Padded |-> {}] /\ hard = [j \in Padded |-> 0]
  /\ padj = {} /\ dist = <<>> /\ k = 0
  /\ nf = 0 /\ lat = {} /\ out = [p \in {} |-> {}]

Reject == pc' = "invalid"
Refuse == pc' = "refused"

-----------------------------------------------------------------------------
(* SkeletonGraph.__post_init__.                                            *)

(* One step up; a parent outside the list is an IndexError.  The count     *)
(* stops at J, so that a walk that never ends has finitely many states.    *)
DepthUp ==
  /\ pc = "depth"
  /\ walk.at >= 0
  /\ IF walk.at \in Valid
     THEN /\ depths' = [depths EXCEPT ![walk.joint] = IF @ < J THEN @ + 1 ELSE @]
          /\ walk' = [walk EXCEPT !.at = par[walk.at]]
          /\ pc' = pc
     ELSE Reject /\ UNCHANGED skel
  /\ UNCHANGED <<par, check, choice, chosen, edge, assign, pooled, motion>>

(* The walk passed a root: the next joint, then the rest of the skeleton.  *)
DepthNext ==
  /\ pc = "depth"
  /\ walk.at < 0
  /\ IF walk.joint + 1 \in Valid
     THEN walk' = [joint |-> walk.joint + 1, at |-> par[walk.joint + 1]] /\ pc' = pc
     ELSE walk' = walk /\ pc' = "validate"
  /\ UNCHANGED <<par, depths, check, choice, chosen, edge, assign, pooled, motion>>

-----------------------------------------------------------------------------
(* GraphMotionBatch.from_collate_dict: validate_parent_tree, then          *)
(* assert_root_first_parent_order.                                         *)

Roots == {j \in Valid : par[j] = -1}

ValidateStart ==
  /\ pc = "validate"
  /\ IF /\ Cardinality(Roots) = 1
        /\ \A j \in Valid \ Roots : par[j] \in Valid \ {j}
     THEN \E r \in Roots : queue' = <<r>> /\ visited' = {r} /\ pc' = "visit"
     ELSE Reject /\ UNCHANGED check
  /\ UNCHANGED <<par, skel, choice, chosen, edge, assign, pooled, motion>>

Visit ==
  /\ pc = "visit"
  /\ queue # <<>>
  /\ LET kids == Children(par, Head(queue))
     IN  IF kids \cap visited = {}
         THEN /\ visited' = visited \cup kids
              /\ queue' = Tail(queue) \o Sorted(kids)
              /\ pc' = pc
         ELSE Reject /\ UNCHANGED check
  /\ UNCHANGED <<par, skel, choice, chosen, edge, assign, pooled, motion>>

(* The batch is built, and handed to whichever pool the model has.         *)
ValidateEnd ==
  /\ pc = "visit"
  /\ queue = <<>>
  /\ IF visited = Valid /\ RootFirst(par)
     THEN /\ kind' \in Kinds
          /\ set' \in Settings
          /\ pc' = "entry"
          /\ stack' = IF kind' = "edge" THEN Sorted(Children(par, 0)) ELSE <<>>
          /\ segs' = IF kind' = "edge" THEN << <<0>> >> ELSE <<>>
          /\ chainOf' = IF kind' = "edge" THEN <<-1>> ELSE <<>>
     ELSE Reject /\ UNCHANGED <<choice, edge>>
  /\ UNCHANGED <<par, skel, check, chosen, assign, pooled, motion>>

-----------------------------------------------------------------------------
(* The checks at the head of compute_assignment_and_graph.                 *)

(* Distances recomputed with the Floyd-Warshall loop.                      *)
Recomputed(E, N, valid) ==
  LET floyd[m \in 0 .. Cardinality(N)] ==
        IF m = 0 THEN FloydStart(E, N, valid)
        ELSE CHOOSE d \in {FloydPivot(e, m - 1) : e \in {floyd[m - 1]}} : TRUE
  IN  floyd[Cardinality(N)]

(* The graph is undirected and has no self-loops, and between valid nodes  *)
(* the distances are those of its edges.                                   *)
GraphChecked(E, d, N, valid) ==
  LET now == Recomputed(E, N, valid)
  IN  /\ valid # {}
      /\ \A e \in E : e[1] # e[2] /\ <<e[2], e[1]>> \in E
      /\ \A p \in valid \X valid : d[p] = now[p]

(* The dynamic and the deterministic pool refuse distances that are not    *)
(* those of the adjacency; the edge pool does not look at them.            *)
PoolEntry ==
  /\ pc = "entry"
  /\ LET geo == GeodesicDist(par)
     IN  IF \/ kind \in {"edge", "none"}
            \/ GraphChecked(Adjacency(par), [p \in Valid \X Valid |-> geo[p[1]][p[2]]],
                            Valid, Valid)
         THEN pc' = CASE kind = "edge" -> "segment"
                      [] kind = "none" -> "assign"
                      [] OTHER         -> "anchors"
         ELSE Refuse
  /\ UNCHANGED <<par, skel, check, choice, chosen, edge, assign, pooled, motion>>

-----------------------------------------------------------------------------
(* _select_anchors and find_anchors_rulebased.                             *)

(* Rules 1 to 3: the root, branches and leaves.                            *)
AnchorRules ==
  /\ pc = "anchors"
  /\ anchors' = {j \in Valid : par[j] = -1 \/ Cardinality(Children(par, j)) # 1}
  /\ leaves' = Leaves(par)
  /\ pc' = "chunk"
  /\ UNCHANGED <<par, skel, check, choice, given, up, edge, assign, pooled, motion>>

(* Rule 4, leaf by leaf in ascending order, upwards to the root.           *)
ChunkLeaf ==
  /\ pc = "chunk"
  /\ up.at = -1 /\ leaves # {}
  /\ LET leaf == CHOOSE l \in leaves : \A m \in leaves : l <= m
     IN  /\ up' = [at |-> par[leaf], consec |-> 0]
         /\ leaves' = leaves \ {leaf}
  /\ UNCHANGED <<par, pc, skel, check, choice, given, anchors, edge, assign, pooled, motion>>

\* Mutant: the walk does not go on from an anchor.
Stuck_ChunkUp ==
  /\ pc = "chunk"
  /\ up.at # -1
  /\ up.at \notin anchors
  /\ up' = [up EXCEPT !.at = par[up.at]]
  /\ UNCHANGED <<par, pc, skel, check, choice, given, anchors, leaves, edge, assign, pooled, motion>>

ChunkUp ==
  /\ pc = "chunk"
  /\ up.at # -1
  /\ LET passed == IF up.at \in anchors THEN 0 ELSE up.consec + 1
         full   == passed >= set.chunk
     IN  /\ anchors' = IF full THEN anchors \cup {up.at} ELSE anchors
         /\ up' = [at |-> par[up.at], consec |-> IF full THEN 0 ELSE passed]
  /\ UNCHANGED <<par, pc, skel, check, choice, given, leaves, edge, assign, pooled, motion>>

SelectAnchors ==
  /\ pc = "chunk"
  /\ up.at = -1 /\ leaves = {}
  /\ IF Cardinality(anchors) > set.cap THEN Refuse ELSE pc' = "assign"
  /\ UNCHANGED <<par, skel, check, choice, chosen, edge, assign, pooled, motion>>

(* The nested case: the caller passes the anchors, sorted and with the     *)
(* root, instead of the parents.                                           *)
AnchorSets == {S \in SUBSET Valid : 0 \in S /\ Cardinality(S) <= set.cap}

GivenAnchors ==
  /\ pc = "anchors"
  /\ Cardinality(Valid) <= MaxNested
  /\ \E S \in AnchorSets : anchors' = S
  /\ given' = TRUE
  /\ pc' = "assign"
  /\ UNCHANGED <<par, skel, check, choice, leaves, up, edge, assign, pooled, motion>>

-----------------------------------------------------------------------------
(* _build_segments_rulebased.                                              *)

(* The chain from a joint down to the next branch or leaf.                 *)
ChainFrom(start) ==
  LET chain[j \in Valid] ==
        LET kids == Children(par, j)
        IN  IF Cardinality(kids) # 1 THEN <<j>>
            ELSE <<j>> \o chain[CHOOSE c \in kids : TRUE]
  IN  chain[start]

(* In pairs, the odd joint on the side of the root.                        *)
Pairs(c) ==
  LET odd == Len(c) % 2
  IN  [i \in 1 .. (Len(c) + odd) \div 2 |->
         IF odd = 1 /\ i = 1 THEN <<c[1]>>
         ELSE <<c[2 * i - 1 - odd], c[2 * i - odd]>>]

\* Mutant: the chains that wait are forgotten.
Bug_CutChain ==
  /\ pc = "segment"
  /\ stack # <<>>
  /\ LET c == ChainFrom(Head(stack))
     IN  /\ segs' = segs \o Pairs(c)
         /\ chainOf' = chainOf \o [i \in 1 .. Len(Pairs(c)) |-> 1 + chainOf[Len(chainOf)]]
         /\ stack' = Sorted(Children(par, c[Len(c)]))
  /\ UNCHANGED <<par, pc, skel, check, choice, chosen, assign, pooled, motion>>

CutChain ==
  /\ pc = "segment"
  /\ stack # <<>>
  /\ LET c    == ChainFrom(Head(stack))
         last == c[Len(c)]
         id   == 1 + chainOf[Len(chainOf)]
     IN  /\ segs' = segs \o Pairs(c)
         /\ chainOf' = chainOf \o [i \in 1 .. Len(Pairs(c)) |-> id]
         /\ stack' = Sorted(Children(par, last)) \o Tail(stack)
  /\ UNCHANGED <<par, pc, skel, check, choice, chosen, assign, pooled, motion>>

OfChain(id) == {i \in 1 .. Len(segs) : chainOf[i] = id}

(* Chains that still have two segments to merge.                           *)
Mergeable == {id \in 0 .. chainOf[Len(chainOf)] : Cardinality(OfChain(id)) >= 2}

(* The first of the chains with the most segments.                         *)
LongestChain ==
  CHOOSE id \in Mergeable :
    \A other \in Mergeable :
      \/ Cardinality(OfChain(other)) < Cardinality(OfChain(id))
      \/ Cardinality(OfChain(other)) = Cardinality(OfChain(id)) /\ id <= other

(* Too many segments: the two nearest the root of that chain become one.   *)
MergeSegments ==
  /\ pc = "segment"
  /\ stack = <<>> /\ Len(segs) > set.cap
  /\ IF Mergeable = {}
     THEN Refuse /\ UNCHANGED edge
     ELSE LET lst  == Sorted(OfChain(LongestChain))
              keep == lst[1]
              drop == lst[2]
          IN  /\ segs' = Without([segs EXCEPT ![keep] = @ \o segs[drop]], drop)
              /\ chainOf' = Without(chainOf, drop)
              /\ UNCHANGED <<pc, stack>>
  /\ UNCHANGED <<par, skel, check, choice, chosen, assign, pooled, motion>>

SegmentsBuilt ==
  /\ pc = "segment"
  /\ stack = <<>> /\ Len(segs) <= set.cap
  /\ pc' = "assign"
  /\ UNCHANGED <<par, skel, check, choice, chosen, edge, assign, pooled, motion>>

-----------------------------------------------------------------------------
(* _compute_assignment: which coarse nodes a joint is spread over, and     *)
(* which one has the largest share.                                        *)

(* Hops from a joint to the anchor of a coarse node.                       *)
AnchorHops ==
  LET geo == GeodesicDist(par)
      seq == Sorted(anchors)
  IN  [j \in Valid |-> [c \in Coarse |-> geo[j][seq[c + 1]]]]

CandidatesOf(hops) ==
  [j \in Valid |-> {c \in Coarse : hops[j][c] <= set.radius}]

(* The nearest candidate, the lowest anchor when several are as near.      *)
NearestOf(hops) ==
  [j \in Valid |->
     CHOOSE c \in Coarse :
       \A d \in Coarse : hops[j][c] < hops[j][d] \/ (hops[j][c] = hops[j][d] /\ c <= d)]

SegmentOf ==
  [j \in Valid |-> CHOOSE c \in Coarse : \E i \in 1 .. Len(segs[c + 1]) : segs[c + 1][i] = j]

(* One of its candidates for every joint.                                  *)
Tops(cand) ==
  LET rows[m \in 0 .. Cardinality(Valid)] ==
        IF m = 0 THEN {<<>>}
        ELSE {Append(r, c) : r \in rows[m - 1], c \in cand[m - 1]}
  IN  {[j \in Valid |-> r[j + 1]] : r \in rows[Cardinality(Valid)]}

(* A joint outside the mask has a row of zeros.                            *)
Share(top, spread) ==
  /\ hard' = [j \in Padded |-> IF j \in Valid THEN top[j] ELSE 0]
  /\ reads' = [j \in Padded |-> IF j \in Valid THEN spread[j] ELSE {}]
  /\ pc' = "pool"

(* The learned scores of the dynamic pool can put any candidate on top; a  *)
(* softmax gives every candidate a share.                                  *)
AssignAnchors ==
  /\ pc = "assign" /\ kind \in {"dynamic", "hard", "soft"}
  /\ LET hops == AnchorHops
         cand == CandidatesOf(hops)
         near == NearestOf(hops)
     IN  IF \E j \in Valid : cand[j] = {}
         THEN Refuse /\ UNCHANGED assign
         ELSE CASE kind = "hard" -> Share(near, [j \in Valid |-> {near[j]}])
                [] kind = "soft" -> Share(near, cand)
                [] OTHER -> \E top \in Tops(cand) : Share(top, cand)
  /\ UNCHANGED <<par, skel, check, choice, chosen, edge, pooled, motion>>

AssignSegments ==
  /\ pc = "assign" /\ kind = "edge"
  /\ Share(SegmentOf, [j \in Valid |-> {SegmentOf[j]}])
  /\ UNCHANGED <<par, skel, check, choice, chosen, edge, pooled, motion>>

(* Without a pool the joints are the coarse nodes.                         *)
AssignNone ==
  /\ pc = "assign" /\ kind = "none"
  /\ Share([j \in Valid |-> j], [j \in Valid |-> {j}])
  /\ UNCHANGED <<par, skel, check, choice, chosen, edge, pooled, motion>>

(* _build_pooled_graph, and the same for segments.                         *)
PoolGraph ==
  /\ pc = "pool"
  /\ padj' = CoarseAdjacency(Adjacency(par), hard, Valid, Coarse)
  /\ dist' = FloydStart(padj', Slots \cup Coarse, Coarse)
  /\ k' = 0
  /\ pc' = "floyd"
  /\ UNCHANGED <<par, skel, check, choice, chosen, edge, assign, motion>>

Floyd ==
  /\ pc = "floyd"
  /\ k \in Slots \cup Coarse
  /\ dist' = FloydPivot(dist, k)
  /\ k' = k + 1
  /\ UNCHANGED <<par, pc, skel, check, choice, chosen, edge, assign, padj, motion>>

-----------------------------------------------------------------------------
(* Motion: _pool_features and DynamicGraphUnpool.                          *)

(* Frames averaged into a latent frame.                                    *)
Chunk(u) == {f \in 0 .. (T - 1) : f \div Stride = u}

\* Mutant: one valid frame makes a latent frame valid.
Any_PoolFeatures ==
  /\ pc = "floyd"
  /\ k \notin Slots \cup Coarse
  /\ nf' \in 1 .. T
  /\ lat' = {u \in 0 .. (T \div Stride - 1) : \E f \in Chunk(u) : f < nf'}
  /\ pc' = "attend"
  /\ UNCHANGED <<par, skel, check, choice, chosen, edge, assign, pooled, out>>

(* A latent frame is valid when all frames it averages are.                *)
PoolFeatures ==
  /\ pc = "floyd"
  /\ k \notin Slots \cup Coarse
  /\ nf' \in 1 .. T
  /\ lat' = {u \in 0 .. (T \div Stride - 1) : \A f \in Chunk(u) : f < nf'}
  /\ pc' = "attend"
  /\ UNCHANGED <<par, skel, check, choice, chosen, edge, assign, pooled, out>>

-----------------------------------------------------------------------------
(* GraphAttentionBlock.forward on the pooled graph, as the denoiser runs   *)
(* it: every entry of the distances is looked at, padded slots too.        *)
AttentionAccepts(E, d, N, valid) ==
  /\ GraphChecked(E, d, N, valid)
  /\ \A p \in N \X N : /\ d[p] = Inf \/ d[p] <= Cardinality(N) - 1
                       /\ d[p] = d[<<p[2], p[1]>>]

Attend ==
  /\ pc = "attend"
  /\ IF AttentionAccepts(padj, dist, Slots \cup Coarse, Coarse)
     THEN pc' = "unpool" ELSE Refuse
  /\ UNCHANGED <<par, skel, check, choice, chosen, edge, assign, pooled, motion>>

(* Joints whose features a coarse node averages.                           *)
Members(c) == {j \in Padded : c \in reads[j]}

(* What a fine joint reads at a frame after the round trip; the module     *)
(* refuses shares of padded coarse nodes, valid joints without any share   *)
(* and padded joints with one.                                             *)
Unpool ==
  /\ pc = "unpool"
  /\ IF /\ \A j \in Padded : reads[j] \subseteq Coarse
        /\ \A j \in Valid : reads[j] # {}
        /\ \A j \in Padded \ Valid : reads[j] = {}
     THEN /\ out' = [p \in {q \in Valid \X (0 .. (T - 1)) : q[2] \div Stride \in lat} |->
                       (UNION {Members(c) : c \in reads[p[1]]}) \X Chunk(p[2] \div Stride)]
          /\ pc' = "done"
     ELSE Refuse /\ UNCHANGED out
  /\ UNCHANGED <<par, skel, check, choice, chosen, edge, assign, pooled, nf, lat>>

(* The loops that run until something is found, not for a count.           *)
Loops ==
  \/ DepthUp \/ DepthNext
  \/ ValidateStart \/ Visit \/ ValidateEnd
  \/ AnchorRules \/ ChunkLeaf \/ ChunkUp \/ SelectAnchors \/ GivenAnchors
  \/ CutChain \/ MergeSegments \/ SegmentsBuilt

Next ==
  \/ Loops
  \/ PoolEntry \/ AssignAnchors \/ AssignSegments \/ AssignNone \/ PoolGraph \/ Floyd
  \/ PoolFeatures \/ Attend \/ Unpool

(* One thread runs the loops; nothing in them waits.                       *)
Spec == Init /\ [][Next]_vars /\ WF_vars(Loops)

-----------------------------------------------------------------------------
(* Properties                                                              *)

SegsOf == {segs[i] : i \in 1 .. Len(segs)}
ElementsOf(s) == {s[i] : i \in 1 .. Len(s)}

TypeOK ==
  /\ par \in ParentLists
  /\ pc \in {"depth", "validate", "visit", "entry", "anchors", "chunk", "segment", "assign",
             "pool", "floyd", "attend", "unpool", "done", "invalid", "refused"}
  /\ walk.joint \in Valid /\ depths \in [Valid -> 0 .. J]
  /\ visited \subseteq Valid /\ ElementsOf(queue) \subseteq visited
  /\ kind \in Kinds /\ set \in Settings
  /\ anchors \subseteq Valid /\ leaves \subseteq Valid
  /\ up.at \in Valid \cup {-1} /\ up.consec \in 0 .. set.chunk
  /\ \A s \in SegsOf : s # <<>> /\ ElementsOf(s) \subseteq Valid
  /\ Len(chainOf) = Len(segs)
  /\ hard \in [Padded -> Padded] /\ reads \in [Padded -> SUBSET Padded]
  /\ k \in 0 .. (J + set.cap) /\ nf \in 0 .. T
  /\ lat \subseteq 0 .. (T \div Stride - 1)

(* A batch is built exactly of root-first rooted trees: the breadth-first  *)
(* visit and the order check let no other parent list through and refuse   *)
(* no such tree.                                                           *)
AcceptsExactlyTrees ==
  LET good == IsRootedTree(par) /\ RootFirst(par)
  IN  /\ pc = "invalid" => ~good
      /\ pc \notin {"depth", "validate", "visit", "invalid"} => good

(* Chunking leaves no max_chain_chunk_len joints in a row without an       *)
(* anchor, although the walks from different leaves pass the same joints   *)
(* and each restarts its count.                                            *)
AnchorSpacing ==
  (pc = "assign" /\ kind \in {"dynamic", "hard", "soft"} /\ ~given) =>
    \A bottom \in Valid :
      LET above[m \in 0 .. (set.chunk - 1)] ==
            IF m = 0 THEN bottom ELSE par[above[m - 1]]
      IN  \E m \in 0 .. (set.chunk - 1) : above[m] \in anchors

(* With anchors chosen by the rules, a radius of half a chunk is enough:   *)
(* the pool then refuses a skeleton only for having too many anchors.      *)
RadiusSuffices ==
  (/\ pc = "refused" /\ kind # "edge" /\ ~given
   /\ 2 * set.radius + 1 >= set.chunk)
  => Cardinality(anchors) > set.cap

(* Every segment is a downward path of the skeleton, also after merges, no *)
(* joint is in two segments, and what is not in a segment yet is below a   *)
(* chain start that waits on the stack.                                    *)
SegmentsPartition ==
  (kind = "edge" /\ pc \notin {"depth", "validate", "visit", "invalid"}) =>
    /\ \A s \in SegsOf : \A i \in 1 .. (Len(s) - 1) : par[s[i + 1]] = s[i]
    /\ \A a, b \in 1 .. Len(segs) :
         a # b => ElementsOf(segs[a]) \cap ElementsOf(segs[b]) = {}
    /\ LET cut == UNION {ElementsOf(s) : s \in SegsOf}
       IN  /\ 0 \in cut
           /\ {j \in Valid \ cut : par[j] \in cut} = ElementsOf(stack)

(* Merging fails exactly when the chains alone exceed max_coarse.          *)
OverflowExact ==
  kind = "edge" =>
    LET chains == {j \in Valid \ {0} :
                     par[j] = 0 \/ Cardinality(Children(par, par[j])) >= 2}
    IN  /\ pc = "refused" => Cardinality(chains) + 1 > set.cap
        /\ pc \in {"assign", "pool", "done"} => Cardinality(chains) + 1 <= set.cap

(* Every pool but the dynamic one contracts the skeleton to a tree whose   *)
(* nodes are numbered root first, parents before children, as the FK       *)
(* decoder requires (given anchors may be numbered otherwise).             *)
CoarseTree ==
  (pc = "floyd" /\ k = 0 /\ kind # "dynamic") =>
    /\ IsTreeGraph(padj, Coarse)
    /\ ~given => \A c \in Coarse \ {0} :
                   Cardinality({d \in Neighbours(padj, c) : d < c}) = 1

(* Before pivot k the loop holds the lengths of the shortest paths whose   *)
(* inner nodes are below k; padded coarse nodes are out of reach of        *)
(* everything.                                                             *)
FloydLayers ==
  pc = "floyd" =>
    \A v \in Slots \cup Coarse :
      LET hops == HopsThrough(padj, Coarse, 0 .. (k - 1), v)
      IN  \A w \in Slots \cup Coarse :
            dist[<<v, w>>] = IF v \in Coarse /\ w \in Coarse THEN hops[w] ELSE Inf

(* Pooling brings joints nearer, never apart: the coarse distance of their *)
(* nodes is at most their own, whatever assignment was learned.            *)
Contracts ==
  pc = "attend" =>
    LET geo == GeodesicDist(par)
    IN  \A i, j \in Valid : dist[<<hard[i], hard[j]>>] <= geo[i][j]

(* Down and up again, a fine feature marked valid read valid joints and    *)
(* valid frames only, whatever was assigned to what.                       *)
ReadsValid ==
  \A p \in DOMAIN out : out[p] \subseteq Valid \X (0 .. (nf - 1))

(* Such a feature read its own joint and frame among others, and fewer     *)
(* than Stride frames of the clip have lost theirs.                        *)
RoundTrip ==
  pc = "done" =>
    /\ \A p \in DOMAIN out : p \in out[p]
    /\ DOMAIN out = Valid \X (0 .. ((nf \div Stride) * Stride - 1))

(* Neither the attention on the coarse graph nor the unpool ever refuses   *)
(* what a pool made: whatever was learned or merged, its graph stays       *)
(* undirected with the distances of its edges, and each joint keeps a      *)
(* share.                                                                  *)
PoolFits ==
  pc = "refused" => lat = {} /\ nf = 0

Acyclic == ~ \E S \in SUBSET Valid : S # {} /\ \A j \in S : par[j] \in S

(* Every loop comes to an end.  The walk over the parents has no check of  *)
(* its own, so it needs a list without a cycle, or the validation before   *)
(* it: neither a breadth-first visit nor a merge can go on for ever.       *)
LoopsEnd ==
  (Acyclic \/ pc = "validate")
    ~> (pc \notin {"depth", "validate", "visit", "anchors", "chunk", "segment"})

(* From a parent list to coarse nodes: only trees are let through, their   *)
(* joints are divided among connected nodes with an anchor in reach, and   *)
(* the attention and the unpool accept every result.                       *)
AssignmentSound ==
  /\ TypeOK /\ AcceptsExactlyTrees /\ SegmentsPartition /\ OverflowExact
  /\ AnchorSpacing /\ RadiusSuffices /\ PoolFits

(* Over a pooled skeleton: its graph and its distances are those of the    *)
(* contracted skeleton, and features go down and up again without reading  *)
(* padding or losing their own joint.                                      *)
PooledSound == CoarseTree /\ FloydLayers /\ Contracts /\ ReadsValid /\ RoundTrip
=============================================================================
