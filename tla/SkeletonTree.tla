---------------------------- MODULE SkeletonTree ----------------------------
(***************************************************************************)
(* Skeletons as parent lists, and the graphs computed from them            *)
(* (src/data/skeleton_graph.py, src/models/graph_salad/graph_utils.py).    *)
(*                                                                         *)
(* A parent list is a function on 0 .. n-1; -1 marks a root.  An undirected*)
(* graph is a set of ordered pairs that holds both directions of an edge.  *)
(* Every recursion is a recursive function, so that the modules above can  *)
(* be proved about.                                                        *)
(***************************************************************************)
EXTENDS Integers, Sequences, FiniteSets

(* More than any number of hops: the +inf of the distance matrices.        *)
Inf == 1000

Joints(par) == DOMAIN par

Children(par, j) == {c \in Joints(par) : par[c] = j}

Leaves(par) == {j \in Joints(par) : Children(par, j) = {}}

(* The undirected adjacency matrix of a parent list.                       *)
Adjacency(par) ==
  LET child == {c \in Joints(par) : par[c] >= 0}
  IN  {<<c, par[c]>> : c \in child} \cup {<<par[c], c>> : c \in child}

Neighbours(E, v) == {e[2] : e \in {x \in E : x[1] = v}}

(* The nodes within 0, 1, ... hops of v, through nodes of Through only.    *)
Balls(E, V, Through, v) ==
  LET balls[m \in 0 .. Cardinality(V)] ==
        IF m = 0 THEN << {v} >>
        ELSE LET bs == balls[m - 1]
                 B  == bs[m]
             IN  Append(bs, B \cup {e[2] : e \in {x \in E : /\ x[1] \in B
                                                           /\ (x[1] = v \/ x[1] \in Through)}})
  IN  balls[Cardinality(V)]

(* Hops from v to every node, Inf when it is out of reach: the breadth-    *)
(* first search of the skeleton's own distance matrix, layer by layer.     *)
HopsThrough(E, V, Through, v) ==
  LET balls == Balls(E, V, Through, v)
  IN  [w \in V |-> IF w \in balls[Len(balls)]
                   THEN Cardinality({m \in 1 .. Len(balls) : w \notin balls[m]})
                   ELSE Inf]

Hops(E, V, v) == HopsThrough(E, V, V, v)

(* geodesic_dist of a skeleton: unreachable pairs are n + 1 hops apart.    *)
GeodesicDist(par) ==
  LET E == Adjacency(par)
      n == Cardinality(Joints(par))
  IN  [i \in Joints(par) |->
         LET h == Hops(E, Joints(par), i)
         IN  [j \in Joints(par) |-> IF h[j] = Inf THEN n + 1 ELSE h[j]]]

(* assert_root_first_parent_order: the root is joint 0 and every parent    *)
(* has a lower index than its child.                                       *)
RootFirst(par) ==
  /\ par[0] = -1
  /\ \A i \in Joints(par) \ {0} : par[i] \in 0 .. (i - 1)

(* What a rooted tree is: one root, from which every joint is reached.     *)
IsRootedTree(par) ==
  /\ \A j \in Joints(par) : par[j] \in Joints(par) \cup {-1}
  /\ Cardinality({j \in Joints(par) : par[j] = -1}) = 1
  /\ \A r \in {j \in Joints(par) : par[j] = -1} :
       \A j \in Joints(par) :
         Hops({<<par[c], c>> : c \in {d \in Joints(par) : par[d] # -1}},
              Joints(par), r)[j] # Inf

Connected(E, V) == \A v \in V : \A w \in V : Hops(E, V, v)[w] # Inf

(* A connected graph with one edge less than nodes.                        *)
IsTreeGraph(E, V) ==
  /\ Connected(E, V)
  /\ Cardinality(E) = 2 * (Cardinality(V) - 1)

(* The graph induced on a set of nodes.                                    *)
Induced(E, V) == {e \in E : e[1] \in V /\ e[2] \in V}

(* build_coarse_adjacency_from_hard_assign: an edge between two coarse     *)
(* nodes when an edge of valid joints crosses from one to the other.       *)
CoarseAdjacency(E, hard, valid, coarse) ==
  {e \in {<<hard[x[1]], hard[x[2]]>> : x \in Induced(E, valid)} :
     /\ e[1] # e[2]
     /\ e[1] \in coarse /\ e[2] \in coarse}

(* Before the first pivot of the Floyd-Warshall loop: edges, and zero on   *)
(* the diagonal of the valid nodes.                                        *)
FloydStart(E, N, valid) ==
  [p \in N \X N |->
     IF ~ (p[1] \in valid /\ p[2] \in valid) THEN Inf
     ELSE IF p[1] = p[2] THEN 0
     ELSE IF p \in E THEN 1 ELSE Inf]

(* One pivot of the loop, for all pairs at once.                           *)
FloydPivot(dist, k) ==
  [p \in DOMAIN dist |->
     LET a == dist[<<p[1], k>>]
         b == dist[<<k, p[2]>>]
     IN  IF a # Inf /\ b # Inf /\ a + b < dist[p] THEN a + b ELSE dist[p]]
=============================================================================
