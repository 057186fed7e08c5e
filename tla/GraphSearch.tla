----------------------------- MODULE GraphSearch -----------------------------
(***************************************************************************)
(* The graph library (pmud/graph): a Graph of vertices 0..V-1 with         *)
(* adjacency lists is built edge by edge and transposed; then              *)
(* BreadthFirstSearch or DepthFirstSearch is run on it, one step per edge  *)
(* that is looked at.  The recursion of DFS_Visit is a stack of frames.    *)
(* printPath follows what a search returned.                               *)
(***************************************************************************)
EXTENDS Integers, SequencesExt

CONSTANTS
  V,         \* the number of vertices
  MaxEdges   \* bound: calls of addEdge

ASSUME VAssumption == V \in Nat \ {0} /\ MaxEdges \in Nat

Vertices == 0..(V - 1)
INVALID_VERTEX == -1
INT_MAX == 2147483647

VARIABLES
  adj,        \* adj[u]: the adjacency list of u
  directed,
  edges,      \* calls of addEdge so far
  search,     \* "none", "bfs", "dfs" or "done"
  s,          \* the source of the search
  color, d, f, pi,   \* the SearchData
  time,       \* of the depth-first search
  Q,          \* the queue of the breadth-first search
  next,       \* the index of the next edge of the vertex at its front
  stack       \* the frames of DFS_Visit, innermost last: u and the next index

graphVars == <<adj, directed, edges>>
searchVars == <<color, d, f, pi, time, Q, next, stack>>
vars == <<graphVars, search, s, searchVars>>
-----------------------------------------------------------------------------
(***************************************************************************)
(* Graph                                                                   *)
(***************************************************************************)
addDirectedEdge(g, u, v) == IF Contains(g[u], v) THEN g ELSE [g EXCEPT ![u] = Append(@, v)]

addEdge(g, u, v) ==
  LET there == addDirectedEdge(g, u, v)
  IN  IF directed THEN there ELSE addDirectedEdge(there, v, u)

Build(u, v) ==
  /\ search = "none"
  /\ edges < MaxEdges
  /\ adj' = addEdge(adj, u, v)
  /\ edges' = edges + 1
  /\ UNCHANGED <<directed, search, s, searchVars>>

\* An iteration of addEdgesRandom.
AddRandomEdge == \E u, v \in Vertices : Build(u, v)

\* The adjacency lists after the first n vertices have been gone through.
Transposed ==
  LET temp[n \in 0..V] ==
        [y \in Vertices |->
           IF n = 0 THEN <<>>
           ELSE IF Contains(adj[n - 1], y) THEN Append(temp[n - 1][y], n - 1) ELSE temp[n - 1][y]]
  IN  temp[V]

\* A directed graph is replaced by its transpose; an undirected one is copied.
Transpose ==
  /\ search = "none"
  /\ directed
  /\ adj' = Transposed
  /\ UNCHANGED <<directed, edges, search, s, searchVars>>
-----------------------------------------------------------------------------
(***************************************************************************)
(* BreadthFirstSearch                                                      *)
(***************************************************************************)
BfsStart(src) ==
  /\ search = "none"
  /\ search' = "bfs"
  /\ s' = src
  /\ color' = [u \in Vertices |-> IF u = src THEN "GRAY" ELSE "WHITE"]
  /\ d' = [u \in Vertices |-> IF u = src THEN 0 ELSE INT_MAX]
  /\ pi' = [u \in Vertices |-> INVALID_VERTEX]
  /\ Q' = <<src>> /\ next' = 1
  /\ UNCHANGED <<graphVars, f, time, stack>>

\* The vertex v is discovered from u.
Discover(u, v) ==
  /\ color' = [color EXCEPT ![v] = "GRAY"]
  /\ d' = [d EXCEPT ![v] = d[u] + 1]
  /\ pi' = [pi EXCEPT ![v] = u]
  /\ Q' = Append(Q, v)

FrontHasEdge == Q # <<>> /\ next <= Len(adj[Head(Q)])

\* Mutant of BfsEdge: also takes vertices that are waiting in the queue.
BfsEdgeAgain ==
  /\ search = "bfs"
  /\ FrontHasEdge
  /\ LET v == adj[Head(Q)][next]
     IN  \/ color[v] # "BLACK" /\ Discover(Head(Q), v)
         \/ color[v] = "BLACK" /\ UNCHANGED <<color, d, pi, Q>>
  /\ next' = next + 1
  /\ UNCHANGED <<graphVars, search, s, f, time, stack>>

\* The next edge of the front of the queue.
BfsEdge ==
  /\ search = "bfs"
  /\ FrontHasEdge
  /\ LET v == adj[Head(Q)][next]
     IN  \/ color[v] = "WHITE" /\ Discover(Head(Q), v)
         \/ color[v] # "WHITE" /\ UNCHANGED <<color, d, pi, Q>>
  /\ next' = next + 1
  /\ UNCHANGED <<graphVars, search, s, f, time, stack>>

\* The front of the queue is popped.  (u is a reference to it; the memory still
\* holds it when color[u] is set.)
BfsPop ==
  /\ search = "bfs"
  /\ Q # <<>>
  /\ ~FrontHasEdge
  /\ color' = [color EXCEPT ![Head(Q)] = "BLACK"]
  /\ Q' = Tail(Q)
  /\ next' = 1
  /\ UNCHANGED <<graphVars, search, s, d, f, pi, time, stack>>

BfsEnd ==
  /\ search = "bfs"
  /\ Q = <<>>
  /\ search' = "done"
  /\ UNCHANGED <<graphVars, s, searchVars>>
-----------------------------------------------------------------------------
(***************************************************************************)
(* DepthFirstSearch                                                        *)
(***************************************************************************)
\* DFS_Visit(u) begins.
Visit(u) ==
  /\ color' = [color EXCEPT ![u] = "GRAY"]
  /\ d' = [d EXCEPT ![u] = time]
  /\ time' = time + 1

DfsStart(src) ==
  /\ search = "none"
  /\ search' = "dfs"
  /\ s' = src
  /\ color' = [u \in Vertices |-> IF u = src THEN "GRAY" ELSE "WHITE"]
  /\ d' = [u \in Vertices |-> IF u = src THEN 0 ELSE -1]
  /\ f' = [u \in Vertices |-> -1]
  /\ pi' = [u \in Vertices |-> INVALID_VERTEX]
  /\ time' = 1
  /\ stack' = <<[u |-> src, next |-> 1]>>
  /\ UNCHANGED <<graphVars, Q, next>>

Top == stack[Len(stack)]
HasEdge == stack # <<>> /\ Top.next <= Len(adj[Top.u])
Onward == [stack EXCEPT ![Len(stack)].next = @ + 1]

\* Mutant of DfsEdge: a vertex that is still being visited gets a new parent.
DfsEdgeReparents ==
  /\ search = "dfs"
  /\ HasEdge
  /\ LET v == adj[Top.u][Top.next]
     IN  \/ /\ color[v] = "WHITE"
            /\ pi' = [pi EXCEPT ![v] = Top.u]
            /\ Visit(v)
            /\ stack' = Append(Onward, [u |-> v, next |-> 1])
         \/ /\ color[v] # "WHITE"
            /\ pi' = IF color[v] = "GRAY" THEN [pi EXCEPT ![v] = Top.u] ELSE pi
            /\ stack' = Onward
            /\ UNCHANGED <<color, d, time>>
  /\ UNCHANGED <<graphVars, search, s, f, Q, next>>

\* The next edge of the innermost DFS_Visit.
DfsEdge ==
  /\ search = "dfs"
  /\ HasEdge
  /\ LET v == adj[Top.u][Top.next]
     IN  \/ /\ color[v] = "WHITE"
            /\ pi' = [pi EXCEPT ![v] = Top.u]
            /\ Visit(v)
            /\ stack' = Append(Onward, [u |-> v, next |-> 1])
         \/ /\ color[v] # "WHITE"
            /\ stack' = Onward
            /\ UNCHANGED <<color, d, pi, time>>
  /\ UNCHANGED <<graphVars, search, s, f, Q, next>>

\* Mutant of DfsReturn: the time does not advance.
DfsReturnSameTime ==
  /\ search = "dfs"
  /\ stack # <<>>
  /\ ~HasEdge
  /\ color' = [color EXCEPT ![Top.u] = "BLACK"]
  /\ f' = [f EXCEPT ![Top.u] = time]
  /\ stack' = Front(stack)
  /\ UNCHANGED <<graphVars, search, s, d, pi, time, Q, next>>

\* DFS_Visit(u) ends.
DfsReturn ==
  /\ search = "dfs"
  /\ stack # <<>>
  /\ ~HasEdge
  /\ color' = [color EXCEPT ![Top.u] = "BLACK"]
  /\ f' = [f EXCEPT ![Top.u] = time]
  /\ time' = time + 1
  /\ stack' = Front(stack)
  /\ UNCHANGED <<graphVars, search, s, d, pi, Q, next>>

Unvisited == {u \in Vertices : color[u] = "WHITE"}

\* Mutant of DfsRoot: the loop visits a vertex without looking at its color.
DfsRootRevisits ==
  /\ search = "dfs"
  /\ stack = <<>>
  /\ \E u \in Vertices : Visit(u) /\ stack' = <<[u |-> u, next |-> 1]>>
  /\ UNCHANGED <<graphVars, search, s, f, pi, Q, next>>

\* The loop over the remaining vertices finds the next root, or none.
DfsRoot ==
  /\ search = "dfs"
  /\ stack = <<>>
  /\ Unvisited # {}
  /\ LET u == CHOOSE x \in Unvisited : \A y \in Unvisited : x <= y
     IN  Visit(u) /\ stack' = <<[u |-> u, next |-> 1]>>
  /\ UNCHANGED <<graphVars, search, s, f, pi, Q, next>>

DfsEnd ==
  /\ search = "dfs"
  /\ stack = <<>>
  /\ Unvisited = {}
  /\ search' = "done"
  /\ UNCHANGED <<graphVars, s, searchVars>>
-----------------------------------------------------------------------------
Init ==
  /\ adj = [u \in Vertices |-> <<>>]
  /\ directed \in BOOLEAN
  /\ edges = 0
  /\ search = "none" /\ s = 0
  /\ color = [u \in Vertices |-> "WHITE"]
  /\ d = [u \in Vertices |-> -1] /\ f = [u \in Vertices |-> -1]
  /\ pi = [u \in Vertices |-> INVALID_VERTEX]
  /\ time = 0 /\ Q = <<>> /\ next = 1 /\ stack = <<>>

Next ==
  \/ AddRandomEdge \/ Transpose
  \/ \E src \in Vertices : BfsStart(src) \/ DfsStart(src)
  \/ BfsEdge \/ BfsPop \/ BfsEnd
  \/ DfsEdge \/ DfsReturn \/ DfsRoot \/ DfsEnd

Spec == Init /\ [][Next]_vars
-----------------------------------------------------------------------------
\* Every variable has its type: no index leaves 0..V-1, and a depth-first search
\* takes at most 2V ticks of its clock.
TypeOK ==
  /\ adj \in [Vertices -> Seq(Vertices)]
  /\ directed \in BOOLEAN /\ edges \in 0..MaxEdges
  /\ search \in {"none", "bfs", "dfs", "done"} /\ s \in Vertices
  /\ color \in [Vertices -> {"WHITE", "GRAY", "BLACK"}]
  /\ d \in [Vertices -> (-1..(2 * V)) \cup {INT_MAX}] /\ f \in [Vertices -> -1..(2 * V)]
  /\ pi \in [Vertices -> Vertices \cup {INVALID_VERTEX}]
  /\ time \in 0..(2 * V) /\ Q \in Seq(Vertices) /\ next \in 1..(V + 1)
  /\ stack \in Seq([u : Vertices, next : 1..(V + 1)])

\* The vertices at most n edges away from the source.
Within ==
  LET W[n \in 0..V] ==
        IF n = 0 THEN {s} ELSE W[n - 1] \cup UNION {ToSet(adj[u]) : u \in W[n - 1]}
  IN  W

\* The number of edges of a shortest path from the source, or INT_MAX.
Distance(v) ==
  IF v \notin Within[V] THEN INT_MAX
  ELSE CHOOSE n \in 0..V : v \in Within[n] /\ \A m \in 0..(n - 1) : v \notin Within[m]

\* When BreadthFirstSearch discovers a vertex its distance is already final and
\* that of a shortest path; at the end everything reachable has been discovered.
ShortestPaths ==
  /\ search = "bfs" => \A v \in Vertices : color[v] # "WHITE" => d[v] = Distance(v)
  /\ search = "done" /\ stack = <<>> /\ time = 0 => \A v \in Vertices : d[v] = Distance(v)

\* The ancestors of v by pi, itself as the first.
Ancestors(v) ==
  LET A[i \in 0..V] ==
        IF i = 0 THEN v
        ELSE IF A[i - 1] = INVALID_VERTEX THEN INVALID_VERTEX ELSE pi[A[i - 1]]
  IN  A

Descends(v, u) == \E n \in 0..V : Ancestors(v)[n] = u

\* printPath prints a path from the source exactly for the vertices that have one,
\* after either search, and its recursion ends.
PathsHonest ==
  search = "done" =>
    \A v \in Vertices :
      /\ Descends(v, s) <=> v \in Within[V]
      /\ \E n \in 0..V : Ancestors(v)[n] = INVALID_VERTEX

\* A vertex u is being visited at time t.
Open(u, t) == d[u] # -1 /\ d[u] <= t /\ (f[u] = -1 \/ t <= f[u])

\* The times of DepthFirstSearch nest: every moment starts or ends exactly one
\* visit, and a vertex is discovered during the visit of another one exactly if it
\* descends from it by pi.
Parenthesis ==
  (search = "dfs" \/ (search = "done" /\ time > 0)) =>
    /\ \A t \in 0..(time - 1) :
         \E u \in Vertices :
           /\ d[u] = t \/ f[u] = t
           /\ d[u] # f[u]
           /\ \A v \in Vertices \ {u} : d[v] # t /\ f[v] # t
    /\ \A u, v \in Vertices : d[v] # -1 =>
         /\ Open(u, d[v]) <=> Descends(v, u)
         /\ Open(u, d[v]) /\ f[u] # -1 => f[v] # -1 /\ f[v] <= f[u]
=============================================================================
