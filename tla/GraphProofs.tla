----------------------------- MODULE GraphProofs -----------------------------
(***************************************************************************)
(* The two searches, proved for graphs with any number of vertices and     *)
(* edges.  Both grow a tree of parents (Tree); the breadth-first search    *)
(* keeps its queue in the order of distances (Queued, Exact), the          *)
(* depth-first search its stack in the order of times (Stacked, Timed),    *)
(* and what it has left is closed under edges (Explored, SourceTree).      *)
(***************************************************************************)
EXTENDS GraphSearch, SharedLemmas

Coloured == {v \in Vertices : color[v] # "WHITE"}
Finished == {v \in Vertices : color[v] = "BLACK"}
Edge(u, v) == \E i \in 1..Len(adj[u]) : adj[u][i] = v

\* No vertex is twice in an adjacency list.
Simple == \A u \in Vertices : \A i, j \in 1..Len(adj[u]) : adj[u][i] = adj[u][j] => i = j

\* Before a search nothing has been written that it does not write again.
Fresh ==
  search = "none" => /\ f = [u \in Vertices |-> -1] /\ time = 0
                     /\ Q = <<>> /\ next = 1 /\ stack = <<>>

\* pi leads from coloured vertices to coloured vertices, against edges, and after
\* fewer steps than there are of them to no vertex.
Tree ==
  /\ s \in Coloured
  /\ \A v \in Vertices : pi[v] # INVALID_VERTEX =>
       v \in Coloured /\ pi[v] \in Coloured /\ Edge(pi[v], v)
  /\ \A v \in Coloured : \A i \in 0..V :
       i >= Cardinality(Coloured) => Ancestors(v)[i] = INVALID_VERTEX

\* The first n edges of u lead to coloured vertices.
Seen(u, n) == \A j \in 1..Len(adj[u]) : j <= n => adj[u][j] \in Coloured

\* All edges of a finished vertex lead to coloured vertices.
Explored == \A v \in Finished : Seen(v, Len(adj[v]))
-----------------------------------------------------------------------------
(***************************************************************************)
(* BreadthFirstSearch                                                      *)
(***************************************************************************)
BfsRuns == search = "bfs" \/ (search = "done" /\ time = 0)

\* The queue has the gray vertices, each once, the nearest first, and none is more
\* than one edge behind.
Queued ==
  /\ \A v \in Vertices : color[v] = "GRAY" <=> Holds(Q, v)
  /\ \A i, j \in DOMAIN Q : Q[i] = Q[j] => i = j
  /\ \A i, j \in DOMAIN Q : i <= j => d[Q[i]] <= d[Q[j]]
  /\ \A i \in DOMAIN Q : d[Q[i]] <= d[Q[1]] + 1
  /\ Q # <<>> => next <= Len(adj[Head(Q)]) + 1 /\ Seen(Head(Q), next - 1)

\* The distance of a coloured vertex is that of a shortest path.
Exact ==
  /\ \A v \in Coloured : /\ d[v] \in 0..(Cardinality(Coloured) - 1)
                         /\ v \in Within[d[v]]
                         /\ \A n \in 0..V : v \in Within[n] => d[v] <= n
  /\ \A v \in Vertices \ Coloured : d[v] = INT_MAX

\* All that has been discovered descends from the source.
Reached == \A v \in Coloured : Descends(v, s)

BfsInv ==
  BfsRuns =>
    /\ Tree /\ Explored /\ Queued /\ Exact /\ Reached
    /\ time = 0 /\ stack = <<>> /\ f = [u \in Vertices |-> -1]
    /\ search = "done" => Q = <<>>
-----------------------------------------------------------------------------
(***************************************************************************)
(* DepthFirstSearch                                                        *)
(***************************************************************************)
DfsRuns == search = "dfs" \/ (search = "done" /\ time > 0)

\* The stack has the gray vertices, in the order of their discovery.
Stacked ==
  /\ \A v \in Vertices : color[v] = "GRAY" <=> \E i \in DOMAIN stack : stack[i].u = v
  /\ \A i, j \in DOMAIN stack : i < j => d[stack[i].u] < d[stack[j].u]
  /\ \A i \in DOMAIN stack :
       stack[i].next <= Len(adj[stack[i].u]) + 1 /\ Seen(stack[i].u, stack[i].next - 1)

\* The clock has ticked once for each vertex discovered and for each one finished.
Timed ==
  /\ time = Cardinality(Coloured) + Cardinality(Finished)
  /\ \A v \in Vertices : IF v \in Coloured THEN d[v] \in 0..(time - 1) ELSE d[v] = -1
  /\ \A v \in Vertices : IF v \in Finished THEN f[v] \in (d[v] + 1)..(time - 1) ELSE f[v] = -1

\* While the source is being visited, all there is descends from it; afterwards no
\* edge leaves what descends from it.
SourceTree ==
  /\ color[s] = "GRAY" => /\ \A v \in Coloured : Descends(v, s)
                          /\ stack # <<>> /\ stack[1].u = s
  /\ color[s] = "BLACK" =>
       \A v, w \in Vertices : Descends(v, s) /\ Edge(v, w) => Descends(w, s)

DfsInv ==
  DfsRuns =>
    /\ Tree /\ Explored /\ Stacked /\ Timed /\ Parenthesis /\ SourceTree
    /\ Q = <<>>
    /\ search = "done" => stack = <<>> /\ Unvisited = {}
-----------------------------------------------------------------------------
\* The inductive invariant.
GraphInv == Simple /\ Fresh /\ BfsInv /\ DfsInv
-----------------------------------------------------------------------------
(***************************************************************************)
(* The two recursive functions of the model, for any graph and any parents.*)
(***************************************************************************)
Maybe == Vertices \cup {INVALID_VERTEX}
Parents == [Vertices -> Maybe]
AdjacencyLists == [Vertices -> Seq(Vertices)]

\* Ancestors and Within, of the parents p and of the graph g with the source a.
Up(p, v) ==
  LET A[i \in 0..V] ==
        IF i = 0 THEN v
        ELSE IF A[i - 1] = INVALID_VERTEX THEN INVALID_VERTEX ELSE p[A[i - 1]]
  IN  A

Near(g, a) ==
  LET W[n \in 0..V] ==
        IF n = 0 THEN {a} ELSE W[n - 1] \cup UNION {ToSet(g[u]) : u \in W[n - 1]}
  IN  W

Below(p, v, u) == \E n \in 0..V : Up(p, v)[n] = u
Leads(g, u, v) == \E i \in 1..Len(g[u]) : g[u][i] = v

\* The number of vertices.
LEMMA VFacts ==
  /\ V \in Nat /\ V >= 1 /\ MaxEdges \in Nat
  /\ IsFiniteSet(Vertices) /\ Cardinality(Vertices) = V
  /\ INVALID_VERTEX = -1 /\ INVALID_VERTEX \notin Vertices
  /\ \A v \in Vertices : v \in Nat /\ v < V
<1>1. V \in Nat /\ V >= 1 /\ MaxEdges \in Nat
  BY VAssumption
<1>2. IsFiniteSet(0..(V - 1)) /\ Cardinality(0..(V - 1)) = V
  BY <1>1, FS_Interval
<1> QED
  BY <1>1, <1>2 DEF Vertices, INVALID_VERTEX

\* A set of vertices is finite, and there are at most V in it.
LEMMA SomeVertices ==
  ASSUME NEW C \in SUBSET Vertices
  PROVE  /\ IsFiniteSet(C) /\ Cardinality(C) \in 0..V
         /\ Cardinality(C) = 0 <=> C = {}
         /\ C # Vertices => Cardinality(C) < V
<1>1. IsFiniteSet(C) /\ Cardinality(C) <= V /\ (Cardinality(C) = V => Vertices = C)
  BY VFacts, FS_Subset
<1>2. Cardinality(C) \in Nat /\ (Cardinality(C) = 0 <=> C = {})
  BY <1>1, FS_CardinalityType, FS_EmptySet
<1> QED
  BY <1>1, <1>2, VFacts

\* Up is the function its definition says.
LEMMA UpLaw ==
  ASSUME NEW p \in Parents, NEW v \in Maybe
  PROVE  /\ Up(p, v) \in [0..V -> Maybe]
         /\ Up(p, v)[0] = v
         /\ \A i \in 1..V : /\ Up(p, v)[i - 1] = INVALID_VERTEX => Up(p, v)[i] = INVALID_VERTEX
                            /\ Up(p, v)[i - 1] # INVALID_VERTEX => Up(p, v)[i] = p[Up(p, v)[i - 1]]
<1>0. V \in Nat
  BY VFacts
<1>1. PICK up : up = [x \in Maybe |-> IF x = INVALID_VERTEX THEN INVALID_VERTEX ELSE p[x]]
  OBVIOUS
<1>2. up \in [Maybe -> Maybe]
  BY <1>1, VFacts DEF Maybe, Parents
<1>3. [i \in 0..V |-> up] \in [0..V -> [Maybe -> Maybe]]
  BY <1>2
<1>4. PICK step \in [0..V -> [Maybe -> Maybe]] : step = [i \in 0..V |-> up]
  BY <1>3
<1>5. PICK h \in [0..V -> Maybe] : h[0] = v /\ \A i \in 1..V : h[i] = step[i][h[i - 1]]
  <2>1. IsSteps(V, Maybe, v, step)
    BY DEF IsSteps
  <2>2. PICK h : Follows(V, Maybe, v, step, h)
    BY <1>0, <2>1, RecursionExists
  <2> QED
    BY <2>2 DEF Follows
<1>6. \A i \in 1..V : i \in 0..V /\ i - 1 \in 0..V
  BY <1>0
<1>7. \A i \in 1..V : h[i] = IF h[i - 1] = INVALID_VERTEX THEN INVALID_VERTEX ELSE p[h[i - 1]]
  BY <1>1, <1>4, <1>5, <1>6
<1>8. h = [i \in 0..V |-> IF i = 0 THEN v
                          ELSE IF h[i - 1] = INVALID_VERTEX THEN INVALID_VERTEX ELSE p[h[i - 1]]]
  <2>1. \A i \in 0..V : i # 0 => i \in 1..V
    BY <1>0
  <2>2. \A i \in 0..V : h[i] = IF i = 0 THEN v
                          ELSE IF h[i - 1] = INVALID_VERTEX THEN INVALID_VERTEX ELSE p[h[i - 1]]
    BY <1>5, <1>7, <2>1
  <2> QED
    BY <2>2
<1>9. Up(p, v) = [i \in 0..V |-> IF i = 0 THEN v
                  ELSE IF Up(p, v)[i - 1] = INVALID_VERTEX THEN INVALID_VERTEX ELSE p[Up(p, v)[i - 1]]]
  BY <1>8, Zenon DEF Up
<1>10. PICK u : u = Up(p, v)
  OBVIOUS
<1>11. u = [i \in 0..V |-> IF i = 0 THEN v ELSE IF u[i - 1] = INVALID_VERTEX THEN INVALID_VERTEX ELSE p[u[i - 1]]]
  BY <1>9, <1>10
<1>12. /\ u[0] = v
       /\ \A i \in 1..V : u[i] = IF u[i - 1] = INVALID_VERTEX THEN INVALID_VERTEX ELSE p[u[i - 1]]
  <2>1. 0 \in 0..V /\ \A i \in 1..V : i # 0
    BY <1>0
  <2> QED
    BY <1>6, <1>11, <2>1
<1>13. \A i \in 0..V : u[i] \in Maybe
  <2> DEFINE T == {i \in 0..V : u[i] \in Maybe}
  <2>1. 0 \in T
    BY <1>0, <1>12
  <2>2. ASSUME NEW k \in 0..(V - 1), k \in T
        PROVE  k + 1 \in T
    <3>1. k + 1 \in 1..V /\ k + 1 \in 0..V /\ (k + 1) - 1 = k
      BY <1>0
    <3>2. u[k + 1] = IF u[k] = INVALID_VERTEX THEN INVALID_VERTEX ELSE p[u[k]]
      BY <1>12, <3>1
    <3>3. u[k + 1] \in Maybe
      BY <2>2, <3>2 DEF Maybe, Parents
    <3> QED
      BY <3>1, <3>3
  <2>3. 0..V \subseteq T
    <3> HIDE DEF T
    <3> QED
      BY <1>0, <2>1, <2>2, UptoInduction
  <2> QED
    BY <2>3
<1>14. u \in [0..V -> Maybe]
  BY <1>11, <1>13
<1> QED
  BY <1>10, <1>12, <1>14

\* Near is the function its definition says, and it grows.
LEMMA NearLaw ==
  ASSUME NEW g \in AdjacencyLists, NEW a \in Vertices
  PROVE  /\ Near(g, a) \in [0..V -> SUBSET Vertices]
         /\ Near(g, a)[0] = {a}
         /\ \A n \in 1..V : \A v \in Vertices :
              v \in Near(g, a)[n] <=>
                v \in Near(g, a)[n - 1] \/ \E u \in Near(g, a)[n - 1] : Leads(g, u, v)
<1>0. V \in Nat
  BY VFacts
<1>1. PICK more : more = [U \in SUBSET Vertices |-> U \cup UNION {ToSet(g[u]) : u \in U}]
  OBVIOUS
<1>2. more \in [SUBSET Vertices -> SUBSET Vertices]
  <2>1. \A u \in Vertices : ToSet(g[u]) \subseteq Vertices
    <3> TAKE u \in Vertices
    <3>1. g[u] \in Seq(Vertices)
      BY DEF AdjacencyLists
    <3>2. \A i \in DOMAIN g[u] : g[u][i] \in Vertices
      BY <3>1, ElementOfSeq, LenProperties
    <3> QED
      BY <3>2 DEF ToSet
  <2>2. \A U \in SUBSET Vertices : U \cup UNION {ToSet(g[u]) : u \in U} \in SUBSET Vertices
    BY <2>1
  <2> QED
    BY <1>1, <2>2
<1>3. PICK S1 : S1 = SUBSET Vertices
  OBVIOUS
<1>4. PICK step \in [0..V -> [S1 -> S1]] : step = [i \in 0..V |-> more]
  <2>1. [i \in 0..V |-> more] \in [0..V -> [S1 -> S1]]
    BY <1>2, <1>3
  <2> QED
    BY <2>1
<1>5. PICK b \in S1 : b = {a}
  BY <1>3
<1>6. PICK h \in [0..V -> SUBSET Vertices] : h[0] = b /\ \A i \in 1..V : h[i] = step[i][h[i - 1]]
  <2>1. IsSteps(V, S1, b, step)
    BY DEF IsSteps
  <2>2. PICK h : Follows(V, S1, b, step, h)
    BY <1>0, <2>1, RecursionExists
  <2> QED
    BY <1>3, <2>2 DEF Follows
<1>7. \A i \in 1..V : i \in 0..V /\ i - 1 \in 0..V
  BY <1>0
<1>8. \A i \in 1..V : h[i] = h[i - 1] \cup UNION {ToSet(g[u]) : u \in h[i - 1]}
  <2> TAKE i \in 1..V
  <2>1. h[i - 1] \in SUBSET Vertices /\ h[i] = more[h[i - 1]]
    BY <1>4, <1>6, <1>7
  <2> QED
    BY <1>1, <2>1
<1>9. h = [n \in 0..V |-> IF n = 0 THEN {a} ELSE h[n - 1] \cup UNION {ToSet(g[u]) : u \in h[n - 1]}]
  <2>1. \A i \in 0..V : i # 0 => i \in 1..V
    BY <1>0
  <2>2. \A n \in 0..V : h[n] = IF n = 0 THEN {a} ELSE h[n - 1] \cup UNION {ToSet(g[u]) : u \in h[n - 1]}
    BY <1>5, <1>6, <1>8, <2>1, Zenon
  <2> QED
    BY <2>2, Zenon
<1>10. Near(g, a) = [n \in 0..V |-> IF n = 0 THEN {a}
                        ELSE Near(g, a)[n - 1] \cup UNION {ToSet(g[u]) : u \in Near(g, a)[n - 1]}]
  BY <1>9, Zenon DEF Near
<1>11. PICK w : w = Near(g, a)
  OBVIOUS
<1>12. w = [n \in 0..V |-> IF n = 0 THEN {a} ELSE w[n - 1] \cup UNION {ToSet(g[u]) : u \in w[n - 1]}]
  BY <1>10, <1>11, Zenon
<1>13. /\ w[0] = {a}
       /\ \A n \in 1..V : w[n] = w[n - 1] \cup UNION {ToSet(g[u]) : u \in w[n - 1]}
  <2>1. 0 \in 0..V /\ \A i \in 1..V : i # 0
    BY <1>0
  <2>2. \A n \in 0..V : w[n] = IF n = 0 THEN {a} ELSE w[n - 1] \cup UNION {ToSet(g[u]) : u \in w[n - 1]}
    BY <1>12, Zenon
  <2> QED
    BY <1>7, <2>1, <2>2, Zenon
<1>14. \A n \in 0..V : w[n] \in SUBSET Vertices
  <2> DEFINE T == {n \in 0..V : w[n] \in SUBSET Vertices}
  <2>1. 0 \in T
    BY <1>0, <1>13
  <2>2. ASSUME NEW k \in 0..(V - 1), k \in T
        PROVE  k + 1 \in T
    <3>1. k + 1 \in 1..V /\ k + 1 \in 0..V /\ (k + 1) - 1 = k
      BY <1>0
    <3>2. PICK U \in SUBSET Vertices : U = w[k]
      BY <2>2
    <3>3. w[k + 1] = U \cup UNION {ToSet(g[u]) : u \in U}
      BY <1>13, <3>1, <3>2
    <3>4. more[U] = U \cup UNION {ToSet(g[u]) : u \in U} /\ more[U] \in SUBSET Vertices
      BY <1>1, <1>2
    <3> QED
      BY <3>1, <3>3, <3>4
  <2>3. 0..V \subseteq T
    <3> HIDE DEF T
    <3> QED
      BY <1>0, <2>1, <2>2, UptoInduction
  <2> QED
    BY <2>3
<1>15. w \in [0..V -> SUBSET Vertices]
  <2>1. DOMAIN w = 0..V /\ w = [n \in 0..V |-> w[n]]
    BY <1>12, Zenon
  <2> QED
    BY <1>14, <2>1
<1>16. ASSUME NEW n \in 1..V, NEW v \in Vertices
       PROVE  v \in w[n] <=> v \in w[n - 1] \/ \E u \in w[n - 1] : Leads(g, u, v)
  <2>1. PICK U \in SUBSET Vertices : U = w[n - 1]
    BY <1>7, <1>14
  <2>2. w[n] = U \cup UNION {ToSet(g[u]) : u \in U}
    BY <1>13, <2>1
  <2>3. \A u \in U : v \in ToSet(g[u]) <=> Leads(g, u, v)
    <3> TAKE u \in U
    <3>1. g[u] \in Seq(Vertices)
      BY DEF AdjacencyLists
    <3>2. DOMAIN g[u] = 1..Len(g[u])
      BY <3>1, LenProperties
    <3> QED
      BY <3>2 DEF ToSet, Leads
  <2> QED
    BY <2>1, <2>2, <2>3
<1> QED
  BY <1>11, <1>13, <1>15, <1>16
-----------------------------------------------------------------------------
(***************************************************************************)
(* Trees of parents.                                                       *)
(***************************************************************************)
\* The parents p of the vertices C of the graph g: Tree but for the source.
Closed(p, C) == \A x \in Vertices : p[x] # INVALID_VERTEX => x \in C /\ p[x] \in C
Shallow(p, C) ==
  \A x \in C : \A i \in 0..V : i >= Cardinality(C) => Up(p, x)[i] = INVALID_VERTEX
Agree(p, q, C) == \A x \in C : q[x] = p[x]

\* q adds to the tree p of the vertices C the vertex v with the parent u.
Grafts(p, q, C, v, u) ==
  /\ p \in Parents /\ q \in Parents /\ C \in SUBSET Vertices
  /\ Closed(p, C) /\ Shallow(p, C)
  /\ v \in Vertices /\ v \notin C /\ u \in C
  /\ q[v] = u /\ \A x \in Vertices : x # v => q[x] = p[x]

\* The ancestors of a vertex depend on the parents of its set only, and stay in it.
LEMMA UpAgrees ==
  ASSUME NEW C \in SUBSET Vertices, NEW p \in Parents, NEW q \in Parents,
         Closed(p, C), Agree(p, q, C), NEW v \in C
  PROVE  \A i \in 0..V : Up(p, v)[i] \in C \cup {INVALID_VERTEX} /\ Up(q, v)[i] = Up(p, v)[i]
<1>0. V \in Nat /\ v \in Maybe /\ INVALID_VERTEX \notin Vertices
  BY VFacts DEF Maybe, Parents
<1>1. PICK a, b : a = Up(p, v) /\ b = Up(q, v)
  OBVIOUS
<1>2. /\ a[0] = v /\ b[0] = v
      /\ \A i \in 1..V : /\ a[i - 1] = INVALID_VERTEX => a[i] = INVALID_VERTEX
                         /\ a[i - 1] # INVALID_VERTEX => a[i] = p[a[i - 1]]
      /\ \A i \in 1..V : /\ b[i - 1] = INVALID_VERTEX => b[i] = INVALID_VERTEX
                         /\ b[i - 1] # INVALID_VERTEX => b[i] = q[b[i - 1]]
  <2>1. /\ a[0] = v
        /\ \A i \in 1..V : /\ a[i - 1] = INVALID_VERTEX => a[i] = INVALID_VERTEX
                           /\ a[i - 1] # INVALID_VERTEX => a[i] = p[a[i - 1]]
    BY <1>0, <1>1, UpLaw
  <2>2. /\ b[0] = v
        /\ \A i \in 1..V : /\ b[i - 1] = INVALID_VERTEX => b[i] = INVALID_VERTEX
                           /\ b[i - 1] # INVALID_VERTEX => b[i] = q[b[i - 1]]
    BY <1>0, <1>1, UpLaw
  <2> QED
    BY <2>1, <2>2
<1> DEFINE T == {i \in 0..V : a[i] \in C \cup {INVALID_VERTEX} /\ b[i] = a[i]}
<1>3. 0 \in T
  BY <1>0, <1>2
<1>4. ASSUME NEW k \in 0..(V - 1), k \in T
      PROVE  k + 1 \in T
  <2>1. k + 1 \in 1..V /\ k + 1 \in 0..V /\ (k + 1) - 1 = k
    BY <1>0
  <2>2. /\ a[k] = INVALID_VERTEX => a[k + 1] = INVALID_VERTEX /\ b[k + 1] = INVALID_VERTEX
        /\ a[k] # INVALID_VERTEX => a[k + 1] = p[a[k]] /\ b[k + 1] = q[a[k]] /\ a[k] \in C
    BY <1>2, <1>4, <2>1
  <2>3. \A x \in C : p[x] \in C \cup {INVALID_VERTEX} /\ q[x] = p[x]
    BY DEF Closed, Agree
  <2> QED
    BY <2>1, <2>2, <2>3
<1>5. 0..V \subseteq T
  <2> HIDE DEF T
  <2> QED
    BY <1>0, <1>3, <1>4, UptoInduction
<1> QED
  BY <1>1, <1>5

\* The ancestors of v are v and those of its parent.
LEMMA UpShift ==
  ASSUME NEW p \in Parents, NEW v \in Vertices
  PROVE  \A k \in 0..(V - 1) : Up(p, v)[k + 1] = Up(p, p[v])[k]
<1>0. V \in Nat /\ V >= 1 /\ V - 1 \in Nat /\ v \in Maybe /\ INVALID_VERTEX # v /\ p[v] \in Maybe
  BY VFacts DEF Maybe, Parents
<1>1. PICK u : u = p[v]
  OBVIOUS
<1>2. PICK a, b : a = Up(p, v) /\ b = Up(p, u)
  OBVIOUS
<1>3. /\ a[0] = v /\ b[0] = u
      /\ \A i \in 1..V : /\ a[i - 1] = INVALID_VERTEX => a[i] = INVALID_VERTEX
                         /\ a[i - 1] # INVALID_VERTEX => a[i] = p[a[i - 1]]
      /\ \A i \in 1..V : /\ b[i - 1] = INVALID_VERTEX => b[i] = INVALID_VERTEX
                         /\ b[i - 1] # INVALID_VERTEX => b[i] = p[b[i - 1]]
  BY <1>0, <1>1, <1>2, UpLaw
<1> DEFINE T == {k \in 0..(V - 1) : a[k + 1] = b[k]}
<1>4. 0 \in T
  <2>1. 1 \in 1..V /\ 1 - 1 = 0 /\ 0 + 1 = 1 /\ 0 \in 0..(V - 1)
    BY <1>0
  <2>2. a[1] = p[a[0]]
    BY <1>0, <1>3, <2>1
  <2> QED
    BY <1>1, <1>3, <2>1, <2>2
<1>5. ASSUME NEW k \in 0..((V - 1) - 1), k \in T
      PROVE  k + 1 \in T
  <2>1. PICK m : m = k + 1
    OBVIOUS
  <2>2. m \in 1..V /\ m + 1 \in 1..V /\ (m + 1) - 1 = m /\ m - 1 = k /\ m \in 0..(V - 1)
    BY <1>0, <2>1
  <2>3. a[m] = b[k]
    BY <1>5, <2>1
  <2>4. a[m + 1] = b[m]
    BY <1>3, <2>2, <2>3
  <2> QED
    BY <2>1, <2>2, <2>4
<1>6. 0..(V - 1) \subseteq T
  <2>1. PICK n \in Nat : n = V - 1
    BY <1>0
  <2> HIDE DEF T
  <2> QED
    BY <1>4, <1>5, <2>1, UptoInduction
<1> QED
  BY <1>1, <1>2, <1>6

\* A vertex without a parent descends from itself only.
LEMMA RootBelow ==
  ASSUME NEW p \in Parents, NEW v \in Vertices, p[v] = INVALID_VERTEX
  PROVE  /\ \A i \in 1..V : Up(p, v)[i] = INVALID_VERTEX
         /\ \A x \in Vertices : Below(p, v, x) <=> v = x
<1>0. V \in Nat /\ V >= 1 /\ v \in Maybe /\ INVALID_VERTEX \notin Vertices /\ INVALID_VERTEX \in Maybe
  BY VFacts DEF Maybe, Parents
<1>1. Up(p, v)[0] = v
  BY <1>0, UpLaw
<1>2. PICK b : b = Up(p, INVALID_VERTEX)
  OBVIOUS
<1>3. b[0] = INVALID_VERTEX /\ \A i \in 1..V : b[i - 1] = INVALID_VERTEX => b[i] = INVALID_VERTEX
  BY <1>0, <1>2, UpLaw
<1>4. 0..V \subseteq {i \in 0..V : b[i] = INVALID_VERTEX}
  <2> DEFINE T == {i \in 0..V : b[i] = INVALID_VERTEX}
  <2>1. 0 \in T
    BY <1>0, <1>3
  <2>2. ASSUME NEW k \in 0..(V - 1), k \in T
        PROVE  k + 1 \in T
    <3>1. k + 1 \in 1..V /\ k + 1 \in 0..V /\ (k + 1) - 1 = k
      BY <1>0
    <3> QED
      BY <1>3, <2>2, <3>1
  <2> HIDE DEF T
  <2>3. 0..V \subseteq T
    BY <1>0, <2>1, <2>2, UptoInduction
  <2> QED
    BY <2>3 DEF T
<1>5. \A i \in 1..V : Up(p, v)[i] = INVALID_VERTEX
  <2> TAKE i \in 1..V
  <2>1. PICK k \in 0..(V - 1) : i = k + 1 /\ k \in 0..V
    <3>1. i - 1 \in 0..(V - 1) /\ i = (i - 1) + 1 /\ i - 1 \in 0..V
      BY <1>0
    <3> QED
      BY <3>1
  <2>2. Up(p, v)[k + 1] = b[k]
    BY <1>2, UpShift
  <2> QED
    BY <1>4, <2>1, <2>2
<1>6. \A i \in 0..V : i = 0 \/ i \in 1..V
  BY <1>0
<1> QED
  BY <1>0, <1>1, <1>5, <1>6 DEF Below

\* A vertex descends from itself and from what its parent descends from.
LEMMA ChildBelow ==
  ASSUME NEW p \in Parents, NEW C \in SUBSET Vertices, Shallow(p, C),
         NEW v \in Vertices, p[v] \in C, NEW x \in Vertices
  PROVE  Below(p, v, x) <=> v = x \/ Below(p, p[v], x)
<1>0. V \in Nat /\ V >= 1 /\ v \in Maybe /\ p[v] \in Maybe /\ INVALID_VERTEX # x
  BY VFacts DEF Maybe, Parents
<1>1. PICK u : u = p[v]
  OBVIOUS
<1>2. PICK a, b : a = Up(p, v) /\ b = Up(p, u)
  OBVIOUS
<1>3. a[0] = v /\ \A k \in 0..(V - 1) : a[k + 1] = b[k]
  BY <1>0, <1>1, <1>2, UpLaw, UpShift
<1>4. ASSUME NEW n \in 0..V, a[n] = x, v # x
      PROVE  \E m \in 0..V : b[m] = x
  <2>1. n # 0
    BY <1>3, <1>4
  <2>2. n - 1 \in 0..(V - 1) /\ n - 1 \in 0..V /\ (n - 1) + 1 = n
    BY <1>0, <2>1
  <2>3. b[n - 1] = x
    BY <1>3, <1>4, <2>2
  <2> QED
    BY <2>2, <2>3
<1>5. ASSUME NEW m \in 0..V, b[m] = x
      PROVE  \E n \in 0..V : a[n] = x
  <2>1. PICK c : c = Cardinality(C)
    OBVIOUS
  <2>2. c \in 0..V
    BY <2>1, SomeVertices
  <2>3. ~(m >= c)
    BY <1>0, <1>1, <1>2, <1>5, <2>1 DEF Shallow
  <2>4. m \in 0..(V - 1) /\ m + 1 \in 0..V
    BY <1>0, <2>2, <2>3
  <2> QED
    BY <1>3, <1>5, <2>4
<1>6. 0 \in 0..V
  BY <1>0
<1> QED
  BY <1>1, <1>2, <1>3, <1>4, <1>5, <1>6 DEF Below

\* A tree stays one when a new vertex v gets a parent u in it; what descends from
\* what is unchanged but for v.
LEMMA Grafted ==
  ASSUME NEW p, NEW q, NEW C, NEW v, NEW u, Grafts(p, q, C, v, u)
  PROVE  /\ Closed(q, C \cup {v}) /\ Shallow(q, C \cup {v})
         /\ \A w \in C : \A x : Below(q, w, x) <=> Below(p, w, x)
         /\ \A x \in Vertices : Below(q, v, x) <=> v = x \/ Below(p, u, x)
<1>a. /\ p \in Parents /\ q \in Parents /\ C \in SUBSET Vertices
      /\ Closed(p, C) /\ Shallow(p, C)
      /\ v \in Vertices /\ v \notin C /\ u \in C
  BY DEF Grafts
<1> USE <1>a
<1>0. V \in Nat /\ V >= 1 /\ v \in Maybe /\ u \in Maybe /\ v # u /\ INVALID_VERTEX \notin Vertices
  BY VFacts DEF Maybe, Parents
<1>1. q[v] = u /\ \A x \in Vertices : x # v => q[x] = p[x]
  BY DEF Grafts
<1>2. Closed(q, C \cup {v})
  BY <1>1 DEF Closed
<1>3. ASSUME NEW w \in C
      PROVE  \A i \in 0..V : Up(q, w)[i] = Up(p, w)[i]
  <2>1. Agree(p, q, C)
    BY <1>1 DEF Agree
  <2>2. \A i \in 0..V : Up(p, w)[i] \in C \cup {INVALID_VERTEX} /\ Up(q, w)[i] = Up(p, w)[i]
    BY <2>1, UpAgrees
  <2> QED
    BY <2>2
<1>4. \A w \in C : \A x : Below(q, w, x) <=> Below(p, w, x)
  BY <1>3 DEF Below
<1>5. PICK c : c = Cardinality(C)
  OBVIOUS
<1>6. c \in 0..V /\ Cardinality(C \cup {v}) = c + 1
  BY <1>5, SomeVertices, FS_AddElement
<1>7. Shallow(q, C)
  BY <1>3 DEF Shallow
<1>8. Shallow(q, C \cup {v})
  <2>1. ASSUME NEW i \in 0..V, i >= c + 1, NEW w \in C
        PROVE  Up(q, w)[i] = INVALID_VERTEX
    <3>1. i >= c
      BY <1>6, <2>1
    <3> QED
      BY <1>5, <1>7, <3>1 DEF Shallow
  <2>2. ASSUME NEW i \in 0..V, i >= c + 1
        PROVE  Up(q, v)[i] = INVALID_VERTEX
    <3>1. PICK k \in 0..(V - 1) : i = k + 1 /\ k \in 0..V /\ k >= c
      <4>1. i - 1 \in 0..(V - 1) /\ i = (i - 1) + 1 /\ i - 1 \in 0..V /\ i - 1 >= c
        BY <1>0, <1>6, <2>2
      <4> QED
        BY <4>1
    <3>2. Up(q, v)[k + 1] = Up(q, q[v])[k]
      BY <1>1, UpShift
    <3>3. Up(q, u)[k] = INVALID_VERTEX
      BY <1>5, <1>7, <3>1 DEF Shallow
    <3> QED
      BY <1>1, <3>1, <3>2, <3>3
  <2> QED
    BY <1>6, <2>1, <2>2 DEF Shallow
<1>9. \A x \in Vertices : Below(q, v, x) <=> v = x \/ Below(p, u, x)
  <2> TAKE x \in Vertices
  <2>1. q[v] \in C
    BY <1>1
  <2>2. Below(q, v, x) <=> v = x \/ Below(q, q[v], x)
    BY <1>1, <1>7, <2>1, ChildBelow
  <2> QED
    BY <1>1, <1>4, <2>2
<1> QED
  BY <1>1, <1>2, <1>4, <1>8, <1>9

\* A tree stays one when a new vertex v is added without a parent.
LEMMA Rooted ==
  ASSUME NEW p \in Parents, NEW C \in SUBSET Vertices, Closed(p, C), Shallow(p, C),
         NEW v \in Vertices, v \notin C
  PROVE  p[v] = INVALID_VERTEX /\ Closed(p, C \cup {v}) /\ Shallow(p, C \cup {v})
<1>0. V \in Nat /\ V >= 1
  BY VFacts
<1>1. p[v] = INVALID_VERTEX /\ Closed(p, C \cup {v})
  BY DEF Closed
<1>2. \A i \in 1..V : Up(p, v)[i] = INVALID_VERTEX
  BY <1>1, RootBelow
<1>3. PICK c : c = Cardinality(C)
  OBVIOUS
<1>4. c \in 0..V /\ Cardinality(C \cup {v}) = c + 1
  BY <1>3, SomeVertices, FS_AddElement
<1>5. \A i \in 0..V : i >= c + 1 => i >= c /\ i \in 1..V
  BY <1>0, <1>4
<1>6. Shallow(p, C \cup {v})
  BY <1>2, <1>3, <1>4, <1>5 DEF Shallow
<1> QED
  BY <1>1, <1>6
-----------------------------------------------------------------------------
(***************************************************************************)
(* Adjacency lists.                                                        *)
(***************************************************************************)
\* No vertex is twice in a list of the graph g.
Distinct(g) == \A u \in Vertices : \A i, j \in 1..Len(g[u]) : g[u][i] = g[u][j] => i = j

\* A list without repetitions has at most V entries.
LEMMA ListShort ==
  ASSUME NEW g \in AdjacencyLists, Distinct(g), NEW u \in Vertices
  PROVE  /\ g[u] \in Seq(Vertices) /\ Len(g[u]) \in 0..V
         /\ \A i \in 1..Len(g[u]) : g[u][i] \in Vertices
<1>1. g[u] \in Seq(Vertices)
  BY DEF AdjacencyLists
<1>2. PICK h : h = g[u]
  OBVIOUS
<1>3. PICK n : n = Len(h)
  OBVIOUS
<1>4. n \in Nat /\ h \in [1..n -> Vertices]
  BY <1>1, <1>2, <1>3, LenProperties, ElementOfSeq
<1>5. IsFiniteSet(1..n) /\ Cardinality(1..n) = n
  <2>1. IsFiniteSet(1..n) /\ Cardinality(1..n) = IF 1 > n THEN 0 ELSE n - 1 + 1
    BY <1>4, FS_Interval
  <2> QED
    BY <1>4, <2>1
<1>6. ~(V < n)
  <2> SUFFICES ASSUME V < n
               PROVE  FALSE
    OBVIOUS
  <2>1. \E x, y \in 1..n : x # y /\ h[x] = h[y]
    BY <1>4, <1>5, VFacts, FS_PigeonHole
  <2> QED
    BY <1>2, <1>3, <2>1 DEF Distinct
<1>7. n \in 0..V
  BY <1>4, <1>6, VFacts
<1> QED
  BY <1>1, <1>2, <1>3, <1>4, <1>7

\* Adding an edge keeps the lists free of repetitions.
LEMMA EdgeAdded ==
  ASSUME NEW g \in AdjacencyLists, Distinct(g), NEW u \in Vertices, NEW v \in Vertices
  PROVE  addDirectedEdge(g, u, v) \in AdjacencyLists /\ Distinct(addDirectedEdge(g, u, v))
<1>1. CASE Contains(g[u], v)
  BY <1>1 DEF addDirectedEdge
<1>2. CASE ~Contains(g[u], v)
  <2>1. PICK old, new : old = g[u] /\ new = Append(old, v)
    OBVIOUS
  <2>2. old \in Seq(Vertices)
    BY <2>1 DEF AdjacencyLists
  <2>3. PICK n : n = Len(old)
    OBVIOUS
  <2>4. /\ n \in Nat /\ new \in Seq(Vertices) /\ Len(new) = n + 1
        /\ new[n + 1] = v /\ \A i \in 1..n : new[i] = old[i]
    BY <2>1, <2>2, <2>3, AppendProperties
  <2>5. \A i \in 1..n : old[i] # v
    BY <1>2, <2>1, <2>3 DEF Contains
  <2>6. \A i, j \in 1..n : old[i] = old[j] => i = j
    BY <2>1, <2>3 DEF Distinct
  <2>7. \A i \in 1..(n + 1) : i \in 1..n \/ i = n + 1
    BY <2>4
  <2>8. \A i, j \in 1..Len(new) : new[i] = new[j] => i = j
    BY <2>4, <2>5, <2>6, <2>7
  <2>9. PICK r : r = [g EXCEPT ![u] = new]
    OBVIOUS
  <2>10. addDirectedEdge(g, u, v) = r
    BY <1>2, <2>1, <2>9 DEF addDirectedEdge
  <2>11. r \in AdjacencyLists /\ r[u] = new /\ \A x \in Vertices : x # u => r[x] = g[x]
    BY <2>4, <2>9 DEF AdjacencyLists
  <2>12. Distinct(r)
    <3>1. \A x \in Vertices : x # u => \A i, j \in 1..Len(r[x]) : r[x][i] = r[x][j] => i = j
      BY <2>11 DEF Distinct
    <3> QED
      BY <2>8, <2>11, <3>1 DEF Distinct
  <2> QED
    BY <2>10, <2>11, <2>12
<1> QED
  BY <1>1, <1>2

\* What Transposed computes for the graph g, after n vertices.
Turned(g) ==
  LET temp[n \in 0..V] ==
        [y \in Vertices |->
           IF n = 0 THEN <<>>
           ELSE IF Contains(g[n - 1], y) THEN Append(temp[n - 1][y], n - 1) ELSE temp[n - 1][y]]
  IN  temp

\* Turned is the function its definition says.
LEMMA TurnedLaw ==
  ASSUME NEW g \in AdjacencyLists
  PROVE  /\ \A y \in Vertices : Turned(g)[0][y] = <<>>
         /\ \A n \in 0..V : Turned(g)[n] \in AdjacencyLists
         /\ \A n \in 1..V : \A y \in Vertices :
              Turned(g)[n][y] = IF Contains(g[n - 1], y) THEN Append(Turned(g)[n - 1][y], n - 1)
                                ELSE Turned(g)[n - 1][y]
<1>0. V \in Nat
  BY VFacts
<1>1. \A n \in 1..V : n \in 0..V /\ n - 1 \in 0..V /\ n - 1 \in Vertices /\ n # 0
  BY <1>0 DEF Vertices
<1>2. PICK b : b = [y \in Vertices |-> <<>>]
  OBVIOUS
<1>3. b \in AdjacencyLists
  BY <1>2, EmptySeq DEF AdjacencyLists
<1>4. PICK one : one = [n \in 0..V |-> [t \in AdjacencyLists |->
                         IF n = 0 THEN t
                         ELSE [y \in Vertices |-> IF Contains(g[n - 1], y) THEN Append(t[y], n - 1) ELSE t[y]]]]
  OBVIOUS
<1>5. ASSUME NEW n \in 1..V, NEW t \in AdjacencyLists
      PROVE  [y \in Vertices |-> IF Contains(g[n - 1], y) THEN Append(t[y], n - 1) ELSE t[y]] \in AdjacencyLists
  <2>1. PICK m \in Vertices : m = n - 1
    BY <1>1
  <2>2. \A y \in Vertices : t[y] \in Seq(Vertices)
    BY DEF AdjacencyLists
  <2>3. \A y \in Vertices : Append(t[y], m) \in Seq(Vertices)
    BY <2>2, AppendProperties
  <2> QED
    BY <2>1, <2>2, <2>3 DEF AdjacencyLists
<1>6. IsSteps(V, AdjacencyLists, b, one)
  <2>1. \A n \in 0..V : n = 0 \/ n \in 1..V
    BY <1>0
  <2>2. \A n \in 0..V : one[n] \in [AdjacencyLists -> AdjacencyLists]
    BY <1>4, <1>5, <2>1
  <2>3. one = [n \in 0..V |-> one[n]]
    BY <1>4
  <2> QED
    BY <1>3, <2>2, <2>3 DEF IsSteps
<1>7. PICK h : Follows(V, AdjacencyLists, b, one, h)
  BY <1>0, <1>6, RecursionExists
<1>8. /\ \A n \in 0..V : h[n] \in AdjacencyLists
      /\ h[0] = b /\ h = [n \in 0..V |-> h[n]]
      /\ \A n \in 1..V : h[n] = one[n][h[n - 1]]
  BY <1>7 DEF Follows
<1>9. \A n \in 1..V : h[n] = [y \in Vertices |-> IF Contains(g[n - 1], y) THEN Append(h[n - 1][y], n - 1) ELSE h[n - 1][y]]
  <2> TAKE n \in 1..V
  <2>1. PICK t \in AdjacencyLists : t = h[n - 1]
    BY <1>1, <1>8
  <2>2. h[n] = one[n][t]
    BY <1>8, <2>1
  <2>3. one[n][t] = [y \in Vertices |-> IF Contains(g[n - 1], y) THEN Append(t[y], n - 1) ELSE t[y]]
    BY <1>1, <1>4
  <2> QED
    BY <2>1, <2>2, <2>3
<1>10. h = [n \in 0..V |-> [y \in Vertices |->
             IF n = 0 THEN <<>>
             ELSE IF Contains(g[n - 1], y) THEN Append(h[n - 1][y], n - 1) ELSE h[n - 1][y]]]
  <2>1. \A n \in 0..V : n = 0 \/ n \in 1..V
    BY <1>0
  <2>2. h[0] = [y \in Vertices |->
             IF 0 = 0 THEN <<>>
             ELSE IF Contains(g[0 - 1], y) THEN Append(h[0 - 1][y], 0 - 1) ELSE h[0 - 1][y]]
    BY <1>2, <1>8
  <2>3. \A n \in 1..V : h[n] = [y \in Vertices |->
             IF n = 0 THEN <<>>
             ELSE IF Contains(g[n - 1], y) THEN Append(h[n - 1][y], n - 1) ELSE h[n - 1][y]]
    BY <1>1, <1>9, Zenon
  <2>4. \A n \in 0..V : h[n] = [y \in Vertices |->
             IF n = 0 THEN <<>>
             ELSE IF Contains(g[n - 1], y) THEN Append(h[n - 1][y], n - 1) ELSE h[n - 1][y]]
    BY <2>1, <2>2, <2>3, Zenon
  <2> QED
    BY <1>8, <2>4, Zenon
<1>11. Turned(g) = [n \in 0..V |-> [y \in Vertices |->
             IF n = 0 THEN <<>>
             ELSE IF Contains(g[n - 1], y) THEN Append(Turned(g)[n - 1][y], n - 1) ELSE Turned(g)[n - 1][y]]]
  BY <1>10, Zenon DEF Turned
<1>12. PICK w : w = Turned(g)
  OBVIOUS
<1>13. \A n \in 0..V : w[n] = [y \in Vertices |->
             IF n = 0 THEN <<>>
             ELSE IF Contains(g[n - 1], y) THEN Append(w[n - 1][y], n - 1) ELSE w[n - 1][y]]
  BY <1>11, <1>12, Zenon
<1>14. \A n \in 1..V : w[n] = [y \in Vertices |-> IF Contains(g[n - 1], y) THEN Append(w[n - 1][y], n - 1) ELSE w[n - 1][y]]
  BY <1>1, <1>13, Zenon
<1>15. w[0] = b
  <2>1. 0 \in 0..V
    BY <1>0
  <2>2. w[0] = [y \in Vertices |->
             IF 0 = 0 THEN <<>>
             ELSE IF Contains(g[0 - 1], y) THEN Append(w[0 - 1][y], 0 - 1) ELSE w[0 - 1][y]]
    BY <1>13, <2>1, Zenon
  <2> QED
    BY <1>2, <2>2
<1>16. \A n \in 0..V : w[n] \in AdjacencyLists
  <2> DEFINE T == {n \in 0..V : w[n] \in AdjacencyLists}
  <2>1. 0 \in T
    BY <1>0, <1>3, <1>15
  <2>2. ASSUME NEW k \in 0..(V - 1), k \in T
        PROVE  k + 1 \in T
    <3>1. PICK n : n = k + 1
      OBVIOUS
    <3>2. n \in 1..V /\ n \in 0..V /\ n - 1 = k
      BY <1>0, <3>1
    <3>3. PICK t \in AdjacencyLists : t = w[n - 1]
      BY <2>2, <3>2
    <3>4. w[n] \in AdjacencyLists
      BY <1>5, <1>14, <3>2, <3>3
    <3> QED
      BY <3>1, <3>2, <3>4
  <2>3. 0..V \subseteq T
    <3> HIDE DEF T
    <3> QED
      BY <1>0, <2>1, <2>2, UptoInduction
  <2> QED
    BY <2>3
<1>17. \A n \in 1..V : \A y \in Vertices :
         w[n][y] = IF Contains(g[n - 1], y) THEN Append(w[n - 1][y], n - 1) ELSE w[n - 1][y]
  BY <1>14
<1> QED
  BY <1>2, <1>12, <1>15, <1>16, <1>17

\* The transpose is a graph without repetitions.
LEMMA TransposedSimple ==
  ASSUME NEW g \in AdjacencyLists
  PROVE  Turned(g)[V] \in AdjacencyLists /\ Distinct(Turned(g)[V])
<1>0. V \in Nat /\ V \in 0..V
  BY VFacts
<1>1. PICK w : w = Turned(g)
  OBVIOUS
<1>2. /\ \A y \in Vertices : w[0][y] = <<>>
      /\ \A n \in 0..V : w[n] \in AdjacencyLists
      /\ \A n \in 1..V : \A y \in Vertices :
              w[n][y] = IF Contains(g[n - 1], y) THEN Append(w[n - 1][y], n - 1) ELSE w[n - 1][y]
  BY <1>1, TurnedLaw
<1> DEFINE Good(l, n) == /\ \A i \in 1..Len(l) : l[i] < n
                         /\ \A i, j \in 1..Len(l) : l[i] = l[j] => i = j
           T == {n \in 0..V : \A y \in Vertices : Good(w[n][y], n)}
<1>3. 0 \in T
  <2>1. \A y \in Vertices : Good(<<>>, 0)
    BY EmptySeq
  <2> QED
    BY <1>0, <1>2, <2>1
<1>4. ASSUME NEW k \in 0..(V - 1), k \in T
      PROVE  k + 1 \in T
  <2>1. PICK n : n = k + 1
    OBVIOUS
  <2>2. n \in 1..V /\ n \in 0..V /\ n - 1 = k /\ k \in 0..V /\ k \in Vertices /\ k \in Nat
    BY <1>0, <2>1 DEF Vertices
  <2>3. ASSUME NEW y \in Vertices
        PROVE  Good(w[n][y], n)
    <3>1. PICK old : old = w[k][y]
      OBVIOUS
    <3>2. old \in Seq(Vertices)
      BY <1>2, <2>2, <3>1 DEF AdjacencyLists
    <3>3. Good(old, k)
      BY <1>4, <3>1
    <3>4. \A i \in 1..Len(old) : old[i] \in Nat
      BY <3>2, ElementOfSeq, VFacts
    <3>5. Good(old, n)
      BY <2>2, <3>3, <3>4
    <3>6. Good(Append(old, k), n)
      <4>1. PICK new, m : new = Append(old, k) /\ m = Len(old)
        OBVIOUS
      <4>2. /\ m \in Nat /\ Len(new) = m + 1
            /\ new[m + 1] = k /\ \A i \in 1..m : new[i] = old[i]
        BY <2>2, <3>2, <4>1, AppendProperties
      <4>3. \A i \in 1..(m + 1) : i \in 1..m \/ i = m + 1
        BY <4>2
      <4>4. \A i \in 1..m : new[i] # k /\ new[i] < n /\ new[m + 1] < n
        BY <2>2, <3>3, <3>4, <3>5, <4>1, <4>2
      <4>5. \A i, j \in 1..m : new[i] = new[j] => i = j
        BY <3>3, <4>1, <4>2
      <4>6. new[m + 1] < n
        BY <2>1, <2>2, <4>2
      <4>7. \A i \in 1..Len(new) : new[i] < n
        BY <4>2, <4>3, <4>4, <4>6
      <4>8. \A i, j \in 1..Len(new) : new[i] = new[j] => i = j
        BY <4>2, <4>3, <4>4, <4>5
      <4> QED
        BY <4>1, <4>7, <4>8
    <3>7. w[n][y] = IF Contains(g[k], y) THEN Append(old, k) ELSE old
      BY <1>2, <2>2, <3>1
    <3> HIDE DEF Good
    <3> QED
      BY <3>5, <3>6, <3>7
  <2> QED
    BY <2>1, <2>2, <2>3
<1>5. 0..V \subseteq T
  <2> HIDE DEF T
  <2> QED
    BY <1>0, <1>3, <1>4, UptoInduction
<1>6. V \in T
  BY <1>0, <1>5
<1> QED
  BY <1>0, <1>1, <1>2, <1>6 DEF Distinct
-----------------------------------------------------------------------------
(***************************************************************************)
(* The state, before and after a step, in the terms of these lemmas.       *)
(***************************************************************************)
\* The definitions of the model and of the invariant.
LEMMA Same ==
  /\ Within = Near(adj, s) /\ Transposed = Turned(adj)[V] /\ (Simple <=> Distinct(adj))
  /\ \A v : Ancestors(v) = Up(pi, v)
  /\ \A v, u : (Descends(v, u) <=> Below(pi, v, u)) /\ (Edge(u, v) <=> Leads(adj, u, v))
  /\ Tree <=> /\ s \in Coloured /\ Closed(pi, Coloured) /\ Shallow(pi, Coloured)
              /\ \A v \in Vertices : pi[v] # INVALID_VERTEX => Leads(adj, pi[v], v)
<1>1. Within = Near(adj, s)
  BY DEF Within, Near
<1>2. Transposed = Turned(adj)[V]
  BY DEF Transposed, Turned
<1>3. Simple <=> Distinct(adj)
  BY DEF Simple, Distinct
<1>4. \A v : Ancestors(v) = Up(pi, v)
  BY DEF Ancestors, Up
<1>5. \A v, u : (Descends(v, u) <=> Below(pi, v, u)) /\ (Edge(u, v) <=> Leads(adj, u, v))
  BY <1>4 DEF Descends, Below, Edge, Leads
<1> QED
  BY <1>1, <1>2, <1>3, <1>4, <1>5 DEF Tree, Closed, Shallow

\* The same after a step.
LEMMA SameNext ==
  /\ Within' = Near(adj', s') /\ (Simple' <=> Distinct(adj'))
  /\ \A v, u : (Descends(v, u)' <=> Below(pi', v, u)) /\ (Edge(u, v)' <=> Leads(adj', u, v))
  /\ Tree' <=> /\ s' \in Coloured' /\ Closed(pi', Coloured') /\ Shallow(pi', Coloured')
               /\ \A v \in Vertices : pi'[v] # INVALID_VERTEX => Leads(adj', pi'[v], v)
<1>1. Within' = Near(adj', s')
  BY DEF Within, Near
<1>3. Simple' <=> Distinct(adj')
  BY DEF Simple, Distinct
<1>4. \A v : Ancestors(v)' = Up(pi', v)
  BY DEF Ancestors, Up
<1>5. \A v, u : (Descends(v, u)' <=> Below(pi', v, u)) /\ (Edge(u, v)' <=> Leads(adj', u, v))
  BY <1>4 DEF Descends, Below, Edge, Leads
<1> QED
  BY <1>1, <1>3, <1>4, <1>5 DEF Tree, Closed, Shallow
\* What the type invariant says in these terms.
LEMMA Types ==
  ASSUME TypeOK
  PROVE  adj \in AdjacencyLists /\ pi \in Parents
BY DEF TypeOK, AdjacencyLists, Parents, Maybe

\* Before a search.
LEMMA Building ==
  ASSUME search' = "none", Simple', Fresh'
  PROVE  GraphInv'
BY DEF GraphInv, BfsInv, BfsRuns, DfsInv, DfsRuns

\* During a breadth-first search.
LEMMA BfsGoesOn ==
  ASSUME search' = "bfs", Simple', Tree', Explored', Queued', Exact', Reached',
         time' = 0, stack' = <<>>, f' = [u \in Vertices |-> -1]
  PROVE  GraphInv'
BY DEF GraphInv, Fresh, BfsInv, BfsRuns, DfsInv, DfsRuns

\* During a depth-first search.
LEMMA DfsGoesOn ==
  ASSUME search' = "dfs", Simple', Tree', Explored', Stacked', Timed', Parenthesis', SourceTree',
         Q' = <<>>
  PROVE  GraphInv'
BY DEF GraphInv, Fresh, BfsInv, BfsRuns, DfsInv, DfsRuns

\* Initially.
LEMMA GraphInit ==
  ASSUME Init
  PROVE  TypeOK /\ GraphInv
<1>1. adj = [u \in Vertices |-> <<>>] /\ search = "none"
  BY DEF Init
<1>2. Simple
  BY <1>1, EmptySeq DEF Simple
<1>3. GraphInv
  BY <1>1, <1>2 DEF Init, GraphInv, Fresh, BfsInv, BfsRuns, DfsInv, DfsRuns
<1>4. adj \in [Vertices -> Seq(Vertices)]
  BY <1>1, EmptySeq
<1>5. Q \in Seq(Vertices) /\ stack \in Seq([u : Vertices, next : 1..(V + 1)])
  BY EmptySeq DEF Init
<1>6. /\ directed \in BOOLEAN /\ edges \in 0..MaxEdges
      /\ search \in {"none", "bfs", "dfs", "done"} /\ s \in Vertices
      /\ color \in [Vertices -> {"WHITE", "GRAY", "BLACK"}]
  BY VFacts DEF Init, Vertices
<1>7. /\ d \in [Vertices -> (-1..(2 * V)) \cup {INT_MAX}] /\ f \in [Vertices -> -1..(2 * V)]
      /\ pi \in [Vertices -> Vertices \cup {INVALID_VERTEX}]
      /\ time \in 0..(2 * V) /\ next \in 1..(V + 1)
  BY VFacts DEF Init
<1>8. TypeOK
  BY <1>4, <1>5, <1>6, <1>7 DEF TypeOK
<1> QED
  BY <1>3, <1>8

\* The graph is built.
LEMMA GraphBuild ==
  ASSUME TypeOK, GraphInv, NEW u \in Vertices, NEW v \in Vertices, Build(u, v)
  PROVE  TypeOK' /\ GraphInv'
<1>1. adj \in AdjacencyLists /\ Distinct(adj)
  BY Same, Types DEF GraphInv
<1>2. addEdge(adj, u, v) \in AdjacencyLists /\ Distinct(addEdge(adj, u, v))
  <2>1. PICK g \in AdjacencyLists : g = addDirectedEdge(adj, u, v) /\ Distinct(g)
    BY <1>1, EdgeAdded
  <2>2. addDirectedEdge(g, v, u) \in AdjacencyLists /\ Distinct(addDirectedEdge(g, v, u))
    BY <2>1, EdgeAdded
  <2> QED
    BY <2>1, <2>2 DEF addEdge
<1>3. search' = "none" /\ Simple'
  BY <1>2, SameNext DEF Build
<1>4. Fresh'
  BY DEF GraphInv, Fresh, Build, searchVars
<1>5. edges' \in 0..MaxEdges
  BY VFacts DEF TypeOK, Build
<1>6. adj' \in [Vertices -> Seq(Vertices)]
  BY <1>2 DEF Build, AdjacencyLists
<1>7. TypeOK'
  BY <1>5, <1>6 DEF TypeOK, Build, searchVars
<1> QED
  BY <1>3, <1>4, <1>7, Building

\* The graph is transposed.
LEMMA GraphTranspose ==
  ASSUME TypeOK, GraphInv, Transpose
  PROVE  TypeOK' /\ GraphInv'
<1>1. adj' \in AdjacencyLists /\ Distinct(adj')
  BY Same, Types, TransposedSimple DEF Transpose
<1>2. search' = "none" /\ Simple'
  BY <1>1, SameNext DEF Transpose
<1>3. Fresh'
  BY DEF GraphInv, Fresh, Transpose, searchVars
<1>4. adj' \in [Vertices -> Seq(Vertices)]
  BY <1>1 DEF AdjacencyLists
<1>5. TypeOK'
  BY <1>4 DEF TypeOK, Transpose, searchVars
<1> QED
  BY <1>2, <1>3, <1>5, Building

\* The tree of the source alone.
LEMMA Planted ==
  ASSUME NEW a \in Vertices, NEW p \in Parents, p = [u \in Vertices |-> INVALID_VERTEX]
  PROVE  /\ Cardinality({a}) = 1 /\ Closed(p, {a}) /\ Shallow(p, {a})
         /\ \A x \in Vertices : Below(p, a, x) <=> a = x
<1>1. Cardinality({a}) = 1
  BY FS_Singleton
<1>2. Closed(p, {a})
  BY DEF Closed
<1>3. /\ p[a] = INVALID_VERTEX /\ \A i \in 1..V : Up(p, a)[i] = INVALID_VERTEX
      /\ \A x \in Vertices : Below(p, a, x) <=> a = x
  BY RootBelow
<1>4. \A i \in 0..V : i >= 1 => i \in 1..V
  BY VFacts
<1> QED
  BY <1>1, <1>2, <1>3, <1>4 DEF Shallow

\* BreadthFirstSearch begins.
LEMMA GraphBfsStart ==
  ASSUME TypeOK, GraphInv, NEW src \in Vertices, BfsStart(src)
  PROVE  TypeOK' /\ GraphInv'
<1> USE DEF BfsStart
<1>1. PICK g \in AdjacencyLists : g = adj /\ adj' = g /\ Distinct(g)
  BY Types, Same DEF GraphInv, graphVars
<1>2. Fresh /\ search = "none"
  BY DEF GraphInv
<1>3. time' = 0 /\ stack' = <<>> /\ f' = [u \in Vertices |-> -1]
  BY <1>2 DEF Fresh
<1>4. Coloured' = {src} /\ Finished' = {}
  BY DEF Coloured, Finished
<1>5. pi' \in Parents /\ Closed(pi', {src}) /\ Shallow(pi', {src})
  <2>1. pi' \in Parents
    BY DEF Parents, Maybe
  <2> QED
    BY <2>1, Planted
<1>6. Cardinality({src}) = 1 /\ \A x \in Vertices : Below(pi', src, x) <=> src = x
  <2>1. PICK p \in Parents : p = pi'
    BY <1>5
  <2> QED
    BY <2>1, Planted
<1>7. Tree'
  BY <1>4, <1>5, SameNext
<1>8. Explored'
  BY <1>4 DEF Explored
<1>9. Queued'
  <2>1. Q' = <<src>> /\ DOMAIN Q' = {1} /\ Q'[1] = src /\ Head(Q') = src /\ next' = 1
    OBVIOUS
  <2>2. Holds(Q', src) /\ \A v : Holds(Q', v) => v = src
    BY <2>1 DEF Holds
  <2>3. \A v \in Vertices : color'[v] = "GRAY" <=> Holds(Q', v)
    BY <2>2
  <2>4. d'[src] = 0
    OBVIOUS
  <2>5. Len(adj'[src]) \in Nat
    BY <1>1, ListShort
  <2>6. Seen(src, next - 1)'
    <3>1. \A j \in 1..Len(adj'[src]) : ~(j <= 1 - 1)
      BY <2>5
    <3> QED
      BY <2>1, <3>1 DEF Seen
  <2> QED
    BY <2>1, <2>3, <2>4, <2>5, <2>6 DEF Queued
<1>10. Exact'
  <2>1. Within'[0] = {src}
    BY <1>1, SameNext, NearLaw
  <2>2. \A v \in Vertices \ {src} : d'[v] = INT_MAX
    OBVIOUS
  <2>3. d'[src] = 0 /\ 0 \in 0..(1 - 1) /\ \A n \in 0..V : 0 <= n
    OBVIOUS
  <2> QED
    BY <1>4, <1>6, <2>1, <2>2, <2>3 DEF Exact
<1>11. Reached'
  BY <1>4, <1>6, SameNext DEF Reached
<1>12. Simple' /\ search' = "bfs"
  BY <1>1, SameNext
<1>13. GraphInv'
  BY <1>3, <1>7, <1>8, <1>9, <1>10, <1>11, <1>12, BfsGoesOn
<1>14. TypeOK'
  <2>1. Q' \in Seq(Vertices)
    OBVIOUS
  <2>2. next' \in 1..(V + 1)
    BY VFacts
  <2>3. d' \in [Vertices -> (-1..(2 * V)) \cup {INT_MAX}]
    BY VFacts
  <2>4. color' \in [Vertices -> {"WHITE", "GRAY", "BLACK"}] /\ pi' \in [Vertices -> Vertices \cup {INVALID_VERTEX}]
    OBVIOUS
  <2> QED
    BY <2>1, <2>2, <2>3, <2>4 DEF TypeOK, graphVars
<1> QED
  BY <1>13, <1>14
-----------------------------------------------------------------------------
(***************************************************************************)
(* BreadthFirstSearch.                                                     *)
(***************************************************************************)
\* What is nearer than every gray vertex has been discovered.
LEMMA NearColoured ==
  ASSUME TypeOK, Simple, Exact, Explored, s \in Coloured,
         NEW m \in 0..V, \A x \in Vertices : color[x] = "GRAY" => m <= d[x]
  PROVE  \A n \in 0..m : Within[n] \subseteq Coloured
<1>1. PICK g \in AdjacencyLists : g = adj /\ Distinct(g)
  BY Types, Same
<1>2. PICK W : W = Within
  OBVIOUS
<1>3. /\ W \in [0..V -> SUBSET Vertices] /\ W[0] = {s}
      /\ \A n \in 1..V : \A v \in Vertices :
           v \in W[n] <=> v \in W[n - 1] \/ \E u \in W[n - 1] : Edge(u, v)
  <2>1. s \in Vertices
    BY DEF TypeOK
  <2> QED
    BY <1>1, <1>2, <2>1, Same, NearLaw
<1> DEFINE T == {n \in 0..m : W[n] \subseteq Coloured}
<1>4. V \in Nat /\ m \in Nat
  BY VFacts
<1>5. 0 \in T
  BY <1>3, <1>4
<1>6. ASSUME NEW k \in 0..(m - 1), k \in T
      PROVE  k + 1 \in T
  <2>1. PICK n : n = k + 1
    OBVIOUS
  <2>2. n \in 1..V /\ n \in 0..m /\ n - 1 = k /\ k \in 0..V /\ n \in 0..V
    BY <1>4, <2>1
  <2>3. ASSUME NEW v \in W[n]
        PROVE  v \in Coloured
    <3>1. v \in Vertices
      BY <1>3, <2>2
    <3>2. CASE v \in W[k]
      BY <1>6, <3>2
    <3>3. CASE v \notin W[k]
      <4>1. PICK u \in W[k] : Edge(u, v)
        BY <1>3, <2>2, <3>1, <3>3
      <4>2. u \in Coloured /\ u \in Vertices
        BY <1>6 DEF Coloured
      <4>3. d[u] <= k /\ d[u] \in Int
        BY <1>2, <2>2, <4>2, Same DEF Exact
      <4>4. ~(m <= d[u])
        BY <1>4, <4>3
      <4>5. u \in Finished
        BY <4>2, <4>4 DEF Coloured, Finished, TypeOK
      <4>6. PICK j \in 1..Len(adj[u]) : adj[u][j] = v
        BY <4>1 DEF Edge
      <4>7. Len(adj[u]) \in Nat
        BY <1>1, <4>2, ListShort
      <4>8. j <= Len(adj[u])
        BY <4>7
      <4> QED
        BY <4>5, <4>6, <4>8 DEF Explored, Seen
    <3> QED
      BY <3>2, <3>3
  <2> QED
    BY <2>1, <2>2, <2>3
<1>7. 0..m \subseteq T
  <2> HIDE DEF T
  <2> QED
    BY <1>4, <1>5, <1>6, UptoInduction
<1> QED
  BY <1>2, <1>7

\* The state of a breadth-first search.
LEMMA BfsNow ==
  ASSUME GraphInv, search = "bfs"
  PROVE  /\ Simple /\ Tree /\ Explored /\ Queued /\ Exact /\ Reached
         /\ time = 0 /\ stack = <<>> /\ f = [u \in Vertices |-> -1]
BY DEF GraphInv, BfsInv, BfsRuns

\* The vertex at the front of the queue.
LEMMA BfsFront ==
  ASSUME TypeOK, GraphInv, search = "bfs", Q # <<>>
  PROVE  /\ Head(Q) \in Vertices /\ Head(Q) = Q[1] /\ color[Head(Q)] = "GRAY" /\ Head(Q) \in Coloured
         /\ 1 \in DOMAIN Q /\ DOMAIN Q = 1..Len(Q) /\ Len(Q) \in Nat
         /\ \A i \in DOMAIN Q : Q[i] \in Vertices
         /\ Len(adj[Head(Q)]) \in 0..V
         /\ \A i \in 1..Len(adj[Head(Q)]) : adj[Head(Q)][i] \in Vertices
<1>1. Q \in Seq(Vertices)
  BY DEF TypeOK
<1>2. /\ Len(Q) \in Nat \ {0} /\ DOMAIN Q = 1..Len(Q) /\ Head(Q) = Q[1]
  BY <1>1, TailIndices
<1>3. 1 \in DOMAIN Q /\ \A i \in DOMAIN Q : Q[i] \in Vertices
  BY <1>1, <1>2, ElementOfSeq
<1>4. Holds(Q, Q[1])
  BY <1>3 DEF Holds
<1>5. color[Head(Q)] = "GRAY"
  BY <1>2, <1>3, <1>4, BfsNow DEF Queued
<1>6. PICK g \in AdjacencyLists : g = adj /\ Distinct(g)
  BY Types, Same, BfsNow
<1>7. PICK u \in Vertices : u = Head(Q)
  BY <1>2, <1>3
<1>8. Len(g[u]) \in 0..V /\ \A i \in 1..Len(g[u]) : g[u][i] \in Vertices
  BY <1>6, ListShort
<1> QED
  BY <1>2, <1>3, <1>5, <1>6, <1>7, <1>8 DEF Coloured

\* An edge of the front leads to a vertex that has not been discovered.
LEMMA BfsDiscovers ==
  ASSUME TypeOK, GraphInv, BfsEdge, color[adj[Head(Q)][next]] = "WHITE"
  PROVE  TypeOK' /\ GraphInv'
<1>1. search = "bfs" /\ Q # <<>> /\ next \in 1..(V + 1) /\ next <= Len(adj[Head(Q)])
  BY DEF BfsEdge, FrontHasEdge, TypeOK
<1>2. PICK u \in Vertices : u = Head(Q)
  BY <1>1, BfsFront
<1>b. PICK v \in Vertices : v = adj[u][next]
  <2>1. next \in 1..Len(adj[u]) /\ \A i \in 1..Len(adj[u]) : adj[u][i] \in Vertices
    BY <1>1, <1>2, BfsFront
  <2> QED
    BY <2>1
<1>c. color[v] = "WHITE"
  BY <1>2, <1>b
<1>3. /\ u = Q[1] /\ color[u] = "GRAY" /\ u \in Coloured /\ 1 \in DOMAIN Q
      /\ DOMAIN Q = 1..Len(Q) /\ Len(Q) \in Nat /\ Len(adj[u]) \in 0..V
      /\ \A i \in DOMAIN Q : Q[i] \in Vertices
  BY <1>1, <1>2, BfsFront
<1>4. /\ color' = [color EXCEPT ![v] = "GRAY"] /\ d' = [d EXCEPT ![v] = d[u] + 1]
      /\ pi' = [pi EXCEPT ![v] = u] /\ Q' = Append(Q, v)
      /\ adj' = adj /\ s' = s /\ search' = "bfs" /\ directed' = directed /\ edges' = edges
      /\ UNCHANGED <<f, time, stack>>
  BY <1>1, <1>2, <1>b, <1>c DEF BfsEdge, Discover, graphVars
<1>5. next \in 1..Len(adj[u]) /\ next' = next + 1 /\ v = adj[u][next]
  BY <1>1, <1>2, <1>3, <1>b DEF BfsEdge
<1>6. /\ Simple /\ Tree /\ Explored /\ Queued /\ Exact /\ Reached
      /\ time = 0 /\ stack = <<>> /\ f = [x \in Vertices |-> -1]
  BY <1>1, BfsNow
<1>7. PICK g \in AdjacencyLists : g = adj /\ Distinct(g)
  BY <1>6, Types, Same
<1>8. PICK C \in SUBSET Vertices : C = Coloured
  BY DEF Coloured
<1>9. PICK c \in Nat : c = Cardinality(C)
  BY SomeVertices, VFacts
<1>10. v \notin C /\ s \in C /\ u \in C /\ u # v
  BY <1>3, <1>6, <1>8, <1>c DEF Coloured, Tree
<1>11. /\ color'[v] = "GRAY" /\ \A x \in Vertices : x # v => color'[x] = color[x]
       /\ d'[v] = d[u] + 1 /\ \A x \in Vertices : x # v => d'[x] = d[x]
       /\ pi'[v] = u /\ \A x \in Vertices : x # v => pi'[x] = pi[x]
  BY <1>4 DEF TypeOK
<1>12. Coloured' = C \cup {v} /\ Finished' = Finished
  BY <1>8, <1>11, <1>c DEF Coloured, Finished
<1>13. c < V /\ Cardinality(C \cup {v}) = c + 1
  BY <1>9, <1>10, SomeVertices, FS_AddElement
<1>14. pi \in Parents /\ pi' \in Parents
  BY <1>2, <1>4, Types DEF Parents, Maybe
<1>15. Closed(pi, C) /\ Shallow(pi, C) /\ \A x \in Vertices : pi[x] # INVALID_VERTEX => Leads(g, pi[x], x)
  BY <1>6, <1>7, <1>8, Same
<1>16. /\ Closed(pi', C \cup {v}) /\ Shallow(pi', C \cup {v})
       /\ \A w \in C : \A x : Below(pi', w, x) <=> Below(pi, w, x)
       /\ \A x \in Vertices : Below(pi', v, x) <=> v = x \/ Below(pi, u, x)
  <2>1. PICK p, q : p = pi /\ q = pi'
    OBVIOUS
  <2>2. Grafts(p, q, C, v, u)
    BY <1>10, <1>11, <1>14, <1>15, <2>1 DEF Grafts
  <2>3. /\ Closed(q, C \cup {v}) /\ Shallow(q, C \cup {v})
        /\ \A w \in C : \A x : Below(q, w, x) <=> Below(p, w, x)
        /\ \A x \in Vertices : Below(q, v, x) <=> v = x \/ Below(p, u, x)
    BY <2>2, Grafted
  <2> QED
    BY <2>1, <2>3
<1>17. Leads(g, u, v)
  BY <1>5, <1>7 DEF Leads
<1>18. Tree'
  <2>1. \A x \in Vertices : pi'[x] # INVALID_VERTEX => Leads(adj', pi'[x], x)
    BY <1>4, <1>7, <1>11, <1>15, <1>17
  <2> QED
    BY <1>4, <1>10, <1>12, <1>16, <2>1, SameNext
<1>19. Explored'
  BY <1>4, <1>6, <1>8, <1>12 DEF Explored, Seen
<1>20. d[u] \in 0..(c - 1) /\ \A x \in C : d[x] \in 0..(c - 1)
  BY <1>3, <1>6, <1>8, <1>9 DEF Exact
<1>21. /\ Q' \in Seq(Vertices) /\ Q' # <<>>
       /\ \A x : Holds(Q', x) <=> Holds(Q, x) \/ v = x
  <2>1. Q \in Seq(Vertices)
    BY DEF TypeOK
  <2>2. \A x : /\ Append(Q, v) \in Seq(Vertices) /\ Append(Q, v) # <<>>
               /\ Holds(Append(Q, v), x) <=> Holds(Q, x) \/ v = x
    BY <2>1, AppendedHolds
  <2> QED
    BY <1>4, <2>2
<1>22. Queued'
  <2> DEFINE n == Len(Q)
  <2>1. /\ n \in Nat /\ n >= 1 /\ DOMAIN Q' = 1..(n + 1) /\ Q'[n + 1] = v
        /\ \A i \in 1..n : Q'[i] = Q[i] /\ i \in DOMAIN Q
    <3>1. Q \in Seq(Vertices)
      BY DEF TypeOK
    <3> QED
      BY <1>3, <1>4, <3>1, AppendProperties
  <2> HIDE DEF n
  <2>2. \A i \in 1..(n + 1) : i \in 1..n \/ i = n + 1
    BY <2>1
  <2>3. \A i \in 1..n : Holds(Q, Q[i]) /\ Q[i] \in Vertices
    BY <1>3, <2>1 DEF Holds
  <2>4. \A i \in 1..n : Q'[i] = Q[i] /\ Q[i] # v /\ Q[i] \in C /\ d'[Q[i]] = d[Q[i]]
    BY <1>6, <1>8, <1>10, <1>11, <1>c, <2>1, <2>3 DEF Queued, Coloured
  <2>5. \A x \in Vertices : color'[x] = "GRAY" <=> Holds(Q', x)
    BY <1>6, <1>11, <1>21 DEF Queued
  <2>6. \A i, j \in DOMAIN Q' : Q'[i] = Q'[j] => i = j
    BY <1>6, <2>1, <2>2, <2>4 DEF Queued
  <2>7. /\ \A i, j \in 1..n : i <= j => d[Q[i]] <= d[Q[j]]
        /\ \A i \in 1..n : d[Q[i]] <= d[u] + 1 /\ d[Q[i]] \in Int /\ d[u] \in Int
    <3>1. /\ \A i, j \in DOMAIN Q : i <= j => d[Q[i]] <= d[Q[j]]
          /\ \A i \in DOMAIN Q : d[Q[i]] <= d[u] + 1
      BY <1>3, <1>6 DEF Queued
    <3>2. \A i \in 1..n : d[Q[i]] \in Int /\ d[u] \in Int
      BY <1>20, <2>4
    <3> QED
      BY <2>1, <3>1, <3>2
  <2>8. /\ \A i \in 1..n : d'[Q'[i]] = d[Q[i]]
        /\ d'[Q'[n + 1]] = d[u] + 1 /\ 1 \in 1..n /\ d'[Q'[1]] = d[u]
    BY <1>3, <1>11, <2>1, <2>4
  <2>9. \A i, j \in DOMAIN Q' : i <= j => d'[Q'[i]] <= d'[Q'[j]]
    BY <2>1, <2>2, <2>7, <2>8
  <2>10. \A i \in DOMAIN Q' : d'[Q'[i]] <= d'[Q'[1]] + 1
    BY <2>1, <2>2, <2>7, <2>8
  <2>11. Head(Q') = u
    <3>1. Head(Q') = Q'[1]
      BY <1>21, TailIndices
    <3> QED
      BY <1>3, <2>1, <2>8, <3>1
  <2>12. next' <= Len(adj'[u]) + 1 /\ Seen(u, next - 1)'
    <3>1. Seen(u, next - 1)
      BY <1>1, <1>2, <1>6 DEF Queued
    <3>2. \A j \in 1..Len(adj[u]) : j <= next => j <= next - 1 \/ j = next
      BY <1>3, <1>5
    <3>3. next' - 1 = next /\ next' <= Len(adj[u]) + 1
      BY <1>3, <1>5
    <3>4. \A j \in 1..Len(adj[u]) : j <= next => adj[u][j] \in C \cup {v}
      BY <1>5, <1>8, <3>1, <3>2 DEF Seen
    <3> QED
      BY <1>4, <1>12, <3>3, <3>4 DEF Seen
  <2> QED
    BY <2>5, <2>6, <2>9, <2>10, <2>11, <2>12 DEF Queued
<1>23. Exact'
  <2>1. PICK W : W = Within
    OBVIOUS
  <2>2. Within' = W
    BY <1>4, <2>1, Same, SameNext
  <2>3. PICK k \in 0..V : k = d[u] /\ k + 1 \in 1..V /\ k + 1 \in 0..c
    BY <1>13, <1>20, VFacts
  <2>4. \A n \in 0..k : W[n] \subseteq C
    <3>1. \A x \in Vertices : color[x] = "GRAY" => k <= d[x]
      <4> SUFFICES ASSUME NEW x \in Vertices, color[x] = "GRAY"
                   PROVE  k <= d[x]
        OBVIOUS
      <4>1. PICK i \in DOMAIN Q : Q[i] = x
        BY <1>6 DEF Queued, Holds
      <4>2. 1 <= i
        BY <1>3
      <4> QED
        BY <1>3, <1>6, <2>3, <4>1, <4>2 DEF Queued
    <3> QED
      BY <1>6, <1>8, <1>10, <2>1, <3>1, NearColoured
  <2>5. \A n \in 0..V : v \in W[n] => k + 1 <= n
    <3> SUFFICES ASSUME NEW n \in 0..V, v \in W[n], ~(k + 1 <= n)
                 PROVE  FALSE
      OBVIOUS
    <3>1. n \in 0..k
      BY VFacts
    <3> QED
      BY <1>10, <2>4, <3>1
  <2>6. v \in W[k + 1]
    <3>1. u \in W[k]
      BY <1>3, <1>6, <2>1, <2>3 DEF Exact
    <3>2. (k + 1) - 1 = k
      BY <2>3
    <3>3. s \in Vertices /\ W = Near(g, s)
      BY <1>7, <2>1, Same DEF TypeOK
    <3>4. v \in W[k + 1] <=> v \in W[(k + 1) - 1] \/ \E y \in W[(k + 1) - 1] : Leads(g, y, v)
      BY <2>3, <3>3, NearLaw
    <3> QED
      BY <1>17, <3>1, <3>2, <3>4
  <2>7. d'[v] = k + 1 /\ d'[v] \in 0..((c + 1) - 1)
    BY <1>11, <2>3
  <2>8. \A x \in C : /\ d'[x] = d[x] /\ d[x] \in 0..((c + 1) - 1) /\ x \in W[d[x]]
                     /\ \A n \in 0..V : x \in W[n] => d[x] <= n
    BY <1>6, <1>8, <1>10, <1>11, <1>20, <2>1 DEF Exact
  <2>9. \A x \in Vertices \ (C \cup {v}) : d'[x] = INT_MAX
    BY <1>6, <1>8, <1>11 DEF Exact
  <2>10. \A x \in C \cup {v} : /\ d'[x] \in 0..((c + 1) - 1) /\ x \in W[d'[x]]
                               /\ \A n \in 0..V : x \in W[n] => d'[x] <= n
    BY <2>5, <2>6, <2>7, <2>8
  <2> QED
    BY <1>12, <1>13, <2>2, <2>9, <2>10 DEF Exact
<1>24. Reached'
  <2>1. \A x \in C : Below(pi, x, s)
    BY <1>6, <1>8, Same DEF Reached
  <2>2. s \in Vertices
    BY DEF TypeOK
  <2>3. \A x \in C \cup {v} : Below(pi', x, s)
    BY <1>10, <1>16, <2>1, <2>2
  <2> QED
    BY <1>4, <1>12, <2>3, SameNext DEF Reached
<1>25. Simple' /\ time' = 0 /\ stack' = <<>> /\ f' = [x \in Vertices |-> -1]
  BY <1>4, <1>6 DEF Simple
<1>26. GraphInv'
  BY <1>4, <1>18, <1>19, <1>22, <1>23, <1>24, <1>25, BfsGoesOn
<1>27. TypeOK'
  <2>1. Q' \in Seq(Vertices)
    BY <1>21
  <2>2. next' \in 1..(V + 1)
    BY <1>3, <1>5, VFacts
  <2>3. d' \in [Vertices -> (-1..(2 * V)) \cup {INT_MAX}]
    <3>1. d[u] + 1 \in -1..(2 * V)
      BY <1>13, <1>20, VFacts
    <3> QED
      BY <1>4, <3>1 DEF TypeOK
  <2>4. color' \in [Vertices -> {"WHITE", "GRAY", "BLACK"}] /\ pi' \in [Vertices -> Vertices \cup {INVALID_VERTEX}]
    BY <1>2, <1>4 DEF TypeOK
  <2> QED
    BY <1>4, <2>1, <2>2, <2>3, <2>4 DEF TypeOK
<1> QED
  BY <1>26, <1>27
\* A step that leaves the search data of all vertices alone keeps the tree.
LEMMA TreeKept ==
  ASSUME Simple, Tree, UNCHANGED <<adj, s, pi>>, Coloured' = Coloured
  PROVE  /\ Simple' /\ Tree' /\ Within' = Within
         /\ \A v, u : Descends(v, u)' <=> Descends(v, u)
         /\ \A u, n : Seen(u, n)' <=> Seen(u, n)
<1>1. \A u, n : Seen(u, n)' <=> Seen(u, n)
  BY DEF Seen
<1>2. Simple'
  BY DEF Simple
<1> QED
  BY <1>1, <1>2, Same, SameNext

\* An edge of the front leads to a vertex that has been discovered.
LEMMA BfsSkips ==
  ASSUME TypeOK, GraphInv, BfsEdge, color[adj[Head(Q)][next]] # "WHITE"
  PROVE  TypeOK' /\ GraphInv'
<1>1. search = "bfs" /\ Q # <<>> /\ next \in 1..(V + 1) /\ next <= Len(adj[Head(Q)])
  BY DEF BfsEdge, FrontHasEdge, TypeOK
<1>2. PICK u \in Vertices : u = Head(Q)
  BY <1>1, BfsFront
<1>3. Len(adj[u]) \in 0..V /\ next \in 1..Len(adj[u]) /\ adj[u][next] \in Coloured
  <2>1. Len(adj[u]) \in 0..V /\ next \in 1..Len(adj[u]) /\ \A i \in 1..Len(adj[u]) : adj[u][i] \in Vertices
    BY <1>1, <1>2, BfsFront
  <2> QED
    BY <1>2, <2>1 DEF Coloured
<1>4. /\ UNCHANGED <<color, d, pi, Q, adj, directed, edges, search, s, f, time, stack>> /\ next' = next + 1
  BY DEF BfsEdge, graphVars
<1>5. /\ Simple /\ Tree /\ Explored /\ Queued /\ Exact /\ Reached
      /\ time = 0 /\ stack = <<>> /\ f = [x \in Vertices |-> -1]
  BY <1>1, BfsNow
<1>6. Coloured' = Coloured /\ Finished' = Finished
  BY <1>4 DEF Coloured, Finished
<1>7. /\ Simple' /\ Tree' /\ Within' = Within
      /\ \A v, x : Descends(v, x)' <=> Descends(v, x)
      /\ \A x, n : Seen(x, n)' <=> Seen(x, n)
  BY <1>4, <1>5, <1>6, TreeKept
<1>8. Explored' /\ Reached'
  BY <1>4, <1>5, <1>6, <1>7 DEF Explored, Reached
<1>9. Exact'
  BY <1>4, <1>5, <1>6, <1>7 DEF Exact
<1>10. Queued'
  <2>1. Seen(u, next - 1)
    BY <1>1, <1>2, <1>5 DEF Queued
  <2>2. next' <= Len(adj[u]) + 1 /\ next' - 1 = next
    BY <1>3, <1>4
  <2>3. \A j \in 1..Len(adj[u]) : j <= next => j <= next - 1 \/ j = next
    BY <1>3
  <2>4. Seen(u, next)
    BY <1>3, <2>1, <2>3 DEF Seen
  <2>5. Seen(u, next - 1)'
    BY <1>4, <1>6, <2>2, <2>4 DEF Seen
  <2> QED
    BY <1>2, <1>4, <1>5, <2>2, <2>5 DEF Queued
<1>11. GraphInv'
  BY <1>1, <1>4, <1>5, <1>7, <1>8, <1>9, <1>10, BfsGoesOn
<1>12. next' \in 1..(V + 1)
  BY <1>3, <1>4, VFacts
<1>13. TypeOK'
  BY <1>4, <1>12 DEF TypeOK
<1> QED
  BY <1>11, <1>13

\* The front of the queue has no more edges.
LEMMA GraphBfsPop ==
  ASSUME TypeOK, GraphInv, BfsPop
  PROVE  TypeOK' /\ GraphInv'
<1>1. search = "bfs" /\ Q # <<>> /\ next \in 1..(V + 1) /\ ~(next <= Len(adj[Head(Q)]))
  BY DEF BfsPop, FrontHasEdge, TypeOK
<1>2. PICK u \in Vertices : u = Head(Q)
  BY <1>1, BfsFront
<1>3. /\ u = Q[1] /\ color[u] = "GRAY" /\ 1 \in DOMAIN Q
      /\ DOMAIN Q = 1..Len(Q) /\ Len(Q) \in Nat /\ Len(adj[u]) \in 0..V
      /\ \A i \in DOMAIN Q : Q[i] \in Vertices
  BY <1>1, <1>2, BfsFront
<1>4. /\ color' = [color EXCEPT ![u] = "BLACK"] /\ Q' = Tail(Q) /\ next' = 1
      /\ UNCHANGED <<d, pi, adj, directed, edges, search, s, f, time, stack>>
  BY <1>2 DEF BfsPop, graphVars
<1>5. /\ Simple /\ Tree /\ Explored /\ Queued /\ Exact /\ Reached
      /\ time = 0 /\ stack = <<>> /\ f = [x \in Vertices |-> -1]
  BY <1>1, BfsNow
<1>6. color'[u] = "BLACK" /\ \A x \in Vertices : x # u => color'[x] = color[x]
  BY <1>4 DEF TypeOK
<1>7. Coloured' = Coloured /\ Finished' = Finished \cup {u}
  BY <1>3, <1>6 DEF Coloured, Finished
<1>8. /\ Simple' /\ Tree' /\ Within' = Within
      /\ \A v, x : Descends(v, x)' <=> Descends(v, x)
      /\ \A x, n : Seen(x, n)' <=> Seen(x, n)
  BY <1>4, <1>5, <1>7, TreeKept
<1>9. Reached' /\ Exact'
  BY <1>4, <1>5, <1>7, <1>8 DEF Reached, Exact
<1>10. Explored'
  <2>1. Seen(u, next - 1)
    BY <1>1, <1>2, <1>5 DEF Queued
  <2>2. \A j \in 1..Len(adj[u]) : j <= next - 1
    BY <1>1, <1>2, <1>3
  <2>3. Seen(u, Len(adj[u]))
    BY <2>1, <2>2 DEF Seen
  <2>4. \A v \in Finished' : Seen(v, Len(adj[v]))
    BY <1>5, <1>7, <2>3 DEF Explored
  <2> QED
    BY <1>4, <1>8, <2>4 DEF Explored
<1>11. Queued'
  <2>1. Q \in Seq(Vertices)
    BY DEF TypeOK
  <2>2. /\ Q' \in Seq(Vertices) /\ DOMAIN Q' = 1..(Len(Q) - 1)
        /\ \A i \in DOMAIN Q' : i + 1 \in DOMAIN Q /\ i + 1 # 1 /\ Q'[i] = Q[i + 1]
        /\ \A i \in DOMAIN Q : i # 1 => i - 1 \in DOMAIN Q' /\ Q'[i - 1] = Q[i]
    BY <1>1, <1>4, <2>1, TailIndices
  <2>3. /\ \A i, j \in DOMAIN Q : Q[i] = Q[j] => i = j
        /\ \A i, j \in DOMAIN Q : i <= j => d[Q[i]] <= d[Q[j]]
        /\ \A i \in DOMAIN Q : d[Q[i]] <= d[Q[1]] + 1
        /\ \A x \in Vertices : color[x] = "GRAY" <=> Holds(Q, x)
    BY <1>5 DEF Queued
  <2>4. \A x : Holds(Q', x) <=> Holds(Q, x) /\ x # u
    <3> SUFFICES ASSUME NEW x
                 PROVE  Holds(Q', x) <=> Holds(Q, x) /\ x # u
      OBVIOUS
    <3>1. Holds(Q', x) => Holds(Q, x) /\ x # u
      BY <1>3, <2>2, <2>3 DEF Holds
    <3>2. Holds(Q, x) /\ x # u => Holds(Q', x)
      BY <1>3, <2>2 DEF Holds
    <3> QED
      BY <3>1, <3>2
  <2>5. \A x \in Vertices : color'[x] = "GRAY" <=> Holds(Q', x)
    BY <1>6, <2>3, <2>4
  <2>6. \A i \in DOMAIN Q : d[Q[i]] \in Int
    <3>1. \A i \in DOMAIN Q : Q[i] \in Coloured
      BY <1>3, <2>3 DEF Holds, Coloured
    <3> QED
      BY <1>5, <3>1 DEF Exact
  <2>7. \A i \in DOMAIN Q' : i \in Int /\ 1 <= i + 1
    BY <1>3, <2>2
  <2>8. \A i, j \in DOMAIN Q' : Q'[i] = Q'[j] => i = j
    <3> SUFFICES ASSUME NEW i \in DOMAIN Q', NEW j \in DOMAIN Q', Q'[i] = Q'[j]
                 PROVE  i = j
      OBVIOUS
    <3>1. i + 1 = j + 1
      BY <2>2, <2>3
    <3> QED
      BY <2>7, <3>1
  <2>9. \A i, j \in DOMAIN Q' : i <= j => d'[Q'[i]] <= d'[Q'[j]]
    <3> SUFFICES ASSUME NEW i \in DOMAIN Q', NEW j \in DOMAIN Q', i <= j
                 PROVE  d[Q[i + 1]] <= d[Q[j + 1]]
      BY <1>4, <2>2
    <3>1. i + 1 <= j + 1
      BY <2>7
    <3> QED
      BY <2>2, <2>3, <3>1
  <2>10. \A i \in DOMAIN Q' : d'[Q'[i]] <= d'[Q'[1]] + 1
    <3> SUFFICES ASSUME NEW i \in DOMAIN Q'
                 PROVE  d[Q'[i]] <= d[Q'[1]] + 1
      BY <1>4
    <3>1. 1 \in DOMAIN Q' /\ 1 <= 1 + 1
      BY <1>3, <2>2
    <3>2. i + 1 \in DOMAIN Q /\ 1 + 1 \in DOMAIN Q /\ Q'[i] = Q[i + 1] /\ Q'[1] = Q[1 + 1]
      BY <2>2, <3>1
    <3>3. d[Q[i + 1]] <= d[Q[1]] + 1 /\ d[Q[1]] <= d[Q[1 + 1]]
      BY <1>3, <2>3, <3>1, <3>2
    <3>4. d[Q[i + 1]] \in Int /\ d[Q[1]] \in Int /\ d[Q[1 + 1]] \in Int
      BY <1>3, <2>6, <3>2
    <3> QED
      BY <3>2, <3>3, <3>4
  <2>11. ASSUME Q' # <<>>
         PROVE  next' <= Len(adj'[Head(Q')]) + 1 /\ Seen(Head(Q), next - 1)'
    <3>1. Head(Q') \in Vertices
      BY <2>2, <2>11, HeadTailProperties
    <3>2. PICK g \in AdjacencyLists : g = adj /\ Distinct(g)
      BY <1>5, Types, Same
    <3>3. Len(g[Head(Q')]) \in 0..V
      BY <3>1, <3>2, ListShort
    <3>4. \A j \in 1..Len(adj'[Head(Q')]) : ~(j <= 1 - 1)
      BY <1>4, <3>2, <3>3
    <3>5. Seen(Head(Q), next - 1)'
      BY <1>4, <3>4 DEF Seen
    <3>6. next' <= Len(adj'[Head(Q')]) + 1
      BY <1>4, <3>2, <3>3
    <3> QED
      BY <3>5, <3>6
  <2> QED
    BY <2>5, <2>8, <2>9, <2>10, <2>11 DEF Queued
<1>12. GraphInv'
  BY <1>1, <1>4, <1>5, <1>8, <1>9, <1>10, <1>11, BfsGoesOn
<1>13. next' \in 1..(V + 1)
  BY <1>4, VFacts
<1>14. color' \in [Vertices -> {"WHITE", "GRAY", "BLACK"}]
  BY <1>4 DEF TypeOK
<1>15. Q' \in Seq(Vertices)
  BY <1>1, <1>4, TailIndices DEF TypeOK
<1>16. TypeOK'
  BY <1>4, <1>13, <1>14, <1>15 DEF TypeOK
<1> QED
  BY <1>12, <1>16

\* The queue is empty.
LEMMA GraphBfsEnd ==
  ASSUME TypeOK, GraphInv, BfsEnd
  PROVE  TypeOK' /\ GraphInv'
<1>1. search = "bfs" /\ Q = <<>> /\ search' = "done"
      /\ UNCHANGED <<adj, directed, edges, s, color, d, f, pi, time, Q, next, stack>>
  BY DEF BfsEnd, graphVars, searchVars
<1>2. TypeOK'
  BY <1>1 DEF TypeOK
<1>3. /\ Simple /\ Tree /\ Explored /\ Queued /\ Exact /\ Reached
      /\ time = 0 /\ stack = <<>> /\ f = [x \in Vertices |-> -1]
  BY <1>1, BfsNow
<1>4. Coloured' = Coloured /\ Finished' = Finished
  BY <1>1 DEF Coloured, Finished
<1>5. /\ Simple' /\ Tree' /\ Within' = Within
      /\ \A v, x : Descends(v, x)' <=> Descends(v, x)
      /\ \A x, n : Seen(x, n)' <=> Seen(x, n)
  BY <1>1, <1>3, <1>4, TreeKept
<1>6. Reached' /\ Exact' /\ Explored'
  BY <1>1, <1>3, <1>4, <1>5 DEF Reached, Exact, Explored
<1>7. Queued'
  BY <1>1, <1>3 DEF Queued
<1>8. BfsInv'
  BY <1>1, <1>3, <1>5, <1>6, <1>7 DEF BfsInv
<1>9. Fresh' /\ DfsInv'
  BY <1>1, <1>3 DEF Fresh, DfsInv, DfsRuns
<1> QED
  BY <1>2, <1>5, <1>8, <1>9 DEF GraphInv
-----------------------------------------------------------------------------
(***************************************************************************)
(* DepthFirstSearch.                                                       *)
(***************************************************************************)
Frames == [u : Vertices, next : 1..(V + 1)]

\* DepthFirstSearch begins.
LEMMA GraphDfsStart ==
  ASSUME TypeOK, GraphInv, NEW src \in Vertices, DfsStart(src)
  PROVE  TypeOK' /\ GraphInv'
<1> USE DEF DfsStart
<1>1. PICK g \in AdjacencyLists : g = adj /\ adj' = g /\ Distinct(g)
  BY Types, Same DEF GraphInv, graphVars
<1>2. Fresh /\ search = "none"
  BY DEF GraphInv
<1>3. Q' = <<>> /\ search' = "dfs" /\ s' = src /\ time' = 1
  BY <1>2 DEF Fresh
<1>4. Coloured' = {src} /\ Finished' = {}
  BY DEF Coloured, Finished
<1>5. pi' \in Parents /\ Closed(pi', {src}) /\ Shallow(pi', {src})
  <2>1. pi' \in Parents
    BY DEF Parents, Maybe
  <2> QED
    BY <2>1, Planted
<1>6. Cardinality({src}) = 1 /\ \A x \in Vertices : Below(pi', src, x) <=> src = x
  <2>1. PICK p \in Parents : p = pi'
    BY <1>5
  <2> QED
    BY <2>1, Planted
<1>7. Tree' /\ Simple'
  BY <1>1, <1>4, <1>5, SameNext
<1>8. Explored'
  BY <1>4 DEF Explored
<1>9. PICK fr : fr = [u |-> src, next |-> 1]
  OBVIOUS
<1>10. /\ stack' = <<fr>> /\ fr.u = src /\ fr.next = 1 /\ fr \in Frames
       /\ DOMAIN stack' = {1} /\ stack'[1] = fr /\ stack' # <<>>
  BY <1>9, VFacts DEF Frames
<1>11. /\ d'[src] = 0 /\ \A x \in Vertices : x # src => d'[x] = -1
       /\ \A x \in Vertices : f'[x] = -1
       /\ color'[src] = "GRAY" /\ \A x \in Vertices : x # src => color'[x] = "WHITE"
  OBVIOUS
<1>12. Stacked'
  <2>1. Len(adj'[src]) \in Nat
    BY <1>1, ListShort
  <2>2. \A j \in 1..Len(adj'[src]) : ~(j <= 1 - 1)
    BY <2>1
  <2>3. \A i \in DOMAIN stack' : stack'[i].next <= Len(adj'[stack'[i].u]) + 1
    BY <1>10, <2>1
  <2>4. \A i \in DOMAIN stack' : Seen(stack[i].u, stack[i].next - 1)'
    BY <1>10, <2>2 DEF Seen
  <2>5. \A v \in Vertices : color'[v] = "GRAY" <=> \E i \in DOMAIN stack' : stack'[i].u = v
    BY <1>10, <1>11
  <2>6. \A i, j \in DOMAIN stack' : i < j => d'[stack'[i].u] < d'[stack'[j].u]
    BY <1>10
  <2> QED
    BY <2>3, <2>4, <2>5, <2>6 DEF Stacked
<1>13. Timed'
  <2>1. Cardinality({}) = 0
    BY FS_EmptySet
  <2> QED
    BY <1>3, <1>4, <1>6, <1>11, <2>1 DEF Timed
<1>14. Parenthesis'
  <2>1. ASSUME NEW t \in 0..(1 - 1)
        PROVE  \E u \in Vertices :
                 /\ d'[u] = t \/ f'[u] = t
                 /\ d'[u] # f'[u]
                 /\ \A v \in Vertices \ {u} : d'[v] # t /\ f'[v] # t
    <3>1. t = 0
      OBVIOUS
    <3> QED
      BY <1>11, <3>1
  <2>2. ASSUME NEW u \in Vertices, NEW v \in Vertices, d'[v] # -1
        PROVE  /\ Open(u, d[v])' <=> Descends(v, u)'
               /\ Open(u, d[v])' /\ f'[u] # -1 => f'[v] # -1 /\ f'[v] <= f'[u]
    <3>1. v = src /\ f'[u] = -1
      BY <1>11, <2>2
    <3>2. Open(u, d[v])' <=> u = src
      BY <1>11, <3>1 DEF Open
    <3> QED
      BY <1>6, <3>1, <3>2, SameNext
  <2> QED
    BY <1>3, <2>1, <2>2 DEF Parenthesis
<1>15. SourceTree'
  BY <1>3, <1>4, <1>6, <1>10, <1>11, SameNext DEF SourceTree
<1>16. GraphInv'
  BY <1>3, <1>7, <1>8, <1>12, <1>13, <1>14, <1>15, DfsGoesOn
<1>17. TypeOK'
  <2>1. stack' \in Seq([u : Vertices, next : 1..(V + 1)])
    BY <1>10 DEF Frames
  <2>2. time' \in 0..(2 * V)
    BY VFacts
  <2>3. d' \in [Vertices -> (-1..(2 * V)) \cup {INT_MAX}] /\ f' \in [Vertices -> -1..(2 * V)]
    BY VFacts
  <2>4. color' \in [Vertices -> {"WHITE", "GRAY", "BLACK"}] /\ pi' \in [Vertices -> Vertices \cup {INVALID_VERTEX}]
    OBVIOUS
  <2> QED
    BY <2>1, <2>2, <2>3, <2>4 DEF TypeOK, graphVars
<1> QED
  BY <1>16, <1>17

\* The state of a depth-first search.
LEMMA DfsNow ==
  ASSUME GraphInv, search = "dfs"
  PROVE  Simple /\ Tree /\ Explored /\ Stacked /\ Timed /\ Parenthesis /\ SourceTree /\ Q = <<>>
BY DEF GraphInv, DfsInv, DfsRuns

\* What Timed says of each vertex.
LEMMA Times ==
  ASSUME TypeOK, Timed
  PROVE  /\ time \in Nat /\ time <= 2 * V
         /\ \A x \in Coloured : d[x] \in 0..(time - 1)
         /\ \A x \in Vertices : x \notin Coloured => d[x] = -1
         /\ \A x \in Finished : f[x] \in (d[x] + 1)..(time - 1) /\ x \in Coloured
         /\ \A x \in Vertices : x \notin Finished => f[x] = -1
         /\ \A x \in Vertices : color[x] = "GRAY" <=> x \in Coloured /\ x \notin Finished
         /\ \A x \in Vertices : f[x] \in Int /\ d[x] \in Int /\ f[x] < time /\ d[x] < time
<1>1. Coloured \in SUBSET Vertices /\ Finished \in SUBSET Vertices
  BY DEF Coloured, Finished
<1>2. PICK c \in 0..V, e \in 0..V : c = Cardinality(Coloured) /\ e = Cardinality(Finished)
  BY <1>1, SomeVertices
<1>3. time \in Nat /\ time <= 2 * V
  BY <1>2, VFacts DEF Timed
<1>4. \A x \in Vertices : color[x] = "GRAY" <=> x \in Coloured /\ x \notin Finished
  BY DEF TypeOK, Coloured, Finished
<1>5. \A x \in Finished : x \in Coloured
  BY DEF Coloured, Finished
<1>6. /\ \A x \in Coloured : d[x] \in 0..(time - 1)
      /\ \A x \in Vertices : x \notin Coloured => d[x] = -1
      /\ \A x \in Finished : f[x] \in (d[x] + 1)..(time - 1)
      /\ \A x \in Vertices : x \notin Finished => f[x] = -1
  BY <1>1 DEF Timed
<1>7. \A x \in Vertices : d[x] \in Int /\ d[x] < time
  BY <1>3, <1>6
<1>8. \A x \in Vertices : f[x] \in Int /\ f[x] < time
  BY <1>3, <1>5, <1>6, <1>7
<1> QED
  BY <1>3, <1>4, <1>5, <1>6, <1>7, <1>8

\* The clock and the nesting of times when DFS_Visit(v) begins; what v descends from
\* must be what is being visited.
LEMMA Visited ==
  ASSUME TypeOK, GraphInv, search = "dfs", search' = "dfs",
         NEW v \in Vertices, color[v] = "WHITE", Visit(v), UNCHANGED <<adj, s, f>>,
         pi' \in Parents, Tree', Below(pi', v, v),
         \A x \in Vertices : x # v => (color[x] = "GRAY" <=> Below(pi', v, x)),
         \A w \in Coloured : \A x : Below(pi', w, x) <=> Below(pi, w, x)
  PROVE  /\ Coloured' = Coloured \cup {v} /\ Finished' = Finished /\ v \notin Coloured
         /\ Simple' /\ Explored' /\ Timed' /\ Parenthesis'
         /\ color[s] = "GRAY" => \A x \in Coloured' : Descends(x, s)'
         /\ color'[s] = color[s] /\ s' = s /\ s # v
         /\ color'[s] = "BLACK" =>
              \A x, w \in Vertices : Descends(x, s)' /\ Edge(x, w)' => Descends(w, s)'
<1>1. /\ Simple /\ Tree /\ Explored /\ Timed /\ Parenthesis /\ SourceTree
  BY DfsNow
<1>2. PICK C \in SUBSET Vertices : C = Coloured
  BY DEF Coloured
<1>3. /\ time \in Nat /\ time <= 2 * V
      /\ \A x \in C : d[x] \in 0..(time - 1)
      /\ \A x \in Vertices : x \notin C => d[x] = -1
      /\ \A x \in Finished : f[x] \in (d[x] + 1)..(time - 1) /\ x \in C
      /\ \A x \in Vertices : x \notin Finished => f[x] = -1
      /\ \A x \in Vertices : color[x] = "GRAY" <=> x \in C /\ x \notin Finished
      /\ \A x \in Vertices : f[x] \in Int /\ d[x] \in Int /\ f[x] < time /\ d[x] < time
  BY <1>1, <1>2, Times
<1>4. v \notin C /\ v \notin Finished /\ s \in C /\ s # v /\ d[v] = -1 /\ f[v] = -1
  <2>1. v \notin C /\ v \notin Finished /\ s \in C
    BY <1>1, <1>2 DEF Coloured, Finished, Tree
  <2> QED
    BY <1>3, <2>1
<1>5. /\ color'[v] = "GRAY" /\ \A x \in Vertices : x # v => color'[x] = color[x]
      /\ d'[v] = time /\ \A x \in Vertices : x # v => d'[x] = d[x]
      /\ time' = time + 1
  BY DEF Visit, TypeOK
<1>6. Coloured' = C \cup {v} /\ Finished' = Finished
  BY <1>2, <1>5 DEF Coloured, Finished
<1>7. Simple' /\ Explored'
  <2>1. \A x \in Finished : Seen(x, Len(adj[x]))'
    BY <1>1, <1>2, <1>6 DEF Explored, Seen
  <2> QED
    BY <1>1, <1>6, <2>1 DEF Explored, Simple
<1>8. Timed'
  <2>1. PICK c \in Nat, e \in Nat : c = Cardinality(C) /\ e = Cardinality(Finished)
    <3>1. Finished \in SUBSET Vertices
      BY DEF Finished
    <3> QED
      BY <3>1, SomeVertices, VFacts
  <2>2. Cardinality(C \cup {v}) = c + 1
    BY <1>4, <2>1, SomeVertices, FS_AddElement
  <2>3. time' = Cardinality(Coloured') + Cardinality(Finished')
    BY <1>1, <1>2, <1>5, <1>6, <2>1, <2>2 DEF Timed
  <2>4. \A x \in Vertices : IF x \in Coloured' THEN d'[x] \in 0..(time' - 1) ELSE d'[x] = -1
    <3>1. \A x \in C : d'[x] \in 0..(time' - 1)
      BY <1>3, <1>4, <1>5
    <3>2. d'[v] \in 0..(time' - 1)
      BY <1>3, <1>5
    <3> QED
      BY <1>3, <1>5, <1>6, <3>1, <3>2
  <2>5. \A x \in Vertices : IF x \in Finished' THEN f'[x] \in (d'[x] + 1)..(time' - 1) ELSE f'[x] = -1
    <3>1. ASSUME NEW x \in Finished
          PROVE  f'[x] \in (d'[x] + 1)..(time' - 1)
      <4>1. x \in Vertices /\ x # v
        BY <1>4 DEF Finished
      <4>2. f'[x] = f[x] /\ d'[x] = d[x] /\ f[x] \in (d[x] + 1)..(time - 1) /\ d[x] \in Int
        BY <1>3, <1>5, <4>1
      <4> QED
        BY <1>3, <1>5, <4>2
    <3> QED
      BY <1>3, <1>6, <3>1
  <2> QED
    BY <2>3, <2>4, <2>5 DEF Timed
<1>9. /\ \A t \in 0..(time - 1) :
          \E u \in Vertices :
            /\ d[u] = t \/ f[u] = t
            /\ d[u] # f[u]
            /\ \A x \in Vertices \ {u} : d[x] # t /\ f[x] # t
      /\ \A u, x \in Vertices : d[x] # -1 =>
           /\ Open(u, d[x]) <=> Below(pi, x, u)
           /\ Open(u, d[x]) /\ f[u] # -1 => f[x] # -1 /\ f[x] <= f[u]
  BY <1>1, Same DEF Parenthesis
<1>10. ASSUME NEW t \in 0..(time' - 1)
       PROVE  \E u \in Vertices :
                /\ d'[u] = t \/ f'[u] = t
                /\ d'[u] # f'[u]
                /\ \A x \in Vertices \ {u} : d'[x] # t /\ f'[x] # t
  <2>1. CASE t = time
    <3>1. d'[v] = t /\ d'[v] # f'[v]
      BY <1>3, <1>4, <1>5, <2>1
    <3>2. \A x \in Vertices \ {v} : d'[x] # t /\ f'[x] # t
      BY <1>3, <1>5, <2>1
    <3> QED
      BY <3>1, <3>2
  <2>2. CASE t # time
    <3>1. t \in 0..(time - 1) /\ t # -1
      BY <1>3, <1>5, <2>2
    <3>2. PICK u \in Vertices : /\ d[u] = t \/ f[u] = t
                                /\ d[u] # f[u]
                                /\ \A x \in Vertices \ {u} : d[x] # t /\ f[x] # t
      BY <1>9, <3>1
    <3>3. u # v
      BY <1>4, <3>1, <3>2
    <3>4. d'[u] = d[u] /\ f'[u] = f[u]
      BY <1>5, <3>3
    <3>5. \A x \in Vertices \ {u} : d'[x] # t /\ f'[x] # t
      BY <1>5, <2>2, <3>2
    <3> QED
      BY <3>2, <3>4, <3>5
  <2> QED
    BY <2>1, <2>2
<1>11. ASSUME NEW a \in Vertices, NEW b \in Vertices, d'[b] # -1
       PROVE  /\ Open(a, d[b])' <=> Below(pi', b, a)
              /\ Open(a, d[b])' /\ f'[a] # -1 => f'[b] # -1 /\ f'[b] <= f'[a]
  <2>1. CASE b # v /\ a # v
    <3>1. d'[b] = d[b] /\ b \in C /\ d'[a] = d[a]
      BY <1>3, <1>5, <1>11, <2>1
    <3>2. Open(a, d[b])' <=> Open(a, d[b])
      BY <3>1 DEF Open
    <3>3. Below(pi', b, a) <=> Below(pi, b, a)
      BY <1>2, <3>1
    <3> QED
      BY <1>9, <1>11, <3>1, <3>2, <3>3
  <2>2. CASE b # v /\ a = v
    <3>1. d'[b] = d[b] /\ b \in C /\ d[b] < time /\ d[b] \in Int
      BY <1>3, <1>5, <1>11, <2>2
    <3>2. ~Open(a, d[b])
      BY <1>4, <2>2 DEF Open
    <3>3. ~Below(pi', b, a)
      BY <1>2, <1>9, <1>11, <3>1, <3>2
    <3>4. ~Open(a, d[b])'
      <4>1. d'[a] = time /\ ~(time <= d'[b])
        BY <1>3, <1>5, <2>2, <3>1
      <4> QED
        BY <4>1 DEF Open
    <3> QED
      BY <3>3, <3>4
  <2>3. CASE b = v /\ a = v
    <3>1. f'[a] = -1 /\ d'[a] = time /\ time # -1 /\ time <= time
      BY <1>3, <1>4, <1>5, <2>3
    <3>2. Open(a, d[b])'
      BY <2>3, <3>1 DEF Open
    <3> QED
      BY <2>3, <3>1, <3>2
  <2>4. CASE b = v /\ a # v
    <3>1. Below(pi', b, a) <=> a \in C /\ a \notin Finished
      BY <1>3, <2>4
    <3>2. d'[a] = d[a] /\ d'[b] = time /\ f'[a] = f[a]
      BY <1>5, <2>4
    <3>3. a \in C /\ a \notin Finished => Open(a, d[b])' /\ f[a] = -1
      <4>1. a \in C /\ a \notin Finished => d[a] # -1 /\ d[a] <= time /\ f[a] = -1
        BY <1>3
      <4> QED
        BY <3>2, <4>1 DEF Open
    <3>4. ~(a \in C /\ a \notin Finished) => ~Open(a, d[b])'
      <4>1. a \notin C => d[a] = -1
        BY <1>3
      <4>2. a \in Finished => f[a] # -1 /\ ~(time <= f[a])
        <5>1. a \in Finished => f[a] \in (d[a] + 1)..(time - 1) /\ d[a] \in 0..(time - 1)
          BY <1>3
        <5> QED
          BY <1>3, <5>1
      <4> QED
        BY <3>2, <4>1, <4>2 DEF Open
    <3> QED
      BY <3>1, <3>2, <3>3, <3>4
  <2> QED
    BY <2>1, <2>2, <2>3, <2>4
<1>12. Parenthesis'
  BY <1>10, <1>11, SameNext DEF Parenthesis
<1>13. \A x : Descends(x, s)' <=> Below(pi', x, s)
  BY SameNext
<1>14. color[s] = "GRAY" => \A x \in Coloured' : Descends(x, s)'
  <2> SUFFICES ASSUME color[s] = "GRAY"
               PROVE  \A x \in C \cup {v} : Below(pi', x, s)
    BY <1>6, <1>13
  <2>1. \A x \in C : Below(pi, x, s)
    BY <1>1, <1>2, Same DEF SourceTree
  <2>2. Below(pi', v, s)
    BY <1>4
  <2> QED
    BY <1>2, <2>1, <2>2
<1>15. ASSUME color'[s] = "BLACK"
       PROVE  \A x, w \in Vertices : Descends(x, s)' /\ Edge(x, w)' => Descends(w, s)'
  <2>1. color[s] = "BLACK" /\ s \in Vertices
    BY <1>4, <1>5, <1>15
  <2>2. ~Below(pi', v, s)
    BY <1>4, <2>1
  <2>3. pi \in Parents /\ Closed(pi, C) /\ Closed(pi', C \cup {v})
    BY <1>1, <1>2, <1>6, Types, Same, SameNext
  <2>4. \A x \in Vertices : x \notin C => ~Below(pi, x, s)
    <3> SUFFICES ASSUME NEW x \in Vertices, x \notin C
                 PROVE  ~Below(pi, x, s)
      OBVIOUS
    <3>1. pi[x] = INVALID_VERTEX
      BY <2>3 DEF Closed
    <3> QED
      BY <1>4, <2>1, <2>3, <3>1, RootBelow
  <2>5. \A x \in Vertices : x \notin C \cup {v} => ~Below(pi', x, s)
    <3> SUFFICES ASSUME NEW x \in Vertices, x \notin C \cup {v}
                 PROVE  ~Below(pi', x, s)
      OBVIOUS
    <3>1. PICK q \in Parents : q = pi'
      OBVIOUS
    <3>2. q[x] = INVALID_VERTEX
      BY <2>3, <3>1 DEF Closed
    <3>3. x # s
      BY <1>4
    <3>4. ~Below(q, x, s)
      BY <2>1, <3>2, <3>3, RootBelow
    <3> QED
      BY <3>1, <3>4
  <2>6. \A x \in Vertices : Below(pi', x, s) <=> Below(pi, x, s)
    BY <1>2, <1>4, <2>2, <2>4, <2>5
  <2>7. \A x, w \in Vertices : Below(pi, x, s) /\ Leads(adj, x, w) => Below(pi, w, s)
    BY <2>1, <1>1, Same DEF SourceTree
  <2>8. \A x, w : Edge(x, w)' <=> Leads(adj, x, w)
    BY SameNext
  <2> QED
    BY <1>13, <2>6, <2>7, <2>8
<1> QED
  BY <1>2, <1>4, <1>5, <1>6, <1>7, <1>8, <1>12, <1>14, <1>15
\* The innermost frame of the stack.
LEMMA DfsTop ==
  ASSUME TypeOK, GraphInv, search = "dfs", stack # <<>>
  PROVE  /\ stack \in Seq(Frames) /\ Len(stack) \in Nat \ {0} /\ DOMAIN stack = 1..Len(stack)
         /\ \A i \in 1..Len(stack) : stack[i] \in Frames
         /\ Len(stack) \in 1..Len(stack) /\ 1 \in 1..Len(stack)
         /\ Top.u \in Vertices /\ Top.next \in 1..(V + 1)
         /\ color[Top.u] = "GRAY" /\ Top.u \in Coloured
         /\ Len(adj[Top.u]) \in 0..V /\ Top.next <= Len(adj[Top.u]) + 1
         /\ \A i \in 1..Len(adj[Top.u]) : adj[Top.u][i] \in Vertices
         /\ Seen(Top.u, Top.next - 1)
         /\ \A x \in Vertices : color[x] = "GRAY" /\ x # Top.u => d[x] < d[Top.u]
<1>1. stack \in Seq(Frames)
  BY DEF TypeOK, Frames
<1>2. /\ Len(stack) \in Nat \ {0} /\ DOMAIN stack = 1..Len(stack)
      /\ \A i \in 1..Len(stack) : stack[i] \in Frames
  BY <1>1, EmptySeq, LenProperties, ElementOfSeq
<1>3. PICK n \in Nat \ {0} : n = Len(stack) /\ n \in 1..n /\ 1 \in 1..n
  <2>1. \A k \in Nat \ {0} : k \in 1..k /\ 1 \in 1..k
    OBVIOUS
  <2> QED
    BY <1>2, <2>1
<1>4. Top = stack[n] /\ Top \in Frames
  BY <1>2, <1>3 DEF Top
<1>5. PICK u \in Vertices : u = Top.u
  BY <1>4 DEF Frames
<1>6. Top.next \in 1..(V + 1)
  BY <1>4 DEF Frames
<1>7. Stacked /\ Simple
  BY DfsNow
<1>8. color[u] = "GRAY"
  BY <1>2, <1>3, <1>4, <1>5, <1>7 DEF Stacked
<1>9. Top.next <= Len(adj[u]) + 1 /\ Seen(u, Top.next - 1)
  BY <1>2, <1>3, <1>4, <1>5, <1>7 DEF Stacked
<1>10. Len(adj[u]) \in 0..V /\ \A i \in 1..Len(adj[u]) : adj[u][i] \in Vertices
  <2>1. PICK g \in AdjacencyLists : g = adj /\ Distinct(g)
    BY <1>7, Types, Same
  <2>2. Len(g[u]) \in 0..V /\ \A i \in 1..Len(g[u]) : g[u][i] \in Vertices
    BY <2>1, ListShort
  <2> QED
    BY <2>1, <2>2
<1>11. ASSUME NEW x \in Vertices, color[x] = "GRAY", x # u
       PROVE  d[x] < d[u]
  <2>1. PICK i \in 1..n : stack[i].u = x
    BY <1>2, <1>3, <1>7, <1>11 DEF Stacked
  <2>2. i # n
    BY <1>4, <1>5, <1>11, <2>1
  <2>3. i < n
    BY <1>3, <2>2
  <2> QED
    BY <1>2, <1>3, <1>4, <1>5, <1>7, <2>1, <2>3 DEF Stacked
<1> QED
  BY <1>1, <1>2, <1>3, <1>5, <1>6, <1>8, <1>9, <1>10, <1>11 DEF Coloured

\* The stack after the next edge of the innermost frame has been taken.
LEMMA OnwardFrames ==
  ASSUME TypeOK, GraphInv, search = "dfs", HasEdge
  PROVE  /\ stack # <<>> /\ Onward \in Seq(Frames) /\ Len(Onward) = Len(stack)
         /\ \A i \in 1..Len(stack) : Onward[i].u = stack[i].u
         /\ \A i \in 1..Len(stack) : i # Len(stack) => Onward[i].next = stack[i].next
         /\ Onward[Len(stack)].next = Top.next + 1
         /\ Top.next \in 1..Len(adj[Top.u])
<1>1. stack # <<>> /\ Top.next <= Len(adj[Top.u])
  BY DEF HasEdge
<1>2. PICK n \in Nat \ {0} : n = Len(stack)
  BY <1>1, DfsTop
<1>3. /\ stack \in Seq(Frames) /\ n \in 1..n /\ \A i \in 1..n : stack[i] \in Frames
      /\ Top.u \in Vertices /\ Top.next \in 1..(V + 1) /\ Len(adj[Top.u]) \in 0..V
  BY <1>1, <1>2, DfsTop
<1>4. Top = stack[n] /\ Top \in Frames
  BY <1>2, <1>3 DEF Top
<1>5. Top.next \in 1..Len(adj[Top.u]) /\ Top.next + 1 \in 1..(V + 1)
  BY <1>1, <1>3, VFacts
<1>6. PICK fr : fr = [Top EXCEPT !.next = Top.next + 1]
  OBVIOUS
<1>7. fr \in Frames /\ fr.u = Top.u /\ fr.next = Top.next + 1
  BY <1>4, <1>5, <1>6 DEF Frames
<1>8. Onward = [stack EXCEPT ![n] = fr]
  BY <1>2, <1>4, <1>6 DEF Onward
<1>9. /\ Onward \in Seq(Frames) /\ Len(Onward) = n /\ Onward[n] = fr
      /\ \A i \in 1..n : i # n => Onward[i] = stack[i]
  BY <1>2, <1>3, <1>7, <1>8, ExceptSeq
<1> QED
  BY <1>1, <1>2, <1>4, <1>5, <1>7, <1>9

\* An edge leads to a vertex that has not been discovered.
LEMMA DfsDiscovers ==
  ASSUME TypeOK, GraphInv, DfsEdge, color[adj[Top.u][Top.next]] = "WHITE"
  PROVE  TypeOK' /\ GraphInv'
<1>1. search = "dfs" /\ HasEdge
  BY DEF DfsEdge
<1>2. PICK n \in Nat \ {0} : n = Len(stack) /\ n \in 1..n /\ 1 \in 1..n
  BY <1>1, OnwardFrames, DfsTop
<1>3. PICK o \in Seq(Frames) : o = Onward
  BY <1>1, OnwardFrames
<1>4. /\ stack # <<>> /\ Len(o) = n
      /\ \A i \in 1..n : o[i].u = stack[i].u
      /\ \A i \in 1..n : i # n => o[i].next = stack[i].next
      /\ o[n].next = Top.next + 1
      /\ Top.next \in 1..Len(adj[Top.u])
  BY <1>1, <1>2, <1>3, OnwardFrames
<1>5. PICK u \in Vertices : u = Top.u /\ u = stack[n].u
  BY <1>1, <1>2, <1>4, DfsTop DEF Top
<1>6. PICK m : m = Top.next
  OBVIOUS
<1>7. /\ m \in 1..Len(adj[u]) /\ Len(adj[u]) \in 0..V /\ Seen(u, m - 1)
      /\ color[u] = "GRAY" /\ u \in Coloured /\ DOMAIN stack = 1..n
      /\ \A i \in 1..Len(adj[u]) : adj[u][i] \in Vertices
      /\ \A x \in Vertices : color[x] = "GRAY" /\ x # u => d[x] < d[u]
      /\ \A i \in 1..n : stack[i] \in Frames
  BY <1>1, <1>2, <1>4, <1>5, <1>6, DfsTop
<1>8. PICK v \in Vertices : v = adj[u][m]
  BY <1>7
<1>9. color[v] = "WHITE" /\ u # v
  BY <1>5, <1>6, <1>7, <1>8
<1>10. PICK fr \in Frames : fr = [u |-> v, next |-> 1] /\ fr.u = v /\ fr.next = 1
  <2>1. 1 \in 1..(V + 1)
    BY VFacts
  <2>2. [u |-> v, next |-> 1] \in Frames
    BY <2>1 DEF Frames
  <2> QED
    BY <2>2
<1>11. /\ pi' = [pi EXCEPT ![v] = u] /\ Visit(v) /\ stack' = Append(o, fr)
       /\ UNCHANGED <<adj, directed, edges, search, s, f, Q, next>>
  BY <1>3, <1>5, <1>6, <1>8, <1>9, <1>10 DEF DfsEdge, graphVars
<1>12. /\ Simple /\ Tree /\ Explored /\ Stacked /\ Timed /\ Parenthesis /\ SourceTree /\ Q = <<>>
  BY <1>1, DfsNow
<1>13. PICK C \in SUBSET Vertices : C = Coloured
  BY DEF Coloured
<1>14. v \notin C /\ u \in C
  BY <1>7, <1>9, <1>13 DEF Coloured
<1>15. pi'[v] = u /\ \A x \in Vertices : x # v => pi'[x] = pi[x]
  BY <1>11 DEF TypeOK
<1>16. pi \in Parents /\ pi' \in Parents
  BY <1>11, Types DEF Parents, Maybe
<1>17. Closed(pi, C) /\ Shallow(pi, C) /\ \A x \in Vertices : pi[x] # INVALID_VERTEX => Leads(adj, pi[x], x)
  BY <1>12, <1>13, Same
<1>18. /\ Closed(pi', C \cup {v}) /\ Shallow(pi', C \cup {v})
       /\ \A w \in C : \A x : Below(pi', w, x) <=> Below(pi, w, x)
       /\ \A x \in Vertices : Below(pi', v, x) <=> v = x \/ Below(pi, u, x)
  <2>1. PICK p, q : p = pi /\ q = pi'
    OBVIOUS
  <2>2. Grafts(p, q, C, v, u)
    BY <1>14, <1>15, <1>16, <1>17, <2>1 DEF Grafts
  <2>3. /\ Closed(q, C \cup {v}) /\ Shallow(q, C \cup {v})
        /\ \A w \in C : \A x : Below(q, w, x) <=> Below(p, w, x)
        /\ \A x \in Vertices : Below(q, v, x) <=> v = x \/ Below(p, u, x)
    BY <2>2, Grafted
  <2> QED
    BY <2>1, <2>3
<1>19. /\ color'[v] = "GRAY" /\ \A x \in Vertices : x # v => color'[x] = color[x]
       /\ d'[v] = time /\ \A x \in Vertices : x # v => d'[x] = d[x]
       /\ time' = time + 1
  BY <1>11 DEF Visit, TypeOK
<1>20. Coloured' = C \cup {v}
  BY <1>9, <1>13, <1>19 DEF Coloured
<1>21. Tree'
  <2>1. Leads(adj, u, v)
    BY <1>7, <1>8 DEF Leads
  <2>2. \A x \in Vertices : pi'[x] # INVALID_VERTEX => Leads(adj', pi'[x], x)
    BY <1>11, <1>15, <1>17, <2>1
  <2>3. s' \in C
    BY <1>11, <1>12, <1>13 DEF Tree
  <2> QED
    BY <1>18, <1>20, <2>2, <2>3, SameNext
<1>22. /\ time \in Nat
       /\ \A x \in C : d[x] \in 0..(time - 1)
       /\ \A x \in Vertices : x \notin C => d[x] = -1
       /\ \A x \in Finished : f[x] \in (d[x] + 1)..(time - 1) /\ x \in C
       /\ \A x \in Vertices : x \notin Finished => f[x] = -1
       /\ \A x \in Vertices : color[x] = "GRAY" <=> x \in C /\ x \notin Finished
       /\ \A x \in Vertices : f[x] \in Int /\ d[x] \in Int /\ f[x] < time /\ d[x] < time
  BY <1>12, <1>13, Times
<1>23. \A x \in Vertices : x # v => (color[x] = "GRAY" <=> Below(pi', v, x))
  <2> SUFFICES ASSUME NEW x \in Vertices, x # v
               PROVE  color[x] = "GRAY" <=> Below(pi, u, x)
    BY <1>18
  <2>1. d[u] # -1 /\ f[u] = -1
    BY <1>7, <1>14, <1>22
  <2>2. /\ Open(x, d[u]) <=> Below(pi, u, x)
        /\ Open(x, d[u]) /\ f[x] # -1 => f[u] # -1
    BY <1>1, <1>12, <2>1, Same DEF Parenthesis
  <2>3. color[x] = "GRAY" => Open(x, d[u])
    <3>1. color[x] = "GRAY" => d[x] # -1 /\ f[x] = -1 /\ d[x] <= d[u]
      BY <1>7, <1>22
    <3> QED
      BY <3>1 DEF Open
  <2>4. Open(x, d[u]) => color[x] = "GRAY"
    <3>1. Open(x, d[u]) => f[x] = -1 /\ d[x] # -1
      BY <2>1, <2>2 DEF Open
    <3>2. x \in Finished => f[x] # -1
      BY <1>22
    <3>3. d[x] # -1 => x \in C
      BY <1>22
    <3> QED
      BY <1>22, <3>1, <3>2, <3>3
  <2> QED
    BY <2>2, <2>3, <2>4
<1>24. /\ Finished' = Finished /\ Simple' /\ Explored' /\ Timed' /\ Parenthesis'
       /\ color[s] = "GRAY" => \A x \in Coloured' : Descends(x, s)'
       /\ color'[s] = color[s] /\ s' = s
       /\ color'[s] = "BLACK" =>
            \A x, w \in Vertices : Descends(x, s)' /\ Edge(x, w)' => Descends(w, s)'
  <2>1. search' = "dfs" /\ Below(pi', v, v)
    BY <1>1, <1>11, <1>18
  <2>2. UNCHANGED <<adj, s, f>>
    BY <1>11
  <2>3. \A w \in Coloured : \A x : Below(pi', w, x) <=> Below(pi, w, x)
    BY <1>13, <1>18
  <2> QED
    BY <1>1, <1>9, <1>11, <1>16, <1>21, <1>23, <2>1, <2>2, <2>3, Visited
<1>25. /\ stack' \in Seq(Frames) /\ DOMAIN stack' = 1..(n + 1) /\ stack' # <<>>
       /\ stack'[n + 1] = fr /\ \A i \in 1..n : stack'[i] = o[i]
  BY <1>4, <1>11, AppendProperties, LenProperties
<1>26. \A i \in 1..(n + 1) : i \in 1..n \/ i = n + 1
  BY <1>2
<1>27. /\ \A i \in 1..n : stack'[i].u = stack[i].u /\ stack[i].u \in C /\ stack[i].u # v
       /\ stack'[n + 1].u = v
  <2>1. \A i \in 1..n : stack[i].u \in Vertices /\ color[stack[i].u] = "GRAY"
    BY <1>7, <1>12 DEF Stacked, Frames
  <2>2. \A i \in 1..n : stack[i].u \in C
    BY <1>13, <2>1 DEF Coloured
  <2> QED
    BY <1>4, <1>10, <1>14, <1>25, <2>2
<1>28. Stacked'
  <2>1. \A x \in Vertices : color'[x] = "GRAY" <=> \E i \in DOMAIN stack' : stack'[i].u = x
    <3> SUFFICES ASSUME NEW x \in Vertices
                 PROVE  color'[x] = "GRAY" <=> \E i \in 1..(n + 1) : stack'[i].u = x
      BY <1>25
    <3>1. color[x] = "GRAY" <=> \E i \in 1..n : stack[i].u = x
      BY <1>7, <1>12 DEF Stacked
    <3>2. \A i \in 1..n : i \in 1..(n + 1)
      BY <1>2
    <3>3. n + 1 \in 1..(n + 1)
      BY <1>2
    <3>4. CASE x = v
      BY <1>19, <1>27, <3>3, <3>4
    <3>5. CASE x # v
      BY <1>19, <1>26, <1>27, <3>1, <3>2, <3>5
    <3> QED
      BY <3>4, <3>5
  <2>2. \A i, j \in DOMAIN stack' : i < j => d'[stack'[i].u] < d'[stack'[j].u]
    <3> SUFFICES ASSUME NEW i \in 1..(n + 1), NEW j \in 1..(n + 1), i < j
                 PROVE  d'[stack'[i].u] < d'[stack'[j].u]
      BY <1>25
    <3>1. i \in 1..n
      BY <1>2
    <3>2. d'[stack'[i].u] = d[stack[i].u] /\ d[stack[i].u] < time
      BY <1>19, <1>22, <1>27, <3>1
    <3>3. CASE j = n + 1
      BY <1>19, <1>27, <3>2, <3>3
    <3>4. CASE j \in 1..n
      <4>1. d'[stack'[j].u] = d[stack[j].u]
        BY <1>19, <1>27, <3>4
      <4> QED
        BY <1>7, <1>12, <3>1, <3>2, <3>4, <4>1 DEF Stacked
    <3> QED
      BY <1>26, <3>3, <3>4
  <2>3. ASSUME NEW i \in 1..(n + 1)
        PROVE  stack'[i].next <= Len(adj'[stack'[i].u]) + 1 /\ Seen(stack[i].u, stack[i].next - 1)'
    <3>1. PICK a \in Vertices : a = stack'[i].u
      BY <1>26, <1>27
    <3>2. PICK k : k = stack'[i].next
      OBVIOUS
    <3>3. Len(adj[a]) \in Nat
      <4>1. PICK g \in AdjacencyLists : g = adj /\ Distinct(g)
        BY <1>12, Types, Same
      <4>2. Len(g[a]) \in 0..V
        BY <4>1, ListShort
      <4> QED
        BY <4>1, <4>2
    <3>4. k <= Len(adj[a]) + 1 /\ \A j \in 1..Len(adj[a]) : j <= k - 1 => adj[a][j] \in C \cup {v}
      <4>1. CASE i = n + 1
        <5>1. k = 1
          BY <1>10, <1>25, <3>2, <4>1
        <5> QED
          BY <3>3, <5>1
      <4>2. CASE i = n
        <5>1. a = u /\ k = m + 1
          BY <1>2, <1>4, <1>5, <1>6, <1>25, <1>27, <3>1, <3>2, <4>2
        <5>2. \A j \in 1..Len(adj[u]) : j <= k - 1 => j <= m - 1 \/ j = m
          BY <1>7, <5>1
        <5>3. k <= Len(adj[u]) + 1
          BY <1>7, <5>1
        <5>4. \A j \in 1..Len(adj[u]) : j <= m - 1 => adj[u][j] \in C
          BY <1>7, <1>13 DEF Seen
        <5> QED
          BY <1>8, <5>1, <5>2, <5>3, <5>4
      <4>3. CASE i \in 1..n /\ i # n
        <5>1. a = stack[i].u /\ k = stack[i].next
          BY <1>4, <1>25, <1>27, <3>1, <3>2, <4>3
        <5>2. k <= Len(adj[a]) + 1 /\ Seen(a, k - 1)
          BY <1>7, <1>12, <4>3, <5>1 DEF Stacked
        <5> QED
          BY <1>13, <5>2 DEF Seen
      <4> QED
        BY <1>26, <4>1, <4>2, <4>3
    <3>5. Seen(stack[i].u, stack[i].next - 1)'
      BY <1>11, <1>20, <3>1, <3>2, <3>4 DEF Seen
    <3>6. stack'[i].next <= Len(adj'[stack'[i].u]) + 1
      BY <1>11, <3>1, <3>2, <3>4
    <3> QED
      BY <3>5, <3>6
  <2> QED
    BY <1>25, <2>1, <2>2, <2>3 DEF Stacked
<1>29. SourceTree'
  <2>1. color'[s] = "GRAY" => stack'[1].u = s
    BY <1>2, <1>12, <1>24, <1>27 DEF SourceTree
  <2> QED
    BY <1>24, <1>25, <2>1 DEF SourceTree
<1>30. GraphInv'
  BY <1>1, <1>11, <1>12, <1>21, <1>24, <1>28, <1>29, DfsGoesOn
<1>31. TypeOK'
  <2>1. color' \in [Vertices -> {"WHITE", "GRAY", "BLACK"}] /\ pi' \in [Vertices -> Vertices \cup {INVALID_VERTEX}]
    BY <1>11 DEF TypeOK, Visit
  <2>2. time' \in 0..(2 * V)
    <3>1. Coloured' \in SUBSET Vertices /\ Finished' \in SUBSET Vertices
      BY DEF Coloured, Finished
    <3>2. PICK c \in 0..V, e \in 0..V : c = Cardinality(Coloured') /\ e = Cardinality(Finished')
      BY <3>1, SomeVertices
    <3> QED
      BY <1>24, <3>2, VFacts DEF Timed
  <2>3. d' \in [Vertices -> (-1..(2 * V)) \cup {INT_MAX}]
    <3>1. time \in -1..(2 * V)
      BY VFacts DEF TypeOK
    <3> QED
      BY <1>11, <3>1 DEF TypeOK, Visit
  <2>4. stack' \in Seq([u : Vertices, next : 1..(V + 1)])
    BY <1>25 DEF Frames
  <2> QED
    BY <1>11, <2>1, <2>2, <2>3, <2>4 DEF TypeOK
<1> QED
  BY <1>30, <1>31
\* An edge leads to a vertex that has been discovered.
LEMMA DfsSkips ==
  ASSUME TypeOK, GraphInv, DfsEdge, color[adj[Top.u][Top.next]] # "WHITE"
  PROVE  TypeOK' /\ GraphInv'
<1>1. search = "dfs" /\ HasEdge
  BY DEF DfsEdge
<1>2. PICK n \in Nat \ {0} : n = Len(stack) /\ n \in 1..n /\ 1 \in 1..n
  BY <1>1, OnwardFrames, DfsTop
<1>3. /\ stack' = Onward /\ UNCHANGED <<adj, directed, edges, search, s, color, d, f, pi, time, Q, next>>
  BY DEF DfsEdge, graphVars
<1>4. /\ stack # <<>> /\ stack' \in Seq(Frames) /\ Len(stack') = n
      /\ \A i \in 1..n : stack'[i].u = stack[i].u
      /\ \A i \in 1..n : i # n => stack'[i].next = stack[i].next
      /\ stack'[n].next = Top.next + 1
      /\ Top.next \in 1..Len(adj[Top.u])
  BY <1>1, <1>2, <1>3, OnwardFrames
<1>5. PICK u \in Vertices : u = Top.u /\ u = stack[n].u
  BY <1>1, <1>2, <1>4, DfsTop DEF Top
<1>6. PICK m : m = Top.next
  OBVIOUS
<1>7. /\ m \in 1..Len(adj[u]) /\ Len(adj[u]) \in 0..V /\ Seen(u, m - 1)
      /\ DOMAIN stack = 1..n
      /\ \A i \in 1..Len(adj[u]) : adj[u][i] \in Vertices
  BY <1>1, <1>2, <1>4, <1>5, <1>6, DfsTop
<1>8. adj[u][m] \in Coloured
  BY <1>5, <1>6, <1>7 DEF Coloured
<1>9. /\ Simple /\ Tree /\ Explored /\ Stacked /\ Timed /\ Parenthesis /\ SourceTree /\ Q = <<>>
  BY <1>1, DfsNow
<1>10. Coloured' = Coloured /\ Finished' = Finished
  BY <1>3 DEF Coloured, Finished
<1>11. /\ Simple' /\ Tree'
       /\ \A v, x : Descends(v, x)' <=> Descends(v, x)
       /\ \A x, k : Seen(x, k)' <=> Seen(x, k)
  BY <1>3, <1>9, <1>10, TreeKept
<1>12. Explored' /\ Timed'
  BY <1>3, <1>9, <1>10, <1>11 DEF Explored, Timed
<1>13. Parenthesis'
  BY <1>1, <1>3, <1>9, <1>11 DEF Parenthesis, Open
<1>14. DOMAIN stack' = 1..n /\ stack' # <<>>
  BY <1>2, <1>4, LenProperties, EmptySeq
<1>15. SourceTree'
  <2>1. \A x, w : Edge(x, w)' <=> Edge(x, w)
    BY <1>3 DEF Edge
  <2> QED
    BY <1>2, <1>3, <1>4, <1>9, <1>10, <1>11, <1>14, <2>1 DEF SourceTree
<1>16. Stacked'
  <2>1. \A x \in Vertices : color'[x] = "GRAY" <=> \E i \in DOMAIN stack' : stack'[i].u = x
    <3>1. \A x \in Vertices : color[x] = "GRAY" <=> \E i \in 1..n : stack[i].u = x
      BY <1>7, <1>9 DEF Stacked
    <3>2. \A x : (\E i \in 1..n : stack'[i].u = x) <=> \E i \in 1..n : stack[i].u = x
      BY <1>4
    <3> QED
      BY <1>3, <1>14, <3>1, <3>2
  <2>2. \A i, j \in DOMAIN stack' : i < j => d'[stack'[i].u] < d'[stack'[j].u]
    BY <1>3, <1>4, <1>7, <1>9, <1>14 DEF Stacked
  <2>3. ASSUME NEW i \in 1..n
        PROVE  stack'[i].next <= Len(adj'[stack'[i].u]) + 1 /\ Seen(stack[i].u, stack[i].next - 1)'
    <3>1. CASE i = n
      <4>1. stack'[i].u = u /\ stack'[i].next = m + 1
        BY <1>4, <1>5, <1>6, <3>1
      <4>2. \A j \in 1..Len(adj[u]) : j <= (m + 1) - 1 => j <= m - 1 \/ j = m
        BY <1>7
      <4>3. \A j \in 1..Len(adj[u]) : j <= (m + 1) - 1 => adj[u][j] \in Coloured
        BY <1>7, <1>8, <4>2 DEF Seen
      <4>4. m + 1 <= Len(adj[u]) + 1
        BY <1>7
      <4>5. Seen(stack[i].u, stack[i].next - 1)'
        BY <1>3, <1>10, <4>1, <4>3 DEF Seen
      <4> QED
        BY <1>3, <4>1, <4>4, <4>5
    <3>2. CASE i # n
      <4>1. stack'[i].u = stack[i].u /\ stack'[i].next = stack[i].next
        BY <1>4, <3>2
      <4>2. stack[i].next <= Len(adj[stack[i].u]) + 1 /\ Seen(stack[i].u, stack[i].next - 1)
        BY <1>7, <1>9 DEF Stacked
      <4>3. Seen(stack[i].u, stack[i].next - 1)'
        BY <1>3, <1>10, <4>1, <4>2 DEF Seen
      <4> QED
        BY <1>3, <4>1, <4>2, <4>3
    <3> QED
      BY <3>1, <3>2
  <2> QED
    BY <1>14, <2>1, <2>2, <2>3 DEF Stacked
<1>17. GraphInv'
  BY <1>1, <1>3, <1>9, <1>11, <1>12, <1>13, <1>15, <1>16, DfsGoesOn
<1>18. TypeOK'
  BY <1>3, <1>4 DEF TypeOK, Frames
<1> QED
  BY <1>17, <1>18

\* DFS_Visit returns.
LEMMA GraphDfsReturn ==
  ASSUME TypeOK, GraphInv, DfsReturn
  PROVE  TypeOK' /\ GraphInv'
<1>1. search = "dfs" /\ stack # <<>> /\ ~(Top.next <= Len(adj[Top.u]))
  BY DEF DfsReturn, HasEdge
<1>2. PICK n \in Nat \ {0} : n = Len(stack) /\ n \in 1..n /\ 1 \in 1..n
  BY <1>1, DfsTop
<1>3. PICK u \in Vertices : u = Top.u /\ u = stack[n].u
  BY <1>1, <1>2, DfsTop DEF Top
<1>4. PICK m \in Nat : m = Top.next
  BY <1>1, DfsTop, VFacts
<1>5. /\ Len(adj[u]) \in 0..V /\ Seen(u, m - 1) /\ ~(m <= Len(adj[u]))
      /\ color[u] = "GRAY" /\ u \in Coloured
      /\ stack \in Seq(Frames) /\ DOMAIN stack = 1..n
      /\ \A i \in 1..n : stack[i] \in Frames
      /\ \A x \in Vertices : color[x] = "GRAY" /\ x # u => d[x] < d[u]
  BY <1>1, <1>2, <1>3, <1>4, DfsTop
<1>6. /\ color' = [color EXCEPT ![u] = "BLACK"] /\ f' = [f EXCEPT ![u] = time]
      /\ time' = time + 1 /\ stack' = Front(stack)
      /\ UNCHANGED <<adj, directed, edges, search, s, d, pi, Q, next>>
  BY <1>3 DEF DfsReturn, graphVars
<1>7. /\ Simple /\ Tree /\ Explored /\ Stacked /\ Timed /\ Parenthesis /\ SourceTree /\ Q = <<>>
  BY <1>1, DfsNow
<1>8. /\ color'[u] = "BLACK" /\ \A x \in Vertices : x # u => color'[x] = color[x]
      /\ f'[u] = time /\ \A x \in Vertices : x # u => f'[x] = f[x]
  BY <1>6 DEF TypeOK
<1>9. Coloured' = Coloured /\ Finished' = Finished \cup {u} /\ u \notin Finished
  BY <1>5, <1>8 DEF Coloured, Finished
<1>10. /\ Simple' /\ Tree'
       /\ \A v, x : Descends(v, x)' <=> Descends(v, x)
       /\ \A x, k : Seen(x, k)' <=> Seen(x, k)
  BY <1>6, <1>7, <1>9, TreeKept
<1>11. Explored'
  <2>1. \A j \in 1..Len(adj[u]) : j <= m - 1
    BY <1>4, <1>5
  <2>2. Seen(u, Len(adj[u]))
    BY <1>5, <2>1 DEF Seen
  <2>3. \A v \in Finished' : Seen(v, Len(adj[v]))
    BY <1>7, <1>9, <2>2 DEF Explored
  <2> QED
    BY <1>6, <1>10, <2>3 DEF Explored
<1>12. /\ time \in Nat
       /\ \A x \in Coloured : d[x] \in 0..(time - 1)
       /\ \A x \in Vertices : x \notin Coloured => d[x] = -1
       /\ \A x \in Finished : f[x] \in (d[x] + 1)..(time - 1) /\ x \in Coloured
       /\ \A x \in Vertices : x \notin Finished => f[x] = -1
       /\ \A x \in Vertices : color[x] = "GRAY" <=> x \in Coloured /\ x \notin Finished
       /\ \A x \in Vertices : f[x] \in Int /\ d[x] \in Int /\ f[x] < time /\ d[x] < time
  BY <1>7, Times
<1>13. d[u] \in 0..(time - 1) /\ f[u] = -1 /\ d[u] # time
  BY <1>5, <1>9, <1>12
<1>14. Timed'
  <2>1. PICK c \in Nat, e \in Nat : c = Cardinality(Coloured) /\ e = Cardinality(Finished)
    <3>1. Coloured \in SUBSET Vertices /\ Finished \in SUBSET Vertices
      BY DEF Coloured, Finished
    <3> QED
      BY <3>1, SomeVertices, VFacts
  <2>2. Cardinality(Finished \cup {u}) = e + 1
    <3>1. Finished \in SUBSET Vertices
      BY DEF Finished
    <3> QED
      BY <1>9, <2>1, <3>1, SomeVertices, FS_AddElement
  <2>3. time' = Cardinality(Coloured') + Cardinality(Finished')
    BY <1>6, <1>7, <1>9, <2>1, <2>2 DEF Timed
  <2>4. \A x \in Vertices : IF x \in Coloured' THEN d'[x] \in 0..(time' - 1) ELSE d'[x] = -1
    BY <1>6, <1>9, <1>12
  <2>5. \A x \in Vertices : IF x \in Finished' THEN f'[x] \in (d'[x] + 1)..(time' - 1) ELSE f'[x] = -1
    <3>1. \A x \in Finished : x \in Vertices /\ x # u
      BY <1>9 DEF Finished
    <3>2. \A x \in Finished : f'[x] \in (d'[x] + 1)..(time' - 1)
      BY <1>6, <1>8, <1>12, <3>1
    <3>3. f'[u] \in (d'[u] + 1)..(time' - 1)
      BY <1>6, <1>8, <1>12, <1>13
    <3> QED
      BY <1>8, <1>9, <1>12, <3>2, <3>3
  <2> QED
    BY <2>3, <2>4, <2>5 DEF Timed
<1>15. /\ \A t \in 0..(time - 1) :
           \E a \in Vertices :
             /\ d[a] = t \/ f[a] = t
             /\ d[a] # f[a]
             /\ \A x \in Vertices \ {a} : d[x] # t /\ f[x] # t
       /\ \A a, b \in Vertices : d[b] # -1 =>
            /\ Open(a, d[b]) <=> Descends(b, a)
            /\ Open(a, d[b]) /\ f[a] # -1 => f[b] # -1 /\ f[b] <= f[a]
  BY <1>1, <1>7 DEF Parenthesis
<1>16. ASSUME NEW t \in 0..(time' - 1)
       PROVE  \E a \in Vertices :
                /\ d'[a] = t \/ f'[a] = t
                /\ d'[a] # f'[a]
                /\ \A x \in Vertices \ {a} : d'[x] # t /\ f'[x] # t
  <2>1. CASE t = time
    <3>1. f'[u] = t /\ d'[u] # f'[u]
      BY <1>6, <1>8, <1>13, <2>1
    <3>2. \A x \in Vertices \ {u} : d'[x] # t /\ f'[x] # t
      BY <1>6, <1>8, <1>12, <2>1
    <3> QED
      BY <3>1, <3>2
  <2>2. CASE t # time
    <3>1. t \in 0..(time - 1) /\ t # -1
      BY <1>6, <1>12, <2>2
    <3>2. PICK a \in Vertices : /\ d[a] = t \/ f[a] = t
                                /\ d[a] # f[a]
                                /\ \A x \in Vertices \ {a} : d[x] # t /\ f[x] # t
      BY <1>15, <3>1
    <3>3. d'[a] = t \/ f'[a] = t
      BY <1>6, <1>8, <1>13, <3>1, <3>2
    <3>4. d'[a] # f'[a]
      BY <1>6, <1>8, <1>13, <3>2
    <3>5. \A x \in Vertices \ {a} : d'[x] # t /\ f'[x] # t
      BY <1>6, <1>8, <2>2, <3>2
    <3> QED
      BY <3>3, <3>4, <3>5
  <2> QED
    BY <2>1, <2>2
<1>17. ASSUME NEW a \in Vertices, NEW b \in Vertices, d'[b] # -1
       PROVE  /\ Open(a, d[b])' <=> Descends(b, a)'
              /\ Open(a, d[b])' /\ f'[a] # -1 => f'[b] # -1 /\ f'[b] <= f'[a]
  <2>1. d[b] # -1 /\ d'[b] = d[b] /\ d'[a] = d[a]
    BY <1>6, <1>17
  <2>2. d[b] <= time /\ b \in Coloured
    BY <1>12, <2>1
  <2>3. Open(a, d[b])' <=> Open(a, d[b])
    <3>1. CASE a = u
      BY <1>8, <1>13, <2>1, <2>2, <3>1 DEF Open
    <3>2. CASE a # u
      BY <1>8, <2>1, <3>2 DEF Open
    <3> QED
      BY <3>1, <3>2
  <2>4. ASSUME Open(a, d[b]), f'[a] # -1
        PROVE  f'[b] # -1 /\ f'[b] <= f'[a]
    <3>1. CASE a = u
      <4>1. d[u] <= d[b]
        BY <2>4, <3>1 DEF Open
      <4>2. b # u => ~(d[b] < d[u])
        BY <1>12, <1>13, <4>1
      <4>3. b # u => b \in Finished
        BY <1>5, <1>12, <2>2, <4>2
      <4>4. b # u => f[b] # -1 /\ f[b] < time /\ f[b] \in Int
        <5>1. b \in Finished => f[b] \in (d[b] + 1)..(time - 1) /\ d[b] \in 0..(time - 1)
          BY <1>12
        <5> QED
          BY <1>12, <4>3, <5>1
      <4>5. CASE b = u
        BY <1>8, <1>12, <3>1, <4>5
      <4>6. CASE b # u
        BY <1>8, <1>12, <3>1, <4>4, <4>6
      <4> QED
        BY <4>5, <4>6
    <3>2. CASE a # u
      <4>1. f[a] # -1
        BY <1>8, <2>4, <3>2
      <4>2. f[b] # -1 /\ f[b] <= f[a]
        BY <1>15, <2>1, <2>4, <4>1
      <4>3. b # u
        BY <1>13, <4>2
      <4> QED
        BY <1>8, <3>2, <4>2, <4>3
    <3> QED
      BY <3>1, <3>2
  <2> QED
    BY <1>10, <1>15, <2>1, <2>3, <2>4
<1>18. Parenthesis'
  BY <1>16, <1>17 DEF Parenthesis
<1>19. /\ stack' \in Seq(Frames) /\ Len(stack') = n - 1 /\ DOMAIN stack' = 1..(n - 1)
       /\ \A i \in 1..(n - 1) : stack'[i] = stack[i] /\ i \in 1..n /\ i < n
  <2>1. Front(stack) = SubSeq(stack, 1, n - 1)
    BY <1>2 DEF Front
  <2>2. \A i \in 1..(n - 1) : i \in 1..n /\ i < n
    BY <1>2
  <2>3. /\ SubSeq(stack, 1, n - 1) \in Seq(Frames)
        /\ Len(SubSeq(stack, 1, n - 1)) = n - 1
        /\ \A i \in 1..(n - 1) : SubSeq(stack, 1, n - 1)[i] = stack[i]
    BY <1>2, <1>5, SubSeqProperties
  <2> QED
    BY <1>6, <2>1, <2>2, <2>3, LenProperties
<1>20. Stacked'
  <2>1. \A x \in Vertices : color'[x] = "GRAY" <=> \E i \in DOMAIN stack' : stack'[i].u = x
    <3> SUFFICES ASSUME NEW x \in Vertices
                 PROVE  color'[x] = "GRAY" <=> \E i \in 1..(n - 1) : stack'[i].u = x
      BY <1>19
    <3>1. color[x] = "GRAY" <=> \E i \in 1..n : stack[i].u = x
      BY <1>5, <1>7 DEF Stacked
    <3>2. \A i \in 1..n : i = n \/ i \in 1..(n - 1)
      BY <1>2
    <3>3. \A i \in 1..(n - 1) : stack[i].u # u
      <4> SUFFICES ASSUME NEW i \in 1..(n - 1), stack[i].u = u
                   PROVE  FALSE
        OBVIOUS
      <4>1. d[stack[i].u] < d[stack[n].u]
        BY <1>2, <1>5, <1>7, <1>19 DEF Stacked
      <4> QED
        BY <1>3, <1>12, <4>1
    <3>4. CASE x = u
      BY <1>8, <1>19, <3>3, <3>4
    <3>5. CASE x # u
      BY <1>3, <1>8, <1>19, <3>1, <3>2, <3>5
    <3> QED
      BY <3>4, <3>5
  <2>2. \A i, j \in DOMAIN stack' : i < j => d'[stack'[i].u] < d'[stack'[j].u]
    BY <1>5, <1>6, <1>7, <1>19 DEF Stacked
  <2>3. \A i \in DOMAIN stack' : stack'[i].next <= Len(adj'[stack'[i].u]) + 1
    BY <1>5, <1>6, <1>7, <1>19 DEF Stacked
  <2>4. \A i \in DOMAIN stack' : Seen(stack[i].u, stack[i].next - 1)'
    <3>1. \A i \in 1..(n - 1) : Seen(stack[i].u, stack[i].next - 1)
      BY <1>5, <1>7, <1>19 DEF Stacked
    <3> QED
      BY <1>6, <1>9, <1>19, <3>1 DEF Seen
  <2> QED
    BY <2>1, <2>2, <2>3, <2>4 DEF Stacked
<1>21. SourceTree'
  <2>1. s' = s /\ s \in Vertices /\ \A x, w : Edge(x, w)' <=> Edge(x, w)
    BY <1>6 DEF Edge, TypeOK
  <2>2. CASE s # u
    <3>1. color'[s] = color[s]
      BY <1>8, <2>1, <2>2
    <3>2. color[s] = "GRAY" => stack' # <<>> /\ stack'[1].u = s
      <4> SUFFICES ASSUME color[s] = "GRAY"
                   PROVE  stack' # <<>> /\ stack'[1].u = s
        OBVIOUS
      <4>1. stack[1].u = s
        BY <1>7 DEF SourceTree
      <4>2. n # 1
        BY <1>3, <2>2, <4>1
      <4>3. 1 \in 1..(n - 1) /\ n - 1 # 0
        BY <1>2, <4>2
      <4> QED
        BY <1>19, <4>1, <4>3
    <3> QED
      BY <1>7, <1>9, <1>10, <2>1, <3>1, <3>2 DEF SourceTree
  <2>3. CASE s = u
    <3>1. color'[s] = "BLACK"
      BY <1>8, <2>3
    <3>2. \A v \in Coloured : Descends(v, s)
      BY <1>5, <1>7, <2>3 DEF SourceTree
    <3>3. n = 1
      <4>1. stack[1].u = s
        BY <1>5, <1>7, <2>3 DEF SourceTree
      <4>2. ~(1 < n)
        <5> SUFFICES ASSUME 1 < n
                     PROVE  FALSE
          OBVIOUS
        <5>1. d[stack[1].u] < d[stack[n].u]
          BY <1>2, <1>5, <1>7 DEF Stacked
        <5> QED
          BY <1>3, <1>12, <2>3, <4>1, <5>1
      <4> QED
        BY <1>2, <4>2
    <3>4. \A v \in Coloured : v \in Finished'
      <4> SUFFICES ASSUME NEW v \in Coloured, v \notin Finished'
                   PROVE  FALSE
        OBVIOUS
      <4>1. v \in Vertices /\ color'[v] = "GRAY"
        BY <1>6, <1>8, <1>9, <1>12 DEF Coloured, Finished
      <4>2. \E i \in 1..(n - 1) : stack'[i].u = v
        BY <1>19, <1>20, <4>1 DEF Stacked
      <4> QED
        BY <3>3, <4>2
    <3>5. ASSUME NEW v \in Vertices, NEW w \in Vertices, Descends(v, s), Edge(v, w)
          PROVE  Descends(w, s)
      <4>1. v \in Coloured
        <5> SUFFICES ASSUME v \notin Coloured
                     PROVE  FALSE
          OBVIOUS
        <5>1. pi[v] = INVALID_VERTEX /\ pi \in Parents
          BY <1>7, Types, Same DEF Closed
        <5>2. Below(pi, v, s) <=> v = s
          BY <2>1, <5>1, RootBelow
        <5> QED
          BY <1>7, <3>5, <5>2, Same DEF Tree
      <4>2. Seen(v, Len(adj[v]))
        BY <1>6, <1>10, <1>11, <3>4, <4>1 DEF Explored
      <4>3. PICK i \in 1..Len(adj[v]) : adj[v][i] = w
        BY <3>5 DEF Edge
      <4>4. i <= Len(adj[v])
        <5>1. PICK g \in AdjacencyLists : g = adj /\ Distinct(g)
          BY <1>7, Types, Same
        <5>2. Len(g[v]) \in 0..V
          BY <5>1, ListShort
        <5> QED
          BY <5>1, <5>2
      <4>5. w \in Coloured
        BY <4>2, <4>3, <4>4 DEF Seen
      <4> QED
        BY <3>2, <4>5
    <3> QED
      BY <1>10, <2>1, <3>1, <3>5 DEF SourceTree
  <2> QED
    BY <2>2, <2>3
<1>22. GraphInv'
  BY <1>1, <1>6, <1>7, <1>10, <1>11, <1>14, <1>18, <1>20, <1>21, DfsGoesOn
<1>23. TypeOK'
  <2>1. color' \in [Vertices -> {"WHITE", "GRAY", "BLACK"}]
    BY <1>6 DEF TypeOK
  <2>2. time' \in 0..(2 * V)
    <3>1. Coloured' \in SUBSET Vertices /\ Finished' \in SUBSET Vertices
      BY DEF Coloured, Finished
    <3>2. PICK c \in 0..V, e \in 0..V : c = Cardinality(Coloured') /\ e = Cardinality(Finished')
      BY <3>1, SomeVertices
    <3> QED
      BY <1>14, <3>2, VFacts DEF Timed
  <2>3. f' \in [Vertices -> -1..(2 * V)]
    <3>1. time \in -1..(2 * V)
      BY VFacts DEF TypeOK
    <3> QED
      BY <1>6, <3>1 DEF TypeOK
  <2>4. stack' \in Seq([u : Vertices, next : 1..(V + 1)])
    BY <1>19 DEF Frames
  <2> QED
    BY <1>6, <2>1, <2>2, <2>3, <2>4 DEF TypeOK
<1> QED
  BY <1>22, <1>23
\* The loop finds the next root.
LEMMA GraphDfsRoot ==
  ASSUME TypeOK, GraphInv, DfsRoot
  PROVE  TypeOK' /\ GraphInv'
<1>1. search = "dfs" /\ stack = <<>>
  BY DEF DfsRoot
<1>2. PICK v : v = CHOOSE x \in Unvisited : \A y \in Unvisited : x <= y
  OBVIOUS
<1>3. v \in Vertices /\ color[v] = "WHITE"
  <2>1. Unvisited \in SUBSET Nat /\ Unvisited # {}
    BY VFacts DEF Unvisited, DfsRoot
  <2>2. \E x \in Unvisited : \A y \in Unvisited : x <= y
    BY <2>1, SmallestExists
  <2>3. v \in Unvisited
    BY <1>2, <2>2
  <2> QED
    BY <2>3 DEF Unvisited
<1>4. PICK fr : fr = [u |-> v, next |-> 1]
  OBVIOUS
<1>5. /\ Visit(v) /\ stack' = <<fr>>
      /\ UNCHANGED <<adj, directed, edges, search, s, f, pi, Q, next>>
  BY <1>2, <1>4 DEF DfsRoot, graphVars
<1>6. fr \in Frames /\ fr.u = v /\ fr.next = 1
  <2>1. 1 \in 1..(V + 1)
    BY VFacts
  <2> QED
    BY <1>3, <1>4, <2>1 DEF Frames
<1>7. /\ DOMAIN stack' = {1} /\ stack'[1] = fr /\ stack' # <<>> /\ stack' \in Seq(Frames)
  BY <1>5, <1>6
<1>8. /\ Simple /\ Tree /\ Explored /\ Stacked /\ Timed /\ Parenthesis /\ SourceTree /\ Q = <<>>
  BY <1>1, DfsNow
<1>9. PICK C \in SUBSET Vertices : C = Coloured
  BY DEF Coloured
<1>10. v \notin C
  BY <1>3, <1>9 DEF Coloured
<1>11. \A x \in Vertices : color[x] # "GRAY"
  BY <1>1, <1>8 DEF Stacked
<1>12. pi \in Parents /\ Closed(pi, C) /\ Shallow(pi, C) /\ \A x \in Vertices : pi[x] # INVALID_VERTEX => Leads(adj, pi[x], x)
  BY <1>8, <1>9, Types, Same
<1>13. pi[v] = INVALID_VERTEX /\ Closed(pi, C \cup {v}) /\ Shallow(pi, C \cup {v})
  BY <1>3, <1>10, <1>12, Rooted
<1>14. \A x \in Vertices : Below(pi, v, x) <=> v = x
  BY <1>3, <1>12, <1>13, RootBelow
<1>15. color'[v] = "GRAY" /\ \A x \in Vertices : x # v => color'[x] = color[x]
  BY <1>3, <1>5 DEF Visit, TypeOK
<1>16. Coloured' = C \cup {v}
  BY <1>3, <1>9, <1>15 DEF Coloured
<1>17. Tree'
  <2>1. s' \in C /\ pi' = pi /\ adj' = adj
    BY <1>5, <1>8, <1>9 DEF Tree
  <2> QED
    BY <1>12, <1>13, <1>16, <2>1, SameNext
<1>18. /\ Finished' = Finished /\ Simple' /\ Explored' /\ Timed' /\ Parenthesis'
       /\ color'[s] = color[s] /\ s' = s
       /\ color'[s] = "BLACK" =>
            \A x, w \in Vertices : Descends(x, s)' /\ Edge(x, w)' => Descends(w, s)'
  <2>1. search' = "dfs" /\ pi' = pi /\ UNCHANGED <<adj, s, f>>
    BY <1>1, <1>5
  <2>2. Below(pi', v, v)
    BY <1>3, <1>14, <2>1
  <2>3. \A w \in Coloured : \A x : Below(pi', w, x) <=> Below(pi, w, x)
    BY <2>1
  <2>4. \A x \in Vertices : x # v => (color[x] = "GRAY" <=> Below(pi', v, x))
    BY <1>11, <1>14, <2>1
  <2>5. pi' \in Parents
    BY <1>12, <2>1
  <2> QED
    BY <1>1, <1>3, <1>5, <1>17, <2>1, <2>2, <2>3, <2>4, <2>5, Visited
<1>19. Stacked'
  <2>1. Len(adj'[v]) \in Nat
    <3>1. PICK g \in AdjacencyLists : g = adj /\ Distinct(g)
      BY <1>8, Types, Same
    <3>2. Len(g[v]) \in 0..V
      BY <1>3, <3>1, ListShort
    <3> QED
      BY <1>5, <3>1, <3>2
  <2>2. \A j \in 1..Len(adj'[v]) : ~(j <= 1 - 1)
    BY <2>1
  <2>3. \A i \in DOMAIN stack' : stack'[i].next <= Len(adj'[stack'[i].u]) + 1
    BY <1>6, <1>7, <2>1
  <2>4. \A i \in DOMAIN stack' : Seen(stack[i].u, stack[i].next - 1)'
    BY <1>6, <1>7, <2>2 DEF Seen
  <2>5. \A x \in Vertices : color'[x] = "GRAY" <=> \E i \in DOMAIN stack' : stack'[i].u = x
    BY <1>6, <1>7, <1>11, <1>15
  <2>6. \A i, j \in DOMAIN stack' : i < j => d'[stack'[i].u] < d'[stack'[j].u]
    BY <1>7
  <2> QED
    BY <2>3, <2>4, <2>5, <2>6 DEF Stacked
<1>20. SourceTree'
  <2>1. color'[s] # "GRAY"
    BY <1>11, <1>18 DEF TypeOK
  <2> QED
    BY <1>18, <2>1 DEF SourceTree
<1>21. GraphInv'
  BY <1>1, <1>5, <1>8, <1>17, <1>18, <1>19, <1>20, DfsGoesOn
<1>22. TypeOK'
  <2>1. color' \in [Vertices -> {"WHITE", "GRAY", "BLACK"}]
    BY <1>5 DEF TypeOK, Visit
  <2>2. time' \in 0..(2 * V)
    <3>1. Coloured' \in SUBSET Vertices /\ Finished' \in SUBSET Vertices
      BY DEF Coloured, Finished
    <3>2. PICK c \in 0..V, e \in 0..V : c = Cardinality(Coloured') /\ e = Cardinality(Finished')
      BY <3>1, SomeVertices
    <3> QED
      BY <1>18, <3>2, VFacts DEF Timed
  <2>3. d' \in [Vertices -> (-1..(2 * V)) \cup {INT_MAX}]
    <3>1. time \in -1..(2 * V)
      BY VFacts DEF TypeOK
    <3> QED
      BY <1>5, <3>1 DEF TypeOK, Visit
  <2>4. stack' \in Seq([u : Vertices, next : 1..(V + 1)])
    BY <1>7 DEF Frames
  <2> QED
    BY <1>5, <2>1, <2>2, <2>3, <2>4 DEF TypeOK
<1> QED
  BY <1>21, <1>22

\* There is no root left.
LEMMA GraphDfsEnd ==
  ASSUME TypeOK, GraphInv, DfsEnd
  PROVE  TypeOK' /\ GraphInv'
<1>1. search = "dfs" /\ stack = <<>> /\ Unvisited = {} /\ search' = "done"
      /\ UNCHANGED <<adj, directed, edges, s, color, d, f, pi, time, Q, next, stack>>
  BY DEF DfsEnd, graphVars, searchVars
<1>2. TypeOK'
  BY <1>1 DEF TypeOK
<1>3. /\ Simple /\ Tree /\ Explored /\ Stacked /\ Timed /\ Parenthesis /\ SourceTree /\ Q = <<>>
  BY <1>1, DfsNow
<1>4. Coloured' = Coloured /\ Finished' = Finished /\ Unvisited' = Unvisited
  BY <1>1 DEF Coloured, Finished, Unvisited
<1>5. /\ Simple' /\ Tree' /\ Within' = Within
      /\ \A v, x : Descends(v, x)' <=> Descends(v, x)
      /\ \A x, n : Seen(x, n)' <=> Seen(x, n)
  BY <1>1, <1>3, <1>4, TreeKept
<1>6. Explored' /\ Timed'
  BY <1>1, <1>3, <1>4, <1>5 DEF Explored, Timed
<1>7. Stacked'
  BY <1>1, <1>3 DEF Stacked
<1>8. Parenthesis'
  BY <1>1, <1>3, <1>5 DEF Parenthesis, Open
<1>9. SourceTree'
  <2>1. \A x, w : Edge(x, w)' <=> Edge(x, w)
    BY <1>1 DEF Edge
  <2> QED
    BY <1>1, <1>3, <1>4, <1>5, <2>1 DEF SourceTree
<1>10. time' # 0
  <2>1. Coloured \in SUBSET Vertices /\ Finished \in SUBSET Vertices /\ Coloured # {}
    BY <1>3 DEF Coloured, Finished, Tree
  <2>2. PICK c \in 0..V, e \in 0..V : c = Cardinality(Coloured) /\ e = Cardinality(Finished) /\ c # 0
    BY <2>1, SomeVertices
  <2> QED
    BY <1>1, <1>3, <2>2 DEF Timed
<1>11. Fresh' /\ BfsInv' /\ DfsInv'
  BY <1>1, <1>3, <1>4, <1>5, <1>6, <1>7, <1>8, <1>9, <1>10 DEF Fresh, BfsInv, BfsRuns, DfsInv
<1> QED
  BY <1>2, <1>5, <1>11 DEF GraphInv

\* Nothing happens.
LEMMA GraphStutters ==
  ASSUME TypeOK, GraphInv, UNCHANGED vars
  PROVE  TypeOK' /\ GraphInv'
<1>1. UNCHANGED <<adj, directed, edges, search, s, color, d, f, pi, time, Q, next, stack>>
  BY DEF vars, graphVars, searchVars
<1>2. TypeOK'
  BY <1>1 DEF TypeOK
<1>3. Coloured' = Coloured /\ Finished' = Finished /\ Unvisited' = Unvisited
  BY <1>1 DEF Coloured, Finished, Unvisited
<1>4. Within' = Within /\ \A v, x : (Descends(v, x)' <=> Descends(v, x)) /\ (Edge(v, x)' <=> Edge(v, x))
  BY <1>1, Same, SameNext
<1>5. Simple' /\ Fresh' /\ \A x, n : Seen(x, n)' <=> Seen(x, n)
  BY <1>1, <1>3 DEF GraphInv, Simple, Fresh, Seen
<1>6. Tree' <=> Tree
  BY <1>1, <1>3, Same, SameNext
<1>7. (Explored' <=> Explored) /\ (Reached' <=> Reached) /\ (Exact' <=> Exact)
  BY <1>1, <1>3, <1>4, <1>5 DEF Explored, Reached, Exact
<1>8. (Queued' <=> Queued) /\ (Stacked' <=> Stacked)
  BY <1>1, <1>5 DEF Queued, Stacked
<1>9. Timed' <=> Timed
  BY <1>1, <1>3 DEF Timed
<1>10. Parenthesis' <=> Parenthesis
  BY <1>1, <1>4 DEF Parenthesis, Open
<1>11. SourceTree' <=> SourceTree
  BY <1>1, <1>3, <1>4 DEF SourceTree
<1>12. BfsInv'
  BY <1>1, <1>6, <1>7, <1>8 DEF GraphInv, BfsInv, BfsRuns
<1>13. DfsInv'
  BY <1>1, <1>3, <1>6, <1>7, <1>8, <1>9, <1>10, <1>11 DEF GraphInv, DfsInv, DfsRuns
<1> QED
  BY <1>2, <1>5, <1>12, <1>13 DEF GraphInv

\* Every step keeps the invariant.
LEMMA GraphStep ==
  ASSUME TypeOK, GraphInv, [Next]_vars
  PROVE  TypeOK' /\ GraphInv'
<1>1. ASSUME AddRandomEdge
      PROVE  TypeOK' /\ GraphInv'
  BY <1>1, GraphBuild DEF AddRandomEdge
<1>2. ASSUME BfsEdge
      PROVE  TypeOK' /\ GraphInv'
  BY <1>2, BfsDiscovers, BfsSkips
<1>3. ASSUME DfsEdge
      PROVE  TypeOK' /\ GraphInv'
  BY <1>3, DfsDiscovers, DfsSkips
<1>4. ASSUME NEW src \in Vertices, BfsStart(src) \/ DfsStart(src)
      PROVE  TypeOK' /\ GraphInv'
  BY <1>4, GraphBfsStart, GraphDfsStart
<1> QED
  BY <1>1, <1>2, <1>3, <1>4, GraphTranspose, GraphBfsPop, GraphBfsEnd, GraphDfsReturn, GraphDfsRoot,
     GraphDfsEnd, GraphStutters DEF Next
-----------------------------------------------------------------------------
(***************************************************************************)
(* What the invariant implies.                                             *)
(***************************************************************************)
\* What is within n edges is within more.
LEMMA NearGrows ==
  ASSUME NEW g \in AdjacencyLists, NEW a \in Vertices, NEW n \in 0..V
  PROVE  Near(g, a)[n] \subseteq Near(g, a)[V]
<1>1. PICK W : W = Near(g, a)
  OBVIOUS
<1>2. /\ W \in [0..V -> SUBSET Vertices]
      /\ \A k \in 1..V : \A v \in Vertices :
           v \in W[k] <=> v \in W[k - 1] \/ \E u \in W[k - 1] : Leads(g, u, v)
  BY <1>1, NearLaw
<1>3. PICK m \in Nat : m = V - n
  BY VFacts
<1> DEFINE T == {k \in 0..m : W[n] \subseteq W[n + k]}
<1>4. 0 \in T
  BY VFacts
<1>5. ASSUME NEW k \in 0..(m - 1), k \in T
      PROVE  k + 1 \in T
  <2>1. PICK j : j = n + (k + 1)
    OBVIOUS
  <2>2. j \in 1..V /\ j - 1 = n + k /\ j \in 0..V /\ n + k \in 0..V /\ k + 1 \in 0..m
    BY <1>3, <2>1, VFacts
  <2>3. W[n + k] \subseteq W[j]
    BY <1>2, <2>2
  <2> QED
    BY <1>5, <2>1, <2>2, <2>3
<1>6. 0..m \subseteq T
  <2> HIDE DEF T
  <2> QED
    BY <1>4, <1>5, UptoInduction
<1>7. m \in T
  BY <1>6
<1>8. n + m = V
  BY <1>3, VFacts
<1> QED
  BY <1>1, <1>7, <1>8

\* The distance of a vertex is the number of edges within which it is first.
LEMMA DistanceIs ==
  ASSUME TypeOK, NEW v \in Vertices, NEW k \in 0..V, v \in Within[k],
         \A n \in 0..V : v \in Within[n] => k <= n
  PROVE  Distance(v) = k
<1>1. v \in Within[V]
  <2>1. PICK g \in AdjacencyLists, a \in Vertices : g = adj /\ a = s
    BY Types DEF TypeOK
  <2>2. Near(g, a)[k] \subseteq Near(g, a)[V]
    BY NearGrows
  <2> QED
    BY <2>1, <2>2, Same
<1> DEFINE P(n) == v \in Within[n] /\ \A m \in 0..(n - 1) : v \notin Within[m]
<1>2. P(k)
  <2>1. \A m \in 0..(k - 1) : m \in 0..V /\ ~(k <= m)
    BY VFacts
  <2> QED
    BY <2>1
<1>3. \A n \in 0..V : P(n) => n = k
  <2> SUFFICES ASSUME NEW n \in 0..V, P(n), n # k
               PROVE  FALSE
    OBVIOUS
  <2>1. k <= n
    OBVIOUS
  <2>2. k \in 0..(n - 1)
    BY <2>1, VFacts
  <2> QED
    BY <2>2
<1>4. Distance(v) = CHOOSE n \in 0..V : P(n)
  BY <1>1 DEF Distance
<1>5. (CHOOSE n \in 0..V : P(n)) = k
  <2> HIDE DEF P
  <2> QED
    BY <1>2, <1>3
<1> QED
  BY <1>4, <1>5

\* The distances of a breadth-first search.
LEMMA InvShortest ==
  ASSUME TypeOK, GraphInv
  PROVE  ShortestPaths
<1>1. ASSUME BfsRuns, NEW v \in Coloured
      PROVE  d[v] = Distance(v)
  <2>1. Exact /\ v \in Vertices
    BY <1>1 DEF GraphInv, BfsInv, Coloured
  <2>2. Coloured \in SUBSET Vertices
    BY DEF Coloured
  <2>3. PICK c \in 0..V : c = Cardinality(Coloured)
    BY <2>2, SomeVertices
  <2>4. d[v] \in 0..(c - 1) /\ v \in Within[d[v]] /\ \A n \in 0..V : v \in Within[n] => d[v] <= n
    BY <2>1, <2>3 DEF Exact
  <2>5. PICK k \in 0..V : k = d[v]
    BY <2>3, <2>4, VFacts
  <2>6. Distance(v) = k
    BY <2>1, <2>4, <2>5, DistanceIs
  <2> QED
    BY <2>5, <2>6
<1>2. ASSUME search = "done", time = 0, NEW v \in Vertices, v \notin Coloured
      PROVE  d[v] = Distance(v)
  <2>1. Simple /\ Tree /\ Explored /\ Queued /\ Exact /\ Q = <<>>
    BY <1>2 DEF GraphInv, BfsInv, BfsRuns
  <2>2. \A x \in Vertices : color[x] # "GRAY"
    BY <2>1 DEF Queued, Holds
  <2>3. PICK m \in 0..V : m = V
    BY VFacts
  <2>4. \A n \in 0..m : Within[n] \subseteq Coloured
    BY <2>1, <2>2, NearColoured DEF Tree
  <2>5. Within[V] \subseteq Coloured
    BY <2>3, <2>4, VFacts
  <2>6. Distance(v) = INT_MAX
    BY <1>2, <2>5 DEF Distance
  <2> QED
    BY <1>2, <2>1, <2>6 DEF Exact
<1>3. search = "bfs" => \A v \in Vertices : color[v] # "WHITE" => d[v] = Distance(v)
  BY <1>1 DEF Coloured, BfsRuns
<1>4. search = "done" /\ time = 0 => \A v \in Vertices : d[v] = Distance(v)
  BY <1>1, <1>2 DEF BfsRuns
<1> QED
  BY <1>3, <1>4 DEF ShortestPaths

\* A vertex that descends from the source has a path from it.
LEMMA PathFound ==
  ASSUME TypeOK, Tree, NEW v \in Vertices, Descends(v, s)
  PROVE  v \in Within[V]
<1>1. PICK g \in AdjacencyLists, a \in Vertices, p \in Parents : g = adj /\ a = s /\ p = pi
  BY Types DEF TypeOK
<1>2. PICK W, A : W = Near(g, a) /\ A = Up(p, v)
  OBVIOUS
<1>3. /\ W \in [0..V -> SUBSET Vertices] /\ W[0] = {a}
      /\ \A k \in 1..V : \A x \in Vertices :
           x \in W[k] <=> x \in W[k - 1] \/ \E u \in W[k - 1] : Leads(g, u, x)
  BY <1>2, NearLaw
<1>4. /\ A \in [0..V -> Maybe] /\ A[0] = v
      /\ \A i \in 1..V : /\ A[i - 1] = INVALID_VERTEX => A[i] = INVALID_VERTEX
                         /\ A[i - 1] # INVALID_VERTEX => A[i] = p[A[i - 1]]
  <2>1. v \in Maybe
    BY DEF Maybe
  <2> QED
    BY <1>2, <2>1, UpLaw
<1>5. PICK n \in 0..V : A[n] = a
  BY <1>1, <1>2, Same DEF Below
<1>6. \A x \in Vertices : p[x] # INVALID_VERTEX => Leads(g, p[x], x)
  BY <1>1, Same
<1> DEFINE T == {k \in 0..n : A[n - k] \in W[k]}
<1>7. n \in Nat /\ V \in Nat
  BY VFacts
<1>8. 0 \in T
  BY <1>3, <1>5, <1>7
<1>9. ASSUME NEW k \in 0..(n - 1), k \in T
      PROVE  k + 1 \in T
  <2>1. PICK i : i = n - k
    OBVIOUS
  <2>2. /\ i \in 1..V /\ i - 1 = n - (k + 1) /\ k + 1 \in 1..V /\ (k + 1) - 1 = k /\ k + 1 \in 0..n
        /\ i - 1 \in 0..V /\ k \in 0..V
    BY <1>7, <2>1
  <2>3. A[i] \in W[k] /\ A[i] \in Vertices /\ A[i] # INVALID_VERTEX
    BY <1>3, <1>9, <2>1, <2>2, VFacts
  <2>4. PICK x : x = A[i - 1]
    OBVIOUS
  <2>5. x \in Vertices /\ p[x] = A[i]
    BY <1>4, <2>2, <2>3, <2>4 DEF Maybe
  <2>6. Leads(g, A[i], x)
    BY <1>6, <2>3, <2>5
  <2>7. x \in W[k + 1]
    BY <1>3, <2>2, <2>3, <2>5, <2>6
  <2> QED
    BY <2>2, <2>4, <2>7
<1>10. 0..n \subseteq T
  <2> HIDE DEF T
  <2> QED
    BY <1>7, <1>8, <1>9, UptoInduction
<1>11. v \in W[n]
  <2>1. n \in T /\ n - n = 0
    BY <1>7, <1>10
  <2> QED
    BY <1>4, <2>1
<1>12. W[n] \subseteq W[V]
  BY <1>2, NearGrows
<1> QED
  BY <1>1, <1>2, <1>11, <1>12, Same

\* The paths of both searches.
LEMMA InvPaths ==
  ASSUME TypeOK, GraphInv
  PROVE  PathsHonest
<1> SUFFICES ASSUME search = "done", NEW v \in Vertices
             PROVE  /\ Descends(v, s) <=> v \in Within[V]
                    /\ \E n \in 0..V : Ancestors(v)[n] = INVALID_VERTEX
  BY DEF PathsHonest
<1>1. time \in Nat
  BY VFacts DEF TypeOK
<1>2. (BfsRuns \/ DfsRuns) /\ Tree /\ Simple
  BY <1>1 DEF GraphInv, BfsInv, BfsRuns, DfsInv, DfsRuns
<1>3. pi \in Parents /\ Closed(pi, Coloured) /\ Shallow(pi, Coloured) /\ s \in Coloured
  BY <1>2, Types, Same
<1>4. \E n \in 0..V : Ancestors(v)[n] = INVALID_VERTEX
  <2>1. V \in 0..V /\ 1 \in 1..V /\ 1 \in 0..V /\ V \in Int
    BY VFacts
  <2>2. CASE v \in Coloured
    <3>1. Coloured \in SUBSET Vertices
      BY DEF Coloured
    <3>2. V >= Cardinality(Coloured)
      BY <2>1, <3>1, SomeVertices
    <3>3. Up(pi, v)[V] = INVALID_VERTEX
      BY <1>3, <2>1, <2>2, <3>2 DEF Shallow
    <3> QED
      BY <2>1, <3>3, Same
  <2>3. CASE v \notin Coloured
    <3>1. pi[v] = INVALID_VERTEX
      BY <1>3, <2>3 DEF Closed
    <3>2. Up(pi, v)[1] = INVALID_VERTEX
      BY <1>3, <2>1, <3>1, RootBelow
    <3> QED
      BY <2>1, <3>2, Same
  <2> QED
    BY <2>2, <2>3
<1>5. Descends(v, s) => v \in Within[V]
  BY <1>2, PathFound
<1>6. ASSUME v \in Within[V]
      PROVE  Descends(v, s)
  <2>1. CASE BfsRuns
    <3>1. Explored /\ Queued /\ Exact /\ Reached /\ Q = <<>>
      BY <2>1 DEF GraphInv, BfsInv
    <3>2. \A x \in Vertices : color[x] # "GRAY"
      BY <3>1 DEF Queued, Holds
    <3>3. PICK m \in 0..V : m = V
      BY VFacts
    <3>4. \A n \in 0..m : Within[n] \subseteq Coloured
      BY <1>2, <1>3, <3>1, <3>2, NearColoured
    <3>5. v \in Coloured
      BY <1>6, <3>3, <3>4, VFacts
    <3> QED
      BY <3>1, <3>5 DEF Reached
  <2>2. CASE DfsRuns
    <3>1. Stacked /\ SourceTree /\ stack = <<>>
      BY <2>2 DEF GraphInv, DfsInv
    <3>2. color[s] = "BLACK" /\ s \in Vertices
      BY <1>3, <3>1 DEF Stacked, Coloured, TypeOK
    <3>3. PICK D : D = {x \in Vertices : Descends(x, s)}
      OBVIOUS
    <3>4. s \in D /\ \A x, w \in Vertices : x \in D /\ Edge(x, w) => w \in D
      <4>1. Below(pi, s, s)
        <5>1. Up(pi, s)[0] = s
          BY <1>3, <3>2, UpLaw DEF Maybe
        <5>2. 0 \in 0..V
          BY VFacts
        <5> QED
          BY <5>1, <5>2 DEF Below
      <4>2. \A x, w \in Vertices : Descends(x, s) /\ Edge(x, w) => Descends(w, s)
        BY <3>1, <3>2 DEF SourceTree
      <4> QED
        BY <3>2, <3>3, <4>1, <4>2, Same
    <3>5. PICK W : W = Within
      OBVIOUS
    <3>6. /\ W \in [0..V -> SUBSET Vertices] /\ W[0] = {s}
          /\ \A n \in 1..V : \A x \in Vertices :
               x \in W[n] <=> x \in W[n - 1] \/ \E u \in W[n - 1] : Edge(u, x)
      <4>1. adj \in AdjacencyLists
        BY Types
      <4> QED
        BY <3>2, <3>5, <4>1, Same, NearLaw
    <3> DEFINE T == {n \in 0..V : W[n] \subseteq D}
    <3>7. V \in Nat
      BY VFacts
    <3>8. 0 \in T
      BY <3>4, <3>6, <3>7
    <3>9. ASSUME NEW k \in 0..(V - 1), k \in T
          PROVE  k + 1 \in T
      <4>1. k + 1 \in 1..V /\ k + 1 \in 0..V /\ (k + 1) - 1 = k /\ k \in 0..V
        BY <3>7
      <4>2. \A x \in W[k + 1] : x \in Vertices
        BY <3>6, <4>1
      <4>3. \A x \in W[k] : x \in Vertices
        BY <3>6, <4>1
      <4>4. \A x \in W[k + 1] : x \in W[k] \/ \E u \in W[k] : Edge(u, x)
        BY <3>6, <4>1, <4>2
      <4>5. W[k + 1] \subseteq D
        BY <3>4, <3>9, <4>2, <4>3, <4>4
      <4> QED
        BY <4>1, <4>5
    <3>10. 0..V \subseteq T
      <4> HIDE DEF T
      <4> QED
        BY <3>7, <3>8, <3>9, UptoInduction
    <3>11. V \in T
      BY <3>7, <3>10
    <3> QED
      BY <1>6, <3>3, <3>5, <3>11
  <2> QED
    BY <1>2, <2>1, <2>2
<1> QED
  BY <1>4, <1>5, <1>6
-----------------------------------------------------------------------------
\* The invariant holds of every behaviour of the graph library.
THEOREM GraphInvHolds == Spec => [](TypeOK /\ GraphInv)
<1>1. Init => TypeOK /\ GraphInv
  BY GraphInit
<1>2. TypeOK /\ GraphInv /\ [Next]_vars => (TypeOK /\ GraphInv)'
  BY GraphStep
<1> QED
  BY <1>1, <1>2, PTL DEF Spec

\* No index that Graph, BreadthFirstSearch or DepthFirstSearch uses leaves its range,
\* and the clock of a depth-first search ticks at most twice for each vertex.
THEOREM GraphTypes == Spec => []TypeOK
  BY GraphInvHolds, PTL

\* BreadthFirstSearch finds the lengths of shortest paths, in every graph: when it
\* discovers a vertex, and of all vertices that can be reached when it ends.
THEOREM BfsFindsShortestPaths == Spec => []ShortestPaths
<1>1. TypeOK /\ GraphInv => ShortestPaths
  BY InvShortest
<1> QED
  BY <1>1, GraphInvHolds, PTL

\* printPath ends, and prints a path exactly for the vertices that can be reached,
\* whichever search has written pi.
THEOREM PrintPathHonest == Spec => []PathsHonest
<1>1. TypeOK /\ GraphInv => PathsHonest
  BY InvPaths
<1> QED
  BY <1>1, GraphInvHolds, PTL

\* The times of DepthFirstSearch nest as the tree of parents does.
THEOREM DfsTimesNest == Spec => []Parenthesis
<1>1. TypeOK /\ GraphInv => Parenthesis
  BY DEF GraphInv, DfsInv, DfsRuns, Parenthesis
<1> QED
  BY <1>1, GraphInvHolds, PTL
=============================================================================
