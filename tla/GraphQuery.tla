------------------------------ MODULE GraphQuery ------------------------------
(***************************************************************************)
(* The two queries of the authorization graph that search it:              *)
(* AuthorizationGraph.shortest_path (app/graph/models.py), breadth first   *)
(* over edges taken in either direction, and find_manager_chain            *)
(* (app/graph/query.py).  Edges of a node are visited in the order of      *)
(* their ids as strings, which depends on everything built before them:    *)
(* Position is any order.                                                  *)
(***************************************************************************)
EXTENDS Naturals, Sequences, FiniteSets

CONSTANTS
    QueryNodes,    \* nodes there may be
    QueryEdges,    \* edges there may be: [source, target, type]
    Position(_)    \* a number: where the id of an edge sorts

VARIABLE search

Trail == [nodes : Seq(QueryNodes), edges : Seq(QueryEdges)]
NoTrail == [nodes |-> <<>>, edges |-> <<>>]

(* queue holds the trails to nodes yet to be visited, here the trail to    *)
(* the one whose edges todo are being visited; chain is a manager chain.   *)
Resting == [pc |-> "idle", graph |-> [nodes |-> {}, edges |-> {}], ends |-> <<>>,
            queue |-> <<>>, visited |-> {}, here |-> NoTrail, todo |-> {}, found |-> FALSE]

QueryInit == search = Resting

Last(s) == s[Len(s)]

Stands(label) == search.pc = label
Becomes(s) == search' = s
Answers(found) == Becomes([search EXCEPT !.pc = "done", !.found = found, !.queue = <<>>,
                                         !.todo = {}])

EdgesFor(graph, node) == {e \in graph.edges : e.source = node \/ e.target = node}
Managers(graph, node) == {e \in graph.edges : e.source = node /\ e.type = "MANAGED_BY"}
First(es) == {e \in es : \A d \in es : Position(e) <= Position(d)}

(* Mutant: edges lead from their source to their target only. *)
NeighbourForward(e, node) == e.target

Neighbour(e, node) == IF e.source = node THEN e.target ELSE e.source

-----------------------------------------------------------------------------
(* shortest_path.  A path to a node that is not there is not found.        *)
BeginPath(graph, source, target) ==
    /\ Stands("idle")
    /\ LET known == source \in graph.nodes /\ target \in graph.nodes IN
       Becomes([Resting EXCEPT
           !.pc = IF known THEN "next" ELSE "done", !.graph = graph,
           !.ends = <<source, target>>,
           !.queue = IF known THEN <<[nodes |-> <<source>>, edges |-> <<>>]>> ELSE <<>>,
           !.visited = IF known THEN {source} ELSE {}])

(* Mutant: the queue is a stack.                                           *)
PopNewest ==
    /\ Stands("next") /\ search.queue # <<>>
    /\ LET trail == Last(search.queue) IN
       IF Last(trail.nodes) = search.ends[2]
         THEN search' = [search EXCEPT !.pc = "done", !.found = TRUE, !.queue = <<>>,
                                       !.here = trail]
         ELSE Becomes([search EXCEPT !.pc = "visit", !.here = trail,
                                     !.queue = SubSeq(@, 1, Len(@) - 1),
                                     !.todo = EdgesFor(search.graph, Last(trail.nodes))])

Pop ==
    /\ Stands("next") /\ search.queue # <<>>
    /\ LET trail == Head(search.queue) IN
       IF Last(trail.nodes) = search.ends[2]
         THEN search' = [search EXCEPT !.pc = "done", !.found = TRUE, !.queue = <<>>,
                                       !.here = trail]
         ELSE Becomes([search EXCEPT !.pc = "visit", !.here = trail, !.queue = Tail(@),
                                     !.todo = EdgesFor(search.graph, Last(trail.nodes))])

NotFound ==
    /\ Stands("next") /\ search.queue = <<>>
    /\ Answers(FALSE)

Visit ==
    LET node == Last(search.here.nodes) IN
    /\ Stands("visit") /\ search.todo # {}
    /\ \E e \in First(search.todo) :
         LET next  == Neighbour(e, node)
             trail == [nodes |-> Append(search.here.nodes, next),
                       edges |-> Append(search.here.edges, e)]
         IN  IF next \in search.visited
               THEN Becomes([search EXCEPT !.todo = @ \ {e}])
               ELSE Becomes([search EXCEPT !.todo = @ \ {e}, !.visited = @ \cup {next},
                                           !.queue = Append(@, trail)])

Visited ==
    /\ Stands("visit") /\ search.todo = {}
    /\ Becomes([search EXCEPT !.pc = "next"])

-----------------------------------------------------------------------------
(* find_manager_chain: here.nodes is the user and the chain, visited seen. *)
BeginChain(graph, user) ==
    /\ Stands("idle")
    /\ Becomes([Resting EXCEPT !.pc = "climb", !.graph = graph, !.ends = <<user>>,
                               !.visited = {user},
                               !.here = [nodes |-> <<user>>, edges |-> <<>>]])

Climb ==
    LET up == Managers(search.graph, Last(search.here.nodes)) IN
    /\ Stands("climb")
    /\ IF up = {} THEN Answers(TRUE)
       ELSE \E e \in First(up) :
              IF e.target \in search.visited THEN Answers(TRUE)
              ELSE Becomes([search EXCEPT !.visited = @ \cup {e.target},
                                          !.here = [nodes |-> Append(@.nodes, e.target),
                                                    edges |-> Append(@.edges, e)]])

Finish ==
    /\ Stands("done")
    /\ Becomes(Resting)

QueryStep == Pop \/ NotFound \/ Visit \/ Visited \/ Climb
-----------------------------------------------------------------------------
SomeGraph == {g \in [nodes : SUBSET QueryNodes, edges : SUBSET QueryEdges] :
                \A e \in g.edges : e.source \in g.nodes /\ e.target \in g.nodes}

Begin ==
    /\ Stands("idle")
    /\ \E g \in SomeGraph : \/ \E s, t \in QueryNodes : BeginPath(g, s, t)
                            \/ \E u \in QueryNodes : BeginChain(g, u)

QueryNext ==
    \/ Begin
    \/ QueryStep
    \/ Finish

QuerySpec == QueryInit /\ [][QueryNext]_search

(* The thread that searches goes on.                                       *)
QueryFairness == WF_search(QueryStep)

Searches ==
    [pc : {"idle", "next", "visit", "climb", "done"},
     graph : [nodes : SUBSET QueryNodes, edges : SUBSET QueryEdges], ends : Seq(QueryNodes),
     queue : Seq(Trail), visited : SUBSET QueryNodes, here : Trail, todo : SUBSET QueryEdges,
     found : BOOLEAN]

QueryTypeOK ==
    /\ search \in Searches
    /\ search.todo \subseteq search.graph.edges
    /\ \A e \in search.graph.edges :
         e.source \in search.graph.nodes /\ e.target \in search.graph.nodes

(* A trail through the graph from a node: edge i joins nodes i and i + 1.  *)
IsTrail(graph, node, trail) ==
    /\ Len(trail.nodes) = Len(trail.edges) + 1
    /\ trail.nodes[1] = node
    /\ \A i \in 1..Len(trail.edges) :
         LET e == trail.edges[i] IN
         /\ e \in graph.edges
         /\ \/ e.source = trail.nodes[i] /\ e.target = trail.nodes[i + 1]
            \/ e.target = trail.nodes[i] /\ e.source = trail.nodes[i + 1]

(* Nothing leads out of the set.                                           *)
Closed(graph, S) == \A e \in graph.edges : e.source \in S <=> e.target \in S

Adjacent(graph, v, w) == \E e \in graph.edges : {e.source, e.target} = {v, w}

(* The ways through the graph over n nodes.                                *)
Walks(graph, n) ==
    {w \in [1..n -> graph.nodes] : \A i \in 1..(n - 1) : Adjacent(graph, w[i], w[i + 1])}

PathAnswered == Stands("done") /\ Len(search.ends) = 2
Known == search.ends[1] \in search.graph.nodes /\ search.ends[2] \in search.graph.nodes

(***************************************************************************)
(* docs/graph.md: "shortest path traversal treats relationships as         *)
(* navigable in either direction so users can find how two graph nodes are *)
(* connected".  What is returned is a way through the graph between the    *)
(* two nodes; if nothing is, no way exists: a set of nodes nothing leads   *)
(* out of separates them.                                                  *)
(***************************************************************************)
PathsConnect ==
    PathAnswered =>
        IF search.found
          THEN /\ IsTrail(search.graph, search.ends[1], search.here)
               /\ Last(search.here.nodes) = search.ends[2]
          ELSE Known => /\ Closed(search.graph, search.visited)
                        /\ search.ends[1] \in search.visited
                        /\ search.ends[2] \notin search.visited

(***************************************************************************)
(* "shortest_path": no way between the two nodes has fewer nodes than the  *)
(* one returned.                                                           *)
(***************************************************************************)
PathsAreShortest ==
    PathAnswered /\ search.found =>
        \A n \in 1..(Len(search.here.nodes) - 1) : \A w \in Walks(search.graph, n) :
            ~(w[1] = search.ends[1] /\ w[n] = search.ends[2])

(***************************************************************************)
(* A manager chain goes from manager to manager, names nobody twice and    *)
(* ends with somebody who has no manager or whose manager it names.  The   *)
(* managers of the tables may form a cycle (overlapping requests can close *)
(* one), also one the user is not on.                                      *)
(***************************************************************************)
ChainsClimb ==
    Stands("done") /\ Len(search.ends) = 1 =>
        LET chain == search.here.nodes IN
        /\ \A i \in 1..(Len(chain) - 1) :
             \E e \in Managers(search.graph, chain[i]) : e.target = chain[i + 1]
        /\ \A i, j \in 1..Len(chain) : chain[i] = chain[j] => i = j
        /\ \/ Managers(search.graph, Last(chain)) = {}
           \/ \E e \in Managers(search.graph, Last(chain)), i \in 1..Len(chain) :
                 e.target = chain[i]

AnswersAreRight == PathsConnect /\ ChainsClimb

(***************************************************************************)
(* A search ends, whatever cycles the graph has.                           *)
(***************************************************************************)
SearchesEnd == ~Stands("idle") /\ ~Stands("done") ~> Stands("done")
=============================================================================
