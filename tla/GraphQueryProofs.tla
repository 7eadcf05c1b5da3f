--------------------------- MODULE GraphQueryProofs ---------------------------
(***************************************************************************)
(* Proofs about the searches of the authorization graph, for every graph.  *)
(* While a path is sought, every trail in the queue leads from the source  *)
(* to a visited node, and a visited node is queued, in hand, or done with: *)
(* then it is not the target and all its neighbours are visited.  So an    *)
(* empty queue leaves a closed set of visited nodes without the target.    *)
(* The nodes visited have levels that differ by one at most along an edge  *)
(* and by which the queue is sorted, so the path found is a shortest one.  *)
(***************************************************************************)
EXTENDS GraphQuery, TLAPS, SequenceTheorems, WellFoundedInduction

Ends(t) == t.nodes[Len(t.nodes)]

(* The neighbours of a node are visited, through the edges es.             *)
Expanded(es) == \A e \in es : e.source \in search.visited /\ e.target \in search.visited

Queued(v) == \E i \in 1..Len(search.queue) : Ends(search.queue[i]) = v

Leads(t) == IsTrail(search.graph, search.ends[1], t) /\ Ends(t) \in search.visited

Seeking ==
    search.pc \in {"next", "visit"} =>
        /\ Len(search.ends) = 2 /\ search.ends[1] \in search.visited
        /\ \A i \in 1..Len(search.queue) : Leads(search.queue[i])
        /\ \A v \in search.visited :
             \/ Queued(v)
             \/ search.pc = "visit" /\ v = Ends(search.here)
             \/ v # search.ends[2] /\ Expanded(EdgesFor(search.graph, v))

InHand ==
    search.pc = "visit" =>
        /\ Leads(search.here)
        /\ Ends(search.here) # search.ends[2]
        /\ search.todo \subseteq EdgesFor(search.graph, Ends(search.here))
        /\ Expanded(EdgesFor(search.graph, Ends(search.here)) \ search.todo)

Chained ==
    \A i \in 1..(Len(search.here.nodes) - 1) :
        \E e \in Managers(search.graph, search.here.nodes[i]) :
            e.target = search.here.nodes[i + 1]

Distinct ==
    \A i, j \in 1..Len(search.here.nodes) :
        search.here.nodes[i] = search.here.nodes[j] => i = j

Climbing ==
    search.pc = "climb" =>
        /\ Len(search.ends) = 1 /\ Len(search.here.nodes) >= 1
        /\ Chained /\ Distinct
        /\ \A v \in search.visited : \E i \in 1..Len(search.here.nodes) :
              search.here.nodes[i] = v
        /\ \A i \in 1..Len(search.here.nodes) : search.here.nodes[i] \in search.visited

QInv == QueryTypeOK /\ Seeking /\ InHand /\ Climbing /\ AnswersAreRight

-----------------------------------------------------------------------------
LEMMA InitInv == QueryInit => QInv
  BY DEF QueryInit, QInv, QueryTypeOK, Searches, Resting, NoTrail, Trail, Seeking, InHand,
         Climbing, AnswersAreRight, PathsConnect, ChainsClimb, PathAnswered, Stands

LEMMA BeginPathInv ==
  ASSUME QInv, NEW g \in SomeGraph, NEW s \in QueryNodes, NEW t \in QueryNodes, BeginPath(g, s, t)
  PROVE  QInv'
<1> DEFINE known == s \in g.nodes /\ t \in g.nodes
<1>1. /\ search'.pc = IF known THEN "next" ELSE "done"
      /\ search'.graph = g /\ search'.ends = <<s, t>>
      /\ search'.queue = IF known THEN <<[nodes |-> <<s>>, edges |-> <<>>]>> ELSE <<>>
      /\ search'.visited = IF known THEN {s} ELSE {}
      /\ search'.here = NoTrail /\ search'.todo = {} /\ search'.found = FALSE
      /\ DOMAIN search' = DOMAIN Resting
  BY DEF BeginPath, Becomes, Resting
<1>2. QueryTypeOK'
  <2>1. search' = [pc |-> IF known THEN "next" ELSE "done", graph |-> g, ends |-> <<s, t>>,
                   queue |-> IF known THEN <<[nodes |-> <<s>>, edges |-> <<>>]>> ELSE <<>>,
                   visited |-> IF known THEN {s} ELSE {}, here |-> NoTrail, todo |-> {},
                   found |-> FALSE]
    BY DEF BeginPath, Becomes, Resting
  <2>2. [nodes |-> <<s>>, edges |-> <<>>] \in Trail /\ NoTrail \in Trail
    BY DEF Trail, NoTrail
  <2> HIDE DEF known
  <2>3. (IF known THEN <<[nodes |-> <<s>>, edges |-> <<>>]>> ELSE <<>>) \in Seq(Trail)
    BY <2>2
  <2>4. search' \in Searches
    BY <2>1, <2>2, <2>3 DEF Searches, SomeGraph
  <2> QED BY <2>4, <1>1 DEF QueryTypeOK, SomeGraph
<1>3. Seeking'
  <2> SUFFICES ASSUME known PROVE Seeking'
    BY <1>1 DEF Seeking
  <2> DEFINE first == [nodes |-> <<s>>, edges |-> <<>>]
  <2>1. search'.queue = <<first>> /\ search'.visited = {s} /\ search'.ends = <<s, t>>
        /\ search'.pc = "next"
    BY <1>1
  <2>2. Ends(first) = s /\ IsTrail(g, s, first)
    BY DEF Ends, IsTrail
  <2> HIDE DEF first
  <2>3. Len(search'.queue) = 1 /\ search'.queue[1] = first
    BY <2>1
  <2>4. \A i \in 1..Len(search'.queue) : search'.queue[i] = first
    BY <2>3
  <2>5. \A i \in 1..Len(search'.queue) : Leads(search.queue[i])'
    <3> SUFFICES ASSUME NEW i \in 1..Len(search'.queue)
                 PROVE  IsTrail(search'.graph, search'.ends[1], search'.queue[i])
                        /\ Ends(search'.queue[i]) \in search'.visited
      BY DEF Leads
    <3> QED BY <1>1, <2>1, <2>2, <2>4
  <2>6. \A v \in search'.visited : Queued(v)'
    BY <2>1, <2>2, <2>3 DEF Queued
  <2> QED BY <1>1, <2>1, <2>5, <2>6 DEF Seeking
<1>4. InHand' /\ Climbing'
  BY <1>1 DEF InHand, Climbing
<1>5. AnswersAreRight'
  BY <1>1 DEF AnswersAreRight, PathsConnect, ChainsClimb, PathAnswered, Stands, Known
<1> QED BY <1>2, <1>3, <1>4, <1>5 DEF QInv

LEMMA BeginChainInv ==
  ASSUME QInv, NEW g \in SomeGraph, NEW u \in QueryNodes, BeginChain(g, u)
  PROVE  QInv'
<1>1. search' = [pc |-> "climb", graph |-> g, ends |-> <<u>>, queue |-> <<>>, visited |-> {u},
                 here |-> [nodes |-> <<u>>, edges |-> <<>>], todo |-> {}, found |-> FALSE]
  BY DEF BeginChain, Becomes, Resting
<1>2. QueryTypeOK'
  <2>1. [nodes |-> <<u>>, edges |-> <<>>] \in Trail
    BY DEF Trail
  <2> QED BY <1>1, <2>1 DEF QueryTypeOK, Searches, SomeGraph
<1>3. Seeking' /\ InHand' /\ AnswersAreRight'
  BY <1>1 DEF Seeking, InHand, AnswersAreRight, PathsConnect, ChainsClimb, PathAnswered, Stands
<1>4. Climbing'
  <2>1. search'.here.nodes = <<u>> /\ search'.visited = {u} /\ search'.ends = <<u>>
    BY <1>1
  <2> QED BY <2>1 DEF Climbing, Chained, Distinct
<1> QED BY <1>2, <1>3, <1>4 DEF QInv

LEMMA FinishInv ==
  ASSUME QInv, Finish PROVE QInv'
  BY DEF Finish, Becomes, QInv, QueryTypeOK, Searches, Resting, NoTrail, Trail, Seeking,
         InHand, Climbing, AnswersAreRight, PathsConnect, ChainsClimb, PathAnswered, Stands

LEMMA PopInv ==
  ASSUME QInv, Pop PROVE QInv'
<1> DEFINE trail == search.queue[1]
<1>1. /\ search.pc = "next" /\ search.queue \in Seq(Trail) /\ search.queue # <<>>
      /\ search \in Searches /\ QueryTypeOK /\ Head(search.queue) = trail
  BY DEF Pop, Stands, QInv, QueryTypeOK, Searches
<1>2. /\ Len(search.queue) \in Nat /\ Len(search.queue) >= 1 /\ trail \in Trail
      /\ Tail(search.queue) \in Seq(Trail) /\ Len(Tail(search.queue)) = Len(search.queue) - 1
      /\ \A i \in 1..(Len(search.queue) - 1) : Tail(search.queue)[i] = search.queue[i + 1]
  BY <1>1
<1>3. Leads(trail) /\ Seeking
  BY <1>1, <1>2 DEF QInv, Seeking
<1> HIDE DEF trail
<1>4. CASE Ends(trail) = search.ends[2]
  <2>1. search' = [search EXCEPT !.pc = "done", !.found = TRUE, !.queue = <<>>, !.here = trail]
    BY <1>1, <1>4 DEF Pop, Last, Ends
  <2>2. /\ search'.pc = "done" /\ search'.found /\ search'.here = trail
        /\ search'.ends = search.ends /\ search'.graph = search.graph
        /\ search'.todo = search.todo
    BY <1>1, <2>1 DEF Searches
  <2>3. QueryTypeOK'
    <3>1. <<>> \in Seq(Trail)
      OBVIOUS
    <3>2. search' \in Searches
      BY <1>1, <1>2, <2>1, <3>1 DEF Searches
    <3> QED BY <3>2, <2>2, <1>1 DEF QueryTypeOK
  <2>4. AnswersAreRight'
    <3>1. Len(search.ends) = 2
      BY <1>1, <1>3 DEF Seeking
    <3> QED BY <2>2, <1>3, <1>4, <3>1 DEF AnswersAreRight, PathsConnect, ChainsClimb,
                                         PathAnswered, Stands, Leads, Ends, Last
  <2> QED BY <2>2, <2>3, <2>4 DEF QInv, Seeking, InHand, Climbing
<1>5. CASE Ends(trail) # search.ends[2]
  <2>1. search' = [search EXCEPT !.pc = "visit", !.here = trail, !.queue = Tail(search.queue),
                                 !.todo = EdgesFor(search.graph, Ends(trail))]
    BY <1>1, <1>5 DEF Pop, Last, Ends, Becomes
  <2>2. /\ search'.pc = "visit" /\ search'.here = trail /\ search'.visited = search.visited
        /\ search'.ends = search.ends /\ search'.graph = search.graph
        /\ search'.queue = Tail(search.queue)
        /\ search'.todo = EdgesFor(search.graph, Ends(trail))
    BY <1>1, <2>1 DEF Searches
  <2>3. QueryTypeOK'
    <3>1. /\ EdgesFor(search.graph, Ends(trail)) \subseteq search.graph.edges
          /\ search.graph.edges \subseteq QueryEdges
      BY <1>1 DEF EdgesFor, Searches
    <3>2. search' \in Searches
      BY <1>1, <1>2, <2>1, <3>1 DEF Searches
    <3> QED BY <3>1, <3>2, <2>2, <1>1 DEF QueryTypeOK
  <2>4. Seeking'
    <3>1. \A i \in 1..Len(search'.queue) : Leads(search.queue[i])'
      <4> SUFFICES ASSUME NEW i \in 1..Len(search'.queue) PROVE Leads(search.queue[i])'
        OBVIOUS
      <4>1. i + 1 \in 1..Len(search.queue) /\ search'.queue[i] = search.queue[i + 1]
        BY <1>2, <2>2
      <4>2. Leads(search.queue[i + 1])
        BY <4>1, <1>1, <1>3 DEF Seeking
      <4> QED BY <4>1, <4>2, <2>2 DEF Leads
    <3>2. ASSUME NEW v \in search.visited
          PROVE  \/ Queued(v)'
                 \/ v = Ends(trail)
                 \/ v # search.ends[2] /\ Expanded(EdgesFor(search.graph, v))
      <4>1. ASSUME Queued(v), v # Ends(trail) PROVE Queued(v)'
        <5>1. PICK i \in 1..Len(search.queue) : Ends(search.queue[i]) = v
          BY <4>1 DEF Queued
        <5>2. i # 1
          BY <4>1, <5>1 DEF trail
        <5>3. /\ i - 1 \in 1..Len(search'.queue)
              /\ search'.queue[i - 1] = search.queue[i]
          BY <5>2, <1>2, <2>2
        <5> QED BY <5>1, <5>3 DEF Queued
      <4> QED BY <4>1, <1>1, <1>3 DEF Seeking
    <3>3. \A v \in search.visited : Expanded(EdgesFor(search.graph, v)) =>
                                     Expanded(EdgesFor(search.graph, v))'
      BY <2>2 DEF Expanded
    <3> QED BY <3>1, <3>2, <1>1, <1>3, <2>2 DEF Seeking, Expanded
  <2>5. InHand'
    BY <2>2, <1>3, <1>5 DEF InHand, Leads, Expanded
  <2> QED BY <2>2, <2>3, <2>4, <2>5 DEF QInv, Climbing, AnswersAreRight, PathsConnect,
                                        ChainsClimb, PathAnswered, Stands
<1> QED BY <1>4, <1>5

LEMMA NotFoundInv ==
  ASSUME QInv, NotFound PROVE QInv'
<1>1. /\ search.pc = "next" /\ search.queue = <<>> /\ search \in Searches
      /\ QueryTypeOK /\ Seeking
  BY DEF NotFound, Stands, QInv, QueryTypeOK
<1>2. search' = [search EXCEPT !.pc = "done", !.found = FALSE, !.queue = <<>>, !.todo = {}]
  BY DEF NotFound, Answers, Becomes
<1>3. /\ search'.pc = "done" /\ search'.found = FALSE /\ search'.visited = search.visited
      /\ search'.ends = search.ends /\ search'.graph = search.graph /\ search'.todo = {}
  BY <1>1, <1>2 DEF Searches
<1>4. QueryTypeOK'
  <2>1. search' \in Searches
    BY <1>1, <1>2 DEF Searches
  <2> QED BY <2>1, <1>1, <1>3 DEF QueryTypeOK
<1>5. \A v \in search.visited : v # search.ends[2] /\ Expanded(EdgesFor(search.graph, v))
  BY <1>1 DEF Seeking, Queued
<1>6. Closed(search.graph, search.visited)
  BY <1>5 DEF Closed, Expanded, EdgesFor
<1>7. AnswersAreRight'
  BY <1>1, <1>3, <1>5, <1>6 DEF AnswersAreRight, PathsConnect, ChainsClimb, PathAnswered,
                                Stands, Seeking
<1> QED BY <1>3, <1>4, <1>7 DEF QInv, Seeking, InHand, Climbing

LEMMA VisitedInv ==
  ASSUME QInv, Visited PROVE QInv'
<1>1. /\ search.pc = "visit" /\ search.todo = {} /\ search \in Searches
      /\ QueryTypeOK /\ Seeking /\ InHand
      /\ search' = [search EXCEPT !.pc = "next"]
  BY DEF Visited, Stands, QInv, QueryTypeOK, Becomes
<1>2. /\ search'.pc = "next" /\ search'.visited = search.visited
      /\ search'.ends = search.ends /\ search'.graph = search.graph
      /\ search'.todo = search.todo /\ search'.queue = search.queue
  BY <1>1 DEF Searches
<1>3. QueryTypeOK'
  <2>1. search' \in Searches
    BY <1>1 DEF Searches
  <2> QED BY <2>1, <1>1, <1>2 DEF QueryTypeOK
<1>4. Ends(search.here) # search.ends[2] /\ Expanded(EdgesFor(search.graph, Ends(search.here)))
  BY <1>1 DEF InHand, Expanded
<1>5. Seeking'
  BY <1>1, <1>2, <1>4 DEF Seeking, Queued, Leads, Expanded
<1> QED BY <1>2, <1>3, <1>5 DEF QInv, InHand, Climbing, AnswersAreRight, PathsConnect,
                                ChainsClimb, PathAnswered, Stands

LEMMA VisitInv ==
  ASSUME QInv, Visit PROVE QInv'
<1> DEFINE node == Ends(search.here)
<1>1. /\ search.pc = "visit" /\ search \in Searches /\ QueryTypeOK /\ Seeking /\ InHand
      /\ Len(search.ends) = 2
  BY DEF Visit, Stands, QInv, QueryTypeOK, Seeking
<1>2. PICK e \in First(search.todo) :
        LET next  == Neighbour(e, node)
            trail == [nodes |-> Append(search.here.nodes, next),
                      edges |-> Append(search.here.edges, e)]
        IN  IF next \in search.visited
              THEN search' = [search EXCEPT !.todo = search.todo \ {e}]
              ELSE search' = [search EXCEPT !.todo = search.todo \ {e},
                                            !.visited = search.visited \cup {next},
                                            !.queue = Append(search.queue, trail)]
  BY DEF Visit, Becomes, Last, Ends
<1> DEFINE next  == Neighbour(e, node)
           trail == [nodes |-> Append(search.here.nodes, next),
                     edges |-> Append(search.here.edges, e)]
<1>3. /\ e \in search.todo /\ e \in search.graph.edges
      /\ e.source \in QueryNodes /\ e.target \in QueryNodes /\ e \in QueryEdges
  BY <1>1 DEF First, QueryTypeOK, Searches
<1>4. /\ next \in QueryNodes
      /\ \/ e.source = node /\ e.target = next
         \/ e.target = node /\ e.source = next
  BY <1>1, <1>3 DEF Neighbour, InHand, EdgesFor
<1>5. Leads(search.here) /\ node \in search.visited /\ node # search.ends[2]
  BY <1>1 DEF InHand, Leads
<1>6. CASE next \in search.visited
  <2>1. search' = [search EXCEPT !.todo = search.todo \ {e}]
    BY <1>2, <1>6
  <2>2. /\ search'.pc = "visit" /\ search'.here = search.here
        /\ search'.visited = search.visited /\ search'.queue = search.queue
        /\ search'.ends = search.ends /\ search'.graph = search.graph
        /\ search'.todo = search.todo \ {e}
    BY <1>1, <2>1 DEF Searches
  <2>3. QueryTypeOK'
    <3>1. search' \in Searches
      BY <1>1, <2>1 DEF Searches
    <3> QED BY <3>1, <2>2, <1>1 DEF QueryTypeOK
  <2>4. Seeking'
    BY <1>1, <2>2 DEF Seeking, Queued, Leads, Expanded
  <2>5. InHand'
    BY <1>1, <2>2, <1>4, <1>5, <1>6 DEF InHand, Leads, Expanded
  <2> QED BY <2>2, <2>3, <2>4, <2>5 DEF QInv, Climbing, AnswersAreRight, PathsConnect,
                                        ChainsClimb, PathAnswered, Stands
<1>7. CASE next \notin search.visited
  <2>1. search' = [search EXCEPT !.todo = search.todo \ {e},
                                 !.visited = search.visited \cup {next},
                                 !.queue = Append(search.queue, trail)]
    BY <1>2, <1>7
  <2>2. /\ search'.pc = "visit" /\ search'.here = search.here
        /\ search'.visited = search.visited \cup {next}
        /\ search'.queue = Append(search.queue, trail)
        /\ search'.ends = search.ends /\ search'.graph = search.graph
        /\ search'.todo = search.todo \ {e}
    BY <1>1, <2>1 DEF Searches
  <2>3. /\ trail \in Trail
        /\ search.here.nodes \in Seq(QueryNodes) /\ search.here.edges \in Seq(QueryEdges)
        /\ search.queue \in Seq(Trail)
    BY <1>1, <1>3, <1>4 DEF Searches, Trail
  <2>4. Ends(trail) = next /\ IsTrail(search.graph, search.ends[1], trail)
    <3>1. /\ Len(trail.nodes) = Len(search.here.nodes) + 1
          /\ Len(trail.edges) = Len(search.here.edges) + 1
          /\ Len(search.here.nodes) = Len(search.here.edges) + 1
          /\ Len(search.here.edges) \in Nat
      BY <2>3, <1>5, SMTT(30) DEF Leads, IsTrail
    <3>2. /\ \A i \in 1..Len(search.here.nodes) : trail.nodes[i] = search.here.nodes[i]
          /\ \A i \in 1..Len(search.here.edges) : trail.edges[i] = search.here.edges[i]
          /\ trail.nodes[Len(search.here.nodes) + 1] = next
          /\ trail.edges[Len(search.here.edges) + 1] = e
      BY <2>3
    <3>3. trail.nodes[1] = search.ends[1]
      BY <3>1, <3>2, <1>5 DEF Leads, IsTrail
    <3>4. ASSUME NEW i \in 1..Len(trail.edges)
          PROVE  /\ trail.edges[i] \in search.graph.edges
                 /\ \/ /\ trail.edges[i].source = trail.nodes[i]
                       /\ trail.edges[i].target = trail.nodes[i + 1]
                    \/ /\ trail.edges[i].target = trail.nodes[i]
                       /\ trail.edges[i].source = trail.nodes[i + 1]
      <4> HIDE DEF trail, next
      <4>1. CASE i = Len(search.here.edges) + 1
        BY <4>1, <3>1, <3>2, <1>3, <1>4 DEF Ends
      <4>2. CASE i # Len(search.here.edges) + 1
        <5>1. i \in 1..Len(search.here.edges)
          BY <4>2, <3>1
        <5>2. i \in 1..Len(search.here.nodes) /\ i + 1 \in 1..Len(search.here.nodes)
          BY <5>1, <3>1
        <5> QED BY <5>1, <5>2, <3>2, <1>5 DEF Leads, IsTrail
      <4> QED BY <4>1, <4>2
    <3> HIDE DEF trail, next
    <3>5. Ends(trail) = next
      BY <3>1, <3>2 DEF Ends
    <3> QED BY <3>1, <3>3, <3>4, <3>5 DEF IsTrail
  <2> HIDE DEF trail, next
  <2>5. /\ Len(search'.queue) = Len(search.queue) + 1 /\ Len(search.queue) \in Nat
        /\ \A i \in 1..Len(search.queue) : search'.queue[i] = search.queue[i]
        /\ search'.queue[Len(search.queue) + 1] = trail
    BY <2>2, <2>3
  <2>6. QueryTypeOK'
    <3>1. /\ search.visited \cup {next} \in SUBSET QueryNodes
          /\ Append(search.queue, trail) \in Seq(Trail)
          /\ search.todo \ {e} \in SUBSET QueryEdges
      BY <1>1, <1>4, <2>3 DEF Searches
    <3>2. search' \in Searches
      BY <1>1, <2>1, <3>1 DEF Searches
    <3> QED BY <3>2, <2>2, <1>1 DEF QueryTypeOK
  <2>7. Seeking'
    <3>1. ASSUME NEW i \in 1..Len(search'.queue) PROVE Leads(search.queue[i])'
      <4>1. CASE i = Len(search.queue) + 1
        BY <4>1, <2>2, <2>4, <2>5 DEF Leads
      <4>2. CASE i # Len(search.queue) + 1
        <5>1. i \in 1..Len(search.queue) /\ search'.queue[i] = search.queue[i]
          BY <4>2, <2>5
        <5>2. Leads(search.queue[i])
          BY <5>1, <1>1 DEF Seeking
        <5> QED BY <5>1, <5>2, <2>2 DEF Leads
      <4> QED BY <4>1, <4>2
    <3>2. ASSUME NEW v, Queued(v) PROVE Queued(v)'
      <4>1. PICK i \in 1..Len(search.queue) : Ends(search.queue[i]) = v
        BY <3>2 DEF Queued
      <4>2. i \in 1..Len(search'.queue) /\ search'.queue[i] = search.queue[i]
        BY <2>5
      <4> QED BY <4>1, <4>2 DEF Queued
    <3>3. ASSUME NEW v \in search'.visited
          PROVE  \/ Queued(v)'
                 \/ search'.pc = "visit" /\ v = Ends(search'.here)
                 \/ v # search'.ends[2] /\ Expanded(EdgesFor(search.graph, v))'
      <4>1. CASE v = next
        <5>1. \E i \in 1..Len(search'.queue) : Ends(search'.queue[i]) = v
          BY <4>1, <2>4, <2>5
        <5> QED BY <5>1 DEF Queued
      <4>2. CASE v \in search.visited
        BY <4>2, <3>2, <1>1, <2>2 DEF Seeking, Expanded
      <4> QED BY <4>1, <4>2, <2>2
    <3> QED BY <3>1, <3>3, <1>1, <2>2 DEF Seeking
  <2>8. InHand'
    BY <1>1, <2>2, <1>4, <1>5 DEF InHand, Leads, Expanded
  <2> QED BY <2>2, <2>6, <2>7, <2>8 DEF QInv, Climbing, AnswersAreRight, PathsConnect,
                                        ChainsClimb, PathAnswered, Stands
<1> QED BY <1>6, <1>7

LEMMA ClimbInv ==
  ASSUME QInv, Climb PROVE QInv'
<1> DEFINE up == Managers(search.graph, Ends(search.here))
           n == Len(search.here.nodes)
<1>1. /\ search.pc = "climb" /\ search \in Searches /\ QueryTypeOK /\ Climbing
      /\ search.here \in Trail /\ search.here.nodes \in Seq(QueryNodes) /\ n \in Nat /\ n >= 1
      /\ search.here.edges \in Seq(QueryEdges)
  <2>1. search.pc = "climb" /\ search \in Searches /\ QueryTypeOK /\ Climbing
    BY DEF Climb, Stands, QInv, QueryTypeOK
  <2>2. search.here \in Trail
    BY <2>1 DEF Searches
  <2>3. search.here.nodes \in Seq(QueryNodes) /\ search.here.edges \in Seq(QueryEdges)
    BY <2>2 DEF Trail
  <2> QED BY <2>1, <2>2, <2>3 DEF Climbing
<1>2. ASSUME Answers(TRUE),
             up = {} \/ \E e \in up, i \in 1..n : e.target = search.here.nodes[i]
      PROVE  QInv'
  <2>1. search' = [search EXCEPT !.pc = "done", !.found = TRUE, !.queue = <<>>, !.todo = {}]
    BY <1>2 DEF Answers, Becomes
  <2>2. /\ search'.pc = "done" /\ search'.here = search.here /\ search'.todo = {}
        /\ search'.ends = search.ends /\ search'.graph = search.graph
    BY <1>1, <2>1 DEF Searches
  <2>3. QueryTypeOK'
    <3>1. <<>> \in Seq(Trail)
      OBVIOUS
    <3>2. search' \in Searches
      BY <1>1, <2>1, <3>1 DEF Searches
    <3> QED BY <3>2, <2>2, <1>1 DEF QueryTypeOK
  <2>4. Chained /\ Distinct /\ Len(search.ends) = 1
    BY <1>1 DEF Climbing
  <2>5. ChainsClimb'
    BY <1>2, <2>2, <2>4 DEF ChainsClimb, Chained, Distinct, Last, Ends
  <2>6. PathsConnect'
    BY <2>2, <2>4 DEF PathsConnect, PathAnswered
  <2> QED BY <2>2, <2>3, <2>5, <2>6 DEF QInv, Seeking, InHand, Climbing, AnswersAreRight
<1>3. ASSUME NEW e \in First(up), e.target \notin search.visited,
             search' = [search EXCEPT !.visited = search.visited \cup {e.target},
                                      !.here = [nodes |-> Append(search.here.nodes, e.target),
                                                edges |-> Append(search.here.edges, e)]]
      PROVE  QInv'
  <2> DEFINE nodes == Append(search.here.nodes, e.target)
             here == [nodes |-> nodes, edges |-> Append(search.here.edges, e)]
  <2>1. /\ e \in up /\ e \in search.graph.edges /\ e.target \in QueryNodes /\ e \in QueryEdges
        /\ e.source = Ends(search.here)
    BY <1>1 DEF First, Managers, QueryTypeOK, Searches
  <2>2. here \in Trail
    BY <1>1, <2>1 DEF Trail
  <2>3. /\ search'.pc = "climb" /\ search'.here = here
        /\ search'.visited = search.visited \cup {e.target}
        /\ search'.ends = search.ends /\ search'.graph = search.graph
        /\ search'.todo = search.todo /\ search'.queue = search.queue
        /\ search'.found = search.found
    BY <1>1, <1>3 DEF Searches, Trail
  <2>4. search' = [search EXCEPT !.visited = search.visited \cup {e.target}, !.here = here]
    BY <1>3
  <2>5. /\ Len(nodes) = n + 1 /\ nodes[n + 1] = e.target
        /\ \A i \in 1..n : nodes[i] = search.here.nodes[i]
    BY <1>1
  <2> HIDE DEF nodes
  <2>6. here.nodes = nodes
    OBVIOUS
  <2> HIDE DEF here
  <2>7. QueryTypeOK'
    <3>1. search.visited \cup {e.target} \in SUBSET QueryNodes
      BY <1>1, <2>1 DEF Searches
    <3>2. search' \in Searches
      BY <1>1, <2>2, <2>4, <3>1 DEF Searches
    <3> QED BY <3>2, <2>3, <1>1 DEF QueryTypeOK
  <2>8. Climbing'
    <3>1. Chained'
      <4> SUFFICES ASSUME NEW i \in 1..(Len(nodes) - 1)
                   PROVE  \E d \in Managers(search.graph, nodes[i]) : d.target = nodes[i + 1]
        BY <2>3, <2>6 DEF Chained
      <4>1. CASE i = n
        BY <4>1, <1>1, <2>1, <2>5 DEF Ends
      <4>2. CASE i # n
        <5>1. i \in 1..(n - 1) /\ i \in 1..n /\ i + 1 \in 1..n
          BY <4>2, <1>1, <2>5
        <5> QED BY <5>1, <1>1, <2>5 DEF Climbing, Chained
      <4> QED BY <4>1, <4>2
    <3>2. Distinct'
      <4> SUFFICES ASSUME NEW i \in 1..(n + 1), NEW j \in 1..(n + 1), nodes[i] = nodes[j]
                   PROVE  i = j
        BY <2>3, <2>5, <2>6 DEF Distinct
      <4>1. \A k \in 1..n : nodes[k] # e.target
        BY <1>1, <1>3, <2>5 DEF Climbing
      <4>2. CASE i = n + 1 \/ j = n + 1
        BY <4>1, <4>2, <1>1, <2>5
      <4>3. CASE i # n + 1 /\ j # n + 1
        <5>1. i \in 1..n /\ j \in 1..n
          BY <4>3, <1>1
        <5> QED BY <5>1, <1>1, <2>5 DEF Climbing, Distinct
      <4> QED BY <4>2, <4>3
    <3>3. \A v \in search'.visited : \E i \in 1..Len(nodes) : nodes[i] = v
      <4> SUFFICES ASSUME NEW v \in search.visited \cup {e.target}
                   PROVE  \E i \in 1..Len(nodes) : nodes[i] = v
        BY <2>3
      <4>1. CASE v = e.target
        BY <4>1, <1>1, <2>5
      <4>2. CASE v \in search.visited
        <5>1. PICK i \in 1..n : search.here.nodes[i] = v
          BY <4>2, <1>1 DEF Climbing
        <5> QED BY <5>1, <1>1, <2>5
      <4> QED BY <4>1, <4>2
    <3>4. \A i \in 1..Len(nodes) : nodes[i] \in search'.visited
      <4> SUFFICES ASSUME NEW i \in 1..(n + 1) PROVE nodes[i] \in search'.visited
        BY <2>5
      <4>1. CASE i = n + 1
        BY <4>1, <2>3, <2>5
      <4>2. CASE i # n + 1
        <5>1. i \in 1..n
          BY <4>2, <1>1
        <5> QED BY <5>1, <1>1, <2>3, <2>5 DEF Climbing
      <4> QED BY <4>1, <4>2
    <3>5. Len(search'.ends) = 1 /\ Len(nodes) >= 1
      BY <1>1, <2>3, <2>5 DEF Climbing
    <3> QED BY <3>1, <3>2, <3>3, <3>4, <3>5, <2>3, <2>6 DEF Climbing
  <2> QED BY <2>3, <2>7, <2>8 DEF QInv, Seeking, InHand, AnswersAreRight, PathsConnect,
                                  ChainsClimb, PathAnswered, Stands
<1>4. CASE up = {}
  <2>1. Answers(TRUE)
    BY <1>4 DEF Climb, Last, Ends
  <2> QED BY <2>1, <1>4, <1>2
<1>5. CASE up # {}
  <2>1. PICK e \in First(up) :
          IF e.target \in search.visited THEN Answers(TRUE)
          ELSE Becomes([search EXCEPT !.visited = search.visited \cup {e.target},
                                      !.here = [nodes |-> Append(search.here.nodes, e.target),
                                                edges |-> Append(search.here.edges, e)]])
    BY <1>5 DEF Climb, Last, Ends
  <2>2. CASE e.target \in search.visited
    <3>1. e \in up /\ \E i \in 1..n : search.here.nodes[i] = e.target
      BY <1>1, <2>2 DEF First, Climbing
    <3> QED BY <3>1, <2>1, <2>2, <1>2
  <2>3. CASE e.target \notin search.visited
    BY <2>1, <2>3, <1>3 DEF Becomes
  <2> QED BY <2>2, <2>3
<1> QED BY <1>4, <1>5

-----------------------------------------------------------------------------
LEMMA QueryStepInv ==
  ASSUME QInv, [QueryNext]_search PROVE QInv'
<1>1. CASE Begin
  BY <1>1, BeginPathInv, BeginChainInv DEF Begin
<1>2. CASE QueryStep
  BY <1>2, PopInv, NotFoundInv, VisitInv, VisitedInv, ClimbInv DEF QueryStep
<1>3. CASE Finish
  BY <1>3, FinishInv
<1>4. CASE UNCHANGED search
  <2>1. QueryTypeOK'
    BY <1>4 DEF QInv, QueryTypeOK
  <2>2. Seeking' /\ InHand'
    BY <1>4 DEF QInv, Seeking, InHand, Queued, Leads, Expanded
  <2>3. Climbing'
    BY <1>4 DEF QInv, Climbing, Chained, Distinct
  <2>4. PathsConnect'
    BY <1>4 DEF QInv, AnswersAreRight, PathsConnect, PathAnswered, Stands, Known
  <2>5. ChainsClimb'
    BY <1>4 DEF QInv, AnswersAreRight, ChainsClimb, Stands
  <2> QED BY <2>1, <2>2, <2>3, <2>4, <2>5 DEF QInv, AnswersAreRight
<1> QED BY <1>1, <1>2, <1>3, <1>4 DEF QueryNext

LEMMA QueryInvariant == QuerySpec => []QInv
  BY InitInv, QueryStepInv, PTL DEF QuerySpec

(***************************************************************************)
(* Type correctness of the searches: a trail, what is visited and what is  *)
(* to be visited come from the graph that is searched.                     *)
(***************************************************************************)
THEOREM TypeCorrect == QuerySpec => []QueryTypeOK
<1>1. QInv => QueryTypeOK
  BY DEF QInv
<1> QED BY <1>1, QueryInvariant, PTL

(***************************************************************************)
(* AuthorizationGraph.shortest_path and find_manager_chain, on any graph:  *)
(* a path that is returned is a way between the two nodes, "no path" is    *)
(* said only of nodes that none joins, and a chain climbs from manager to  *)
(* manager, naming nobody twice, as far as it can.                         *)
(***************************************************************************)
THEOREM AnswersCorrect == QuerySpec => []AnswersAreRight
<1>1. QInv => AnswersAreRight
  BY DEF QInv
<1> QED BY <1>1, QueryInvariant, PTL

-----------------------------------------------------------------------------
(***************************************************************************)
(* Breadth first: the nodes visited have levels, d, that differ by one at  *)
(* most along an edge; the queue is sorted by them and spans two of them.  *)
(***************************************************************************)
Apart(m, n) == m <= n + 1 /\ n <= m + 1

Smooth(graph, S, d) ==
    \A e \in graph.edges : e.source \in S /\ e.target \in S => Apart(d[e.source], d[e.target])

Steps(t) == Len(t.edges)

Levels(d) ==
    /\ d[search.ends[1]] = 0
    /\ Smooth(search.graph, search.visited, d)
    /\ \A i \in 1..Len(search.queue) : d[Ends(search.queue[i])] = Steps(search.queue[i])
    /\ \A i, j \in 1..Len(search.queue) : i <= j => Steps(search.queue[i]) <= Steps(search.queue[j])
    /\ \A v \in search.visited, i \in 1..Len(search.queue) : d[v] <= Steps(search.queue[i]) + 1
    /\ search.pc = "visit" =>
          /\ d[Ends(search.here)] = Steps(search.here)
          /\ \A i \in 1..Len(search.queue) : Steps(search.here) <= Steps(search.queue[i])
          /\ \A v \in search.visited : d[v] <= Steps(search.here) + 1

Layered ==
    search.pc \in {"next", "visit"} => \E d \in [search.visited -> Nat] : Levels(d)

LInv == QInv /\ Layered /\ PathsAreShortest

(* The naturals are well-founded, hence induction over them.               *)
LEMMA LeastNatural ==
    ASSUME NEW T, T \subseteq Nat, T # {}
    PROVE  \E n \in T : \A m \in T : n <= m
<1>1. PICK R : R = OpToRel(<, Nat)
    OBVIOUS
<1>2. \A x, y \in Nat : <<y, x>> \in R <=> y < x
    BY <1>1 DEF OpToRel
<1>3. IsWellFoundedOn(R, Nat)
    BY <1>1, NatLessThanWellFounded
<1>4. PICK n \in T : \A m \in T : <<m, n>> \notin R
    BY <1>3, WFMin
<1>5. \A m \in T : ~(m < n) /\ m \in Nat /\ n \in Nat
    BY <1>2, <1>4
<1> QED BY <1>5

LEMMA Induction ==
    ASSUME NEW S, 0 \in S, \A n \in Nat : n \in S => n + 1 \in S
    PROVE  Nat \subseteq S
<1> SUFFICES ASSUME Nat \ S # {} PROVE FALSE
    OBVIOUS
<1>1. PICK n \in Nat \ S : \A m \in Nat \ S : n <= m
    BY LeastNatural
<1>2. n # 0 /\ n - 1 \in Nat /\ (n - 1) + 1 = n
    BY <1>1
<1> QED BY <1>1, <1>2

(* No walk climbs faster than one level with each node.                    *)
LEMMA WalksClimbSlowly ==
    ASSUME NEW graph, NEW n \in Nat, NEW w \in Walks(graph, n),
           NEW D \in [graph.nodes -> Nat], Smooth(graph, graph.nodes, D),
           n >= 1, D[w[1]] = 0
    PROVE  D[w[n]] <= n - 1
<1>1. w \in [1..n -> graph.nodes] /\ \A i \in 1..(n - 1) : Adjacent(graph, w[i], w[i + 1])
    BY DEF Walks
<1> DEFINE S == {i \in Nat : i + 1 <= n => D[w[i + 1]] <= i}
<1>2. 0 \in S
    OBVIOUS
<1>3. ASSUME NEW i \in Nat, i \in S PROVE i + 1 \in S
    <2> SUFFICES ASSUME i + 2 <= n PROVE D[w[i + 2]] <= i + 1
        OBVIOUS
    <2>1. i + 1 \in 1..(n - 1) /\ i + 2 \in 1..n /\ i + 1 \in 1..n /\ (i + 1) + 1 = i + 2
        OBVIOUS
    <2>2. D[w[i + 1]] <= i /\ D[w[i + 1]] \in Nat /\ D[w[i + 2]] \in Nat
        BY <1>1, <1>3, <2>1
    <2>3. PICK e \in graph.edges : {e.source, e.target} = {w[i + 1], w[i + 2]}
        BY <1>1, <2>1 DEF Adjacent
    <2>4. w[i + 1] \in graph.nodes /\ w[i + 2] \in graph.nodes
        BY <1>1, <2>1
    <2>5. \/ e.source = w[i + 1] /\ e.target = w[i + 2]
          \/ e.source = w[i + 2] /\ e.target = w[i + 1]
        BY <2>3
    <2>6. Apart(D[w[i + 1]], D[w[i + 2]]) \/ Apart(D[w[i + 2]], D[w[i + 1]])
        BY <2>4, <2>5 DEF Smooth
    <2> QED BY <2>2, <2>6 DEF Apart
<1> HIDE DEF S
<1>4. Nat \subseteq S
    BY <1>2, <1>3, Induction
<1>5. n - 1 \in S /\ (n - 1) + 1 = n
    BY <1>4
<1> QED BY <1>5 DEF S

-----------------------------------------------------------------------------
LEMMA PathRests ==
    ASSUME search'.pc # "done" \/ Len(search'.ends) # 2 \/ ~search'.found
    PROVE  PathsAreShortest'
BY DEF PathsAreShortest, PathAnswered, Stands

(* The target is found when its level is that of the queue: what is not    *)
(* visited, or not searched yet, is no nearer.                             *)
LEMMA PopFinds ==
    ASSUME LInv, Pop, Ends(search.queue[1]) = search.ends[2]
    PROVE  PathsAreShortest'
<1>1. /\ search.pc = "next" /\ search.queue \in Seq(Trail) /\ search.queue # <<>>
      /\ search \in Searches /\ Seeking /\ Head(search.queue) = search.queue[1]
      /\ Len(search.queue) \in Nat /\ 1 \in 1..Len(search.queue)
    BY DEF LInv, Pop, Stands, QInv, QueryTypeOK, Searches
<1>2. PICK trail : trail = search.queue[1]
    OBVIOUS
<1>3. search' = [search EXCEPT !.pc = "done", !.found = TRUE, !.queue = <<>>, !.here = trail]
    BY <1>1, <1>2 DEF Pop, Last, Ends
<1>4. search'.here = trail /\ search'.ends = search.ends /\ search'.graph = search.graph
    BY <1>1, <1>3 DEF Searches
<1>5. PICK d \in [search.visited -> Nat] : Levels(d)
    BY <1>1 DEF LInv, Layered
<1>6. Leads(trail)
    BY <1>1, <1>2 DEF Seeking
<1>7. PICK k \in Nat : k = Steps(trail) /\ Len(trail.nodes) = k + 1
    <2>1. trail \in Trail
        BY <1>1, <1>2
    <2>2. Steps(trail) \in Nat
        BY <2>1 DEF Trail, Steps
    <2> QED BY <1>6, <2>2 DEF Leads, IsTrail, Steps
<1>8. d[search.ends[2]] = k /\ search.ends[2] \in search.visited
    BY <1>1, <1>2, <1>5, <1>6, <1>7 DEF Levels, Leads
<1> DEFINE D == [v \in search.graph.nodes |-> IF v \in search.visited /\ d[v] < k THEN d[v] ELSE k]
<1>9. D \in [search.graph.nodes -> Nat]
    BY <1>5
<1>10. ASSUME NEW v \in search.visited, NEW e \in EdgesFor(search.graph, v),
              e.source \notin search.visited \/ e.target \notin search.visited
       PROVE  k <= d[v]
    <2>1. Queued(v)
        BY <1>1, <1>10 DEF Seeking, Expanded
    <2>2. PICK i \in 1..Len(search.queue) : Ends(search.queue[i]) = v
        BY <2>1 DEF Queued
    <2>3. 1 <= i
        BY <1>1
    <2> QED BY <1>1, <1>2, <1>5, <1>7, <2>2, <2>3 DEF Levels
<1>11. Smooth(search.graph, search.graph.nodes, D)
    <2>1. SUFFICES ASSUME NEW e \in search.graph.edges,
                          e.source \in search.graph.nodes, e.target \in search.graph.nodes
                   PROVE  Apart(D[e.source], D[e.target])
        BY DEF Smooth
    <2>2. e \in EdgesFor(search.graph, e.source) /\ e \in EdgesFor(search.graph, e.target)
        BY DEF EdgesFor
    <2>3. CASE e.source \in search.visited /\ e.target \in search.visited
        <3>1. Apart(d[e.source], d[e.target]) /\ d[e.source] \in Nat /\ d[e.target] \in Nat
            BY <1>5, <2>3 DEF Levels, Smooth
        <3> QED BY <2>1, <2>3, <3>1 DEF Apart
    <2>4. CASE e.source \notin search.visited \/ e.target \notin search.visited
        <3>1. ASSUME NEW v \in {e.source, e.target} PROVE D[v] = k
            <4>1. v \in search.graph.nodes
                BY <2>1, <3>1
            <4>2. CASE v \notin search.visited
                BY <4>1, <4>2
            <4>3. CASE v \in search.visited
                <5>1. k <= d[v] /\ d[v] \in Nat
                    BY <1>5, <1>10, <2>2, <2>4, <3>1, <4>3
                <5> QED BY <4>1, <5>1
            <4> QED BY <4>2, <4>3
        <3> HIDE DEF D
        <3> QED BY <3>1 DEF Apart
    <2> QED BY <2>3, <2>4
<1>12. ASSUME NEW n \in 1..(Len(trail.nodes) - 1), NEW w \in Walks(search.graph, n),
              w[1] = search.ends[1], w[n] = search.ends[2]
       PROVE  FALSE
    <2>1. n \in Nat /\ n >= 1 /\ n <= k /\ 1 \in 1..n /\ n \in 1..n
        BY <1>7
    <2>2. search.ends[1] \in search.graph.nodes /\ search.ends[2] \in search.graph.nodes
        BY <1>12, <2>1 DEF Walks
    <2>3. D[w[n]] = k
        BY <1>8, <1>12, <2>2
    <2>4. D[w[1]] = 0
        <3>1. d[search.ends[1]] = 0 /\ search.ends[1] \in search.visited
            BY <1>1, <1>5 DEF Levels, Seeking
        <3> QED BY <1>12, <2>1, <2>2, <3>1
    <2> HIDE DEF D
    <2>5. D[w[n]] <= n - 1
        BY <1>9, <1>11, <2>1, <2>4, WalksClimbSlowly
    <2> QED BY <2>1, <2>3, <2>5
<1> QED BY <1>4, <1>12 DEF PathsAreShortest

LEMMA PopLayers ==
    ASSUME LInv, Pop
    PROVE  Layered' /\ PathsAreShortest'
<1>1. /\ search.pc = "next" /\ search.queue \in Seq(Trail) /\ search.queue # <<>>
      /\ search \in Searches /\ Seeking /\ Head(search.queue) = search.queue[1]
    BY DEF LInv, Pop, Stands, QInv, QueryTypeOK, Searches
<1>2. PICK trail : trail = search.queue[1]
    OBVIOUS
<1>3. CASE Ends(trail) = search.ends[2]
    <2>1. search' = [search EXCEPT !.pc = "done", !.found = TRUE, !.queue = <<>>, !.here = trail]
        BY <1>1, <1>2, <1>3 DEF Pop, Last, Ends
    <2>2. search'.pc = "done"
        BY <1>1, <2>1 DEF Searches
    <2> QED BY <1>2, <1>3, <2>2, PopFinds DEF Layered
<1>4. CASE Ends(trail) # search.ends[2]
    <2>1. search' = [search EXCEPT !.pc = "visit", !.here = trail, !.queue = Tail(search.queue),
                                   !.todo = EdgesFor(search.graph, Ends(trail))]
        BY <1>1, <1>2, <1>4 DEF Pop, Last, Ends, Becomes
    <2>2. /\ search'.pc = "visit" /\ search'.here = trail /\ search'.visited = search.visited
          /\ search'.ends = search.ends /\ search'.graph = search.graph
          /\ search'.queue = Tail(search.queue)
        BY <1>1, <2>1 DEF Searches
    <2>3. PICK d \in [search.visited -> Nat] : Levels(d)
        BY <1>1 DEF LInv, Layered
    <2>4. /\ Len(search.queue) \in Nat /\ Len(search.queue) >= 1
          /\ Len(search'.queue) = Len(search.queue) - 1
          /\ \A i \in 1..Len(search'.queue) : /\ i + 1 \in 1..Len(search.queue)
                                              /\ search'.queue[i] = search.queue[i + 1]
        BY <1>1, <2>2
    <2>5. 1 \in 1..Len(search.queue)
        BY <2>4
    <2>6. \A i \in 1..Len(search'.queue) : d[Ends(search'.queue[i])] = Steps(search'.queue[i])
        BY <2>3, <2>4 DEF Levels
    <2>7. ASSUME NEW i \in 1..Len(search'.queue), NEW j \in 1..Len(search'.queue), i <= j
          PROVE  Steps(search'.queue[i]) <= Steps(search'.queue[j])
        <3>1. i + 1 <= j + 1
            BY <2>4, <2>7
        <3> QED BY <2>3, <2>4, <3>1 DEF Levels
    <2>8. \A v \in search.visited, i \in 1..Len(search'.queue) : d[v] <= Steps(search'.queue[i]) + 1
        BY <2>3, <2>4 DEF Levels
    <2>9. d[Ends(trail)] = Steps(trail) /\ \A v \in search.visited : d[v] <= Steps(trail) + 1
        BY <1>2, <2>3, <2>5 DEF Levels
    <2>10. ASSUME NEW i \in 1..Len(search'.queue) PROVE Steps(trail) <= Steps(search'.queue[i])
        <3>1. 1 <= i + 1
            BY <2>4
        <3> QED BY <1>2, <2>3, <2>4, <2>5, <3>1 DEF Levels
    <2>11. Levels(d)'
        BY <2>2, <2>3, <2>6, <2>7, <2>8, <2>9, <2>10 DEF Levels
    <2>12. Layered'
        BY <2>2, <2>3, <2>11 DEF Layered
    <2> QED BY <2>2, <2>12, PathRests
<1> QED BY <1>3, <1>4

LEMMA VisitLayers ==
    ASSUME LInv, Visit
    PROVE  Layered' /\ PathsAreShortest'
<1> DEFINE node == Ends(search.here)
<1>1. /\ search.pc = "visit" /\ search \in Searches /\ Seeking /\ InHand /\ QueryTypeOK
    BY DEF LInv, Visit, Stands, QInv, QueryTypeOK
<1>2. PICK d \in [search.visited -> Nat] : Levels(d)
    BY <1>1 DEF LInv, Layered
<1>3. PICK e \in First(search.todo) :
        LET next  == Neighbour(e, node)
            trail == [nodes |-> Append(search.here.nodes, next),
                      edges |-> Append(search.here.edges, e)]
        IN  IF next \in search.visited
              THEN search' = [search EXCEPT !.todo = search.todo \ {e}]
              ELSE search' = [search EXCEPT !.todo = search.todo \ {e},
                                            !.visited = search.visited \cup {next},
                                            !.queue = Append(search.queue, trail)]
    BY DEF Visit, Becomes, Last, Ends
<1> DEFINE next  == Neighbour(e, node)
           trail == [nodes |-> Append(search.here.nodes, next),
                     edges |-> Append(search.here.edges, e)]
<1>4. CASE next \in search.visited
    <2>1. search' = [search EXCEPT !.todo = search.todo \ {e}]
        BY <1>3, <1>4
    <2>2. /\ search'.pc = "visit" /\ search'.here = search.here
          /\ search'.visited = search.visited /\ search'.queue = search.queue
          /\ search'.ends = search.ends /\ search'.graph = search.graph
        BY <1>1, <2>1 DEF Searches
    <2>3. Levels(d)'
        BY <1>1, <1>2, <2>2 DEF Levels
    <2>4. Layered'
        BY <1>2, <2>2, <2>3 DEF Layered
    <2> QED BY <2>2, <2>4, PathRests
<1>5. CASE next \notin search.visited
    <2>1. search' = [search EXCEPT !.todo = search.todo \ {e},
                                   !.visited = search.visited \cup {next},
                                   !.queue = Append(search.queue, trail)]
        BY <1>3, <1>5
    <2>2. /\ search'.pc = "visit" /\ search'.here = search.here
          /\ search'.visited = search.visited \cup {next}
          /\ search'.queue = Append(search.queue, trail)
          /\ search'.ends = search.ends /\ search'.graph = search.graph
        BY <1>1, <2>1 DEF Searches
    <2>3. search.here \in Trail /\ search.queue \in Seq(Trail) /\ search.ends[1] \in search.visited
        BY <1>1 DEF Searches, Seeking
    <2>4. e \in QueryEdges /\ next \in QueryNodes
        <3>1. e \in search.graph.edges /\ e.source \in QueryNodes /\ e.target \in QueryNodes
            BY <1>1 DEF First, QueryTypeOK, Searches
        <3> QED BY <1>1, <3>1 DEF Neighbour, Searches
    <2>5. PICK k \in Nat : k = Steps(search.here) /\ Steps(trail) = k + 1 /\ Ends(trail) = next
                           /\ trail \in Trail
        <3> HIDE DEF next
        <3>1. search.here.nodes \in Seq(QueryNodes) /\ search.here.edges \in Seq(QueryEdges)
            BY <2>3 DEF Trail
        <3>2. /\ trail.nodes = Append(search.here.nodes, next) /\ trail.nodes \in Seq(QueryNodes)
              /\ trail.edges = Append(search.here.edges, e) /\ trail.edges \in Seq(QueryEdges)
            BY <2>4, <3>1
        <3>3. Len(search.here.edges) \in Nat /\ Len(trail.edges) = Len(search.here.edges) + 1
            BY <3>1, <3>2
        <3>4. trail.nodes[Len(trail.nodes)] = next
            BY <2>4, <3>1, <3>2
        <3>5. trail \in Trail
            BY <3>2 DEF Trail
        <3> HIDE DEF trail
        <3> QED BY <3>3, <3>4, <3>5 DEF Steps, Ends
    <2> HIDE DEF trail, next
    <2>6. /\ Len(search.queue) \in Nat /\ Len(search'.queue) = Len(search.queue) + 1
          /\ \A i \in 1..Len(search.queue) : search'.queue[i] = search.queue[i]
          /\ search'.queue[Len(search.queue) + 1] = trail
          /\ \A i \in 1..Len(search'.queue) : i \in 1..Len(search.queue) \/ i = Len(search.queue) + 1
        BY <2>2, <2>3, <2>5
    <2>7. PICK l : l = [v \in search.visited \cup {next} |-> IF v = next THEN k + 1 ELSE d[v]]
        OBVIOUS
    <2>8. /\ l \in [search'.visited -> Nat] /\ l[next] = k + 1
          /\ \A v \in search.visited : l[v] = d[v] /\ l[v] \in Nat /\ d[v] <= k + 1
        BY <1>1, <1>2, <1>5, <2>2, <2>5, <2>7 DEF Levels
    <2>9. \A i \in 1..Len(search.queue) :
             /\ Ends(search.queue[i]) \in search.visited
             /\ l[Ends(search.queue[i])] = Steps(search.queue[i])
             /\ k <= Steps(search.queue[i]) /\ Steps(search.queue[i]) <= k + 1
             /\ Steps(search.queue[i]) \in Nat
        <3> SUFFICES ASSUME NEW i \in 1..Len(search.queue)
                     PROVE  /\ Ends(search.queue[i]) \in search.visited
                            /\ l[Ends(search.queue[i])] = Steps(search.queue[i])
                            /\ k <= Steps(search.queue[i]) /\ Steps(search.queue[i]) <= k + 1
                            /\ Steps(search.queue[i]) \in Nat
            OBVIOUS
        <3>1. Ends(search.queue[i]) \in search.visited
            BY <1>1 DEF Seeking, Leads
        <3>2. d[Ends(search.queue[i])] = Steps(search.queue[i]) /\ k <= Steps(search.queue[i])
            BY <1>1, <1>2, <2>5 DEF Levels
        <3> QED BY <2>8, <3>1, <3>2
    <2>10. l[search.ends[1]] = 0
        BY <1>2, <2>3, <2>8 DEF Levels
    <2>11. ASSUME NEW c \in search.graph.edges, NEW v \in search.visited,
                  {c.source, c.target} = {v, next}
           PROVE  k <= l[v] /\ l[v] <= k + 1
        <3>1. c \in EdgesFor(search.graph, v)
            BY <2>11 DEF EdgesFor
        <3>2. next \notin search.visited /\ (c.source = next \/ c.target = next)
            BY <1>5, <2>11
        <3>3. Queued(v) \/ v = node
            BY <1>1, <3>1, <3>2 DEF Seeking, Expanded
        <3>4. CASE v = node
            BY <1>1, <1>2, <2>5, <2>8, <3>4 DEF Levels
        <3>5. CASE Queued(v)
            <4>1. PICK i \in 1..Len(search.queue) : Ends(search.queue[i]) = v
                BY <3>5 DEF Queued
            <4> QED BY <2>9, <4>1
        <3> QED BY <3>3, <3>4, <3>5
    <2>12. Smooth(search.graph, search.visited \cup {next}, l)
        <3> SUFFICES ASSUME NEW c \in search.graph.edges,
                            c.source \in search.visited \cup {next},
                            c.target \in search.visited \cup {next}
                     PROVE  Apart(l[c.source], l[c.target])
            BY DEF Smooth
        <3>1. CASE c.source \in search.visited /\ c.target \in search.visited
            <4>1. Apart(d[c.source], d[c.target])
                BY <1>2, <3>1 DEF Levels, Smooth
            <4> QED BY <2>8, <3>1, <4>1
        <3>2. CASE c.source = next /\ c.target = next
            BY <2>8, <3>2 DEF Apart
        <3>3. CASE c.source \in search.visited /\ c.target = next
            <4>1. k <= l[c.source] /\ l[c.source] <= k + 1 /\ l[c.source] \in Nat
                BY <2>8, <2>11, <3>3
            <4> QED BY <2>8, <3>3, <4>1 DEF Apart
        <3>4. CASE c.source = next /\ c.target \in search.visited
            <4>1. k <= l[c.target] /\ l[c.target] <= k + 1 /\ l[c.target] \in Nat
                BY <2>8, <2>11, <3>4
            <4> QED BY <2>8, <3>4, <4>1 DEF Apart
        <3> QED BY <3>1, <3>2, <3>3, <3>4
    <2>13. \A i \in 1..Len(search'.queue) : /\ l[Ends(search'.queue[i])] = Steps(search'.queue[i])
                                            /\ k <= Steps(search'.queue[i])
                                            /\ Steps(search'.queue[i]) \in Nat
        <3> SUFFICES ASSUME NEW i \in 1..Len(search'.queue)
                     PROVE  /\ l[Ends(search'.queue[i])] = Steps(search'.queue[i])
                            /\ k <= Steps(search'.queue[i])
                            /\ Steps(search'.queue[i]) \in Nat
            OBVIOUS
        <3>1. CASE i \in 1..Len(search.queue)
            BY <2>6, <2>9, <3>1
        <3>2. CASE i = Len(search.queue) + 1
            <4>1. search'.queue[i] = trail
                BY <2>6, <3>2
            <4> QED BY <2>5, <2>8, <4>1
        <3> QED BY <2>6, <3>1, <3>2
    <2>14. ASSUME NEW i \in 1..Len(search'.queue), NEW j \in 1..Len(search'.queue), i <= j
           PROVE  Steps(search'.queue[i]) <= Steps(search'.queue[j])
        <3>1. CASE j = Len(search.queue) + 1
            <4>1. Steps(search'.queue[i]) <= k + 1
                BY <2>5, <2>6, <2>9
            <4> QED BY <2>5, <2>6, <3>1, <4>1
        <3>2. CASE j \in 1..Len(search.queue)
            <4>1. i \in 1..Len(search.queue)
                BY <2>6, <2>14, <3>2
            <4> QED BY <1>2, <2>6, <2>14, <3>2, <4>1 DEF Levels
        <3> QED BY <2>6, <3>1, <3>2
    <2>15. \A v \in search'.visited : l[v] <= k + 1 /\ l[v] \in Nat
        BY <2>2, <2>8
    <2>16. \A v \in search'.visited, i \in 1..Len(search'.queue) : l[v] <= Steps(search'.queue[i]) + 1
        <3> SUFFICES ASSUME NEW v \in search'.visited, NEW i \in 1..Len(search'.queue)
                     PROVE  l[v] <= Steps(search'.queue[i]) + 1
            OBVIOUS
        <3>1. l[v] <= k + 1 /\ l[v] \in Nat
            BY <2>15
        <3>2. k <= Steps(search'.queue[i]) /\ Steps(search'.queue[i]) \in Nat
            BY <2>13
        <3> QED BY <2>5, <3>1, <3>2
    <2>17. l[node] = k
        <3>1. node \in search.visited
            BY <1>1 DEF InHand, Leads
        <3> QED BY <1>1, <1>2, <2>5, <2>8, <3>1 DEF Levels
    <2>18. Levels(l)'
        BY <2>2, <2>5, <2>10, <2>12, <2>13, <2>14, <2>15, <2>16, <2>17 DEF Levels
    <2>19. Layered'
        BY <2>8, <2>18 DEF Layered
    <2> QED BY <2>2, <2>19, PathRests
<1> QED BY <1>4, <1>5

LEMMA StepLayers ==
    ASSUME LInv, [QueryNext]_search
    PROVE  Layered' /\ PathsAreShortest'
<1>0. search \in Searches
    BY DEF LInv, QInv, QueryTypeOK
<1>1. CASE Begin
    <2>1. ASSUME NEW g \in SomeGraph, NEW s \in QueryNodes, NEW t \in QueryNodes, BeginPath(g, s, t)
          PROVE  Layered' /\ PathsAreShortest'
        <3> DEFINE known == s \in g.nodes /\ t \in g.nodes
                   first == [nodes |-> <<s>>, edges |-> <<>>]
        <3>1. /\ search'.pc = IF known THEN "next" ELSE "done"
              /\ search'.graph = g /\ search'.ends = <<s, t>> /\ search'.found = FALSE
              /\ search'.queue = IF known THEN <<first>> ELSE <<>>
              /\ search'.visited = IF known THEN {s} ELSE {}
            BY <2>1 DEF BeginPath, Becomes, Resting
        <3>2. Ends(first) = s /\ Steps(first) = 0
            BY DEF Ends, Steps
        <3> HIDE DEF first
        <3>3. CASE known
            <4>1. PICK d : d = [v \in {s} |-> 0]
                OBVIOUS
            <4>2. d \in [search'.visited -> Nat] /\ d[s] = 0
                BY <3>1, <3>3, <4>1
            <4>3. search'.queue = <<first>> /\ Len(search'.queue) = 1 /\ search'.queue[1] = first
                  /\ search'.visited = {s} /\ search'.ends[1] = s /\ search'.pc = "next"
                BY <3>1, <3>3
            <4>4. \A i \in 1..Len(search'.queue) : search'.queue[i] = first
                BY <4>3
            <4>5. Smooth(search'.graph, search'.visited, d)
                BY <4>2, <4>3 DEF Smooth, Apart
            <4>6. Levels(d)'
                BY <3>2, <4>2, <4>3, <4>4, <4>5 DEF Levels
            <4> QED BY <3>1, <4>2, <4>6, PathRests DEF Layered
        <3>4. CASE ~known
            BY <3>1, <3>4, PathRests DEF Layered
        <3> QED BY <3>3, <3>4
    <2>2. ASSUME NEW g \in SomeGraph, NEW u \in QueryNodes, BeginChain(g, u)
          PROVE  Layered' /\ PathsAreShortest'
        <3>1. search'.pc = "climb"
            BY <2>2 DEF BeginChain, Becomes, Resting
        <3> QED BY <3>1, PathRests DEF Layered
    <2> QED BY <1>1, <2>1, <2>2 DEF Begin
<1>2. CASE Pop
    BY <1>2, PopLayers
<1>3. CASE Visit
    BY <1>3, VisitLayers
<1>4. CASE NotFound
    <2>1. search'.pc = "done" /\ search'.found = FALSE
        BY <1>0, <1>4 DEF NotFound, Answers, Becomes, Searches
    <2> QED BY <2>1, PathRests DEF Layered
<1>5. CASE Visited
    <2>1. search.pc = "visit" /\ search' = [search EXCEPT !.pc = "next"]
        BY <1>5 DEF Visited, Stands, Becomes
    <2>2. /\ search'.pc = "next" /\ search'.visited = search.visited /\ search'.queue = search.queue
          /\ search'.ends = search.ends /\ search'.graph = search.graph
        BY <1>0, <2>1 DEF Searches
    <2>3. PICK d \in [search.visited -> Nat] : Levels(d)
        BY <2>1 DEF LInv, Layered
    <2>4. Levels(d)'
        BY <2>2, <2>3 DEF Levels
    <2>5. Layered'
        BY <2>2, <2>3, <2>4 DEF Layered
    <2> QED BY <2>2, <2>5, PathRests
<1>6. CASE Climb
    <2>1. search.pc = "climb" /\ Len(search.ends) = 1
        BY <1>6 DEF Climb, Stands, LInv, QInv, Climbing
    <2>2. /\ search'.ends = search.ends /\ search'.pc \in {"climb", "done"}
        BY <1>0, <1>6, <2>1 DEF Climb, Answers, Becomes, Searches
    <2> QED BY <2>1, <2>2, PathRests DEF Layered
<1>7. CASE Finish
    <2>1. search'.pc = "idle"
        BY <1>7 DEF Finish, Becomes, Resting
    <2> QED BY <2>1, PathRests DEF Layered
<1>8. CASE UNCHANGED search
    <2>1. ASSUME NEW d, Levels(d) PROVE Levels(d)'
        BY <1>8, <2>1 DEF Levels
    <2>2. Layered'
        BY <1>8, <2>1 DEF LInv, Layered
    <2>3. PathsAreShortest'
        BY <1>8 DEF LInv, PathsAreShortest, PathAnswered, Stands
    <2> QED BY <2>2, <2>3
<1> QED BY <1>1, <1>2, <1>3, <1>4, <1>5, <1>6, <1>7, <1>8 DEF QueryNext, QueryStep

(***************************************************************************)
(* AuthorizationGraph.shortest_path, on any graph and whatever the order   *)
(* of its edges: no way between the two nodes is shorter than the one it   *)
(* returns.                                                                *)
(***************************************************************************)
THEOREM ShortestFound == QuerySpec => []PathsAreShortest
<1>1. QueryInit => LInv
    <2> SUFFICES ASSUME QueryInit PROVE LInv
        OBVIOUS
    <2>1. search.pc = "idle"
        BY DEF QueryInit, Resting
    <2> QED BY <2>1, InitInv DEF LInv, Layered, PathsAreShortest, PathAnswered, Stands
<1>2. LInv /\ [QueryNext]_search => LInv'
    BY StepLayers, QueryStepInv DEF LInv
<1>3. LInv => PathsAreShortest
    BY DEF LInv
<1> QED BY <1>1, <1>2, <1>3, PTL DEF QuerySpec
=============================================================================
