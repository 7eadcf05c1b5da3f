------------------------------ MODULE GraphCache ------------------------------
(***************************************************************************)
(* The cache of the authorization graph (app/graph/cache.py) and the       *)
(* requests of app/graph/routes.py.  One lock guards the cache and is held *)
(* for a whole build, of which every SELECT sees the rows committed by     *)
(* then.  Other requests change the rows at any time and tell nobody.      *)
(***************************************************************************)
EXTENDS AuthorizationGraph

CONSTANTS
    Clients,      \* request threads
    None,         \* no graph, nobody
    Rows,         \* the rows there may be
    InitialRows,
    Changes,      \* committed changes: rows to drop and rows to add
    Kinds,        \* the requests: "load", "refresh", "invalidate", "status"
    MaxRequests,  \* requests made in all (bound)
    MaxChanges,   \* changes committed in all (bound)
    MaxFailures   \* SELECTs that fail in all (bound)

ASSUME GraphCacheAssumption ==
    /\ None \notin Clients
    /\ InitialRows \subseteq Rows
    /\ \A c \in Changes : c.drop \subseteq Rows /\ c.add \subseteq Rows
    /\ MaxRequests \in Nat /\ MaxChanges \in Nat /\ MaxFailures \in Nat

VARIABLES
    rows,      \* the tables
    made,      \* changes committed so far
    asked,     \* requests made so far
    failed,    \* SELECTs that have failed so far
    cached,    \* _graph, or None
    valid,     \* _valid
    version,   \* _version
    lock,      \* who holds _lock, or None
    draft,     \* the graph that is being built
    floor,     \* changes that the cache has been told of (history)
    tx         \* [Clients -> the request in hand]

cacheVars == <<rows, made, asked, failed, cached, valid, version, lock, draft, floor, tx>>

(* since, kept and ever are history: the changes made when the build       *)
(* began, the rows that have been there ever since, and all that have.     *)
NewDraft(since, xs) == [graph |-> Empty, step |-> 1, since |-> since, kept |-> xs, ever |-> xs]
NoDraft == NewDraft(0, {})

Idle == [pc |-> "idle", kind |-> "none", floor |-> 0, got |-> None]

CacheInit ==
    /\ rows = InitialRows
    /\ made = 0 /\ asked = 0 /\ failed = 0
    /\ cached = None /\ valid = FALSE /\ version = 0
    /\ lock = None /\ draft = NoDraft /\ floor = 0
    /\ tx = [r \in Clients |-> Idle]

At(r, label) == tx[r].pc = label
Update(r, t) == tx' = [tx EXCEPT ![r] = t]
Larger(m, n) == IF m < n THEN n ELSE m

-----------------------------------------------------------------------------
(* A change commits; a build under way has had part of the rows before it. *)
Change(c) ==
    /\ made < MaxChanges
    /\ c.drop \subseteq rows /\ c.add \cap rows = {}
    /\ rows' = (rows \ c.drop) \cup c.add
    /\ made' = made + 1
    /\ draft' = IF lock = None THEN draft
                ELSE [draft EXCEPT !.kept = @ \ c.drop, !.ever = @ \cup c.add]
    /\ UNCHANGED <<asked, failed, cached, valid, version, lock, floor, tx>>

(* A load that follows an invalidation must see what was committed before  *)
(* it, a refresh all that is committed by now.                             *)
Ask(r, kind) ==
    /\ At(r, "idle") /\ asked < MaxRequests
    /\ asked' = asked + 1
    /\ Update(r, [Idle EXCEPT !.pc = "wait", !.kind = kind,
                              !.floor = IF kind = "refresh" THEN made ELSE floor])
    /\ UNCHANGED <<rows, made, failed, cached, valid, version, lock, draft, floor>>

Waiting(r, kind) == At(r, "wait") /\ tx[r].kind = kind
Acquires(r) == lock = None
Hit == cached # None /\ valid

LoadCached(r) ==
    /\ Waiting(r, "load") /\ Acquires(r) /\ Hit
    /\ Update(r, [tx[r] EXCEPT !.pc = "use", !.got = cached])
    /\ UNCHANGED <<rows, made, asked, failed, cached, valid, version, lock, draft, floor>>

BeginBuild(r) ==
    /\ Waiting(r, "refresh") \/ (Waiting(r, "load") /\ ~Hit)
    /\ Acquires(r)
    /\ lock' = r
    /\ draft' = NewDraft(made, rows)
    /\ Update(r, [tx[r] EXCEPT !.pc = "build"])
    /\ UNCHANGED <<rows, made, asked, failed, cached, valid, version, floor>>

(* One SELECT.                                                             *)
Read(r) ==
    LET read  == Reads[draft.step]
        found == {x \in rows : x.table = read.table}
    IN
    /\ At(r, "build") /\ draft.step <= Len(Reads)
    /\ draft' = [draft EXCEPT
           !.graph = IF read.part = "nodes" THEN AddNodes(@, found) ELSE AddEdges(@, found),
           !.step  = @ + 1]
    /\ UNCHANGED <<rows, made, asked, failed, cached, valid, version, lock, floor, tx>>

(* What a refresh returns is reported by status.                           *)
Install(r) ==
    LET built == [graph |-> draft.graph, since |-> draft.since] IN
    /\ At(r, "build") /\ draft.step = Len(Reads) + 1
    /\ cached' = built /\ valid' = TRUE /\ version' = version + 1
    /\ lock' = None /\ draft' = NoDraft
    /\ floor' = Larger(floor, draft.since)
    /\ Update(r, [tx[r] EXCEPT !.pc = IF tx[r].kind = "load" THEN "use" ELSE "report",
                               !.got = built])
    /\ UNCHANGED <<rows, made, asked, failed>>

(* Mutant: the lock is released only where a build succeeds.               *)
FailKeepingLock(r) ==
    /\ At(r, "build") /\ failed < MaxFailures
    /\ failed' = failed + 1
    /\ Update(r, Idle)
    /\ UNCHANGED <<rows, made, asked, cached, valid, version, lock, draft, floor>>

(* A SELECT fails: the exception leaves the cache as it was.               *)
Fail(r) ==
    /\ At(r, "build") /\ failed < MaxFailures
    /\ failed' = failed + 1
    /\ lock' = None /\ draft' = NoDraft
    /\ Update(r, Idle)
    /\ UNCHANGED <<rows, made, asked, cached, valid, version, floor>>

(* Mutant: the flag is cleared without the lock. *)
InvalidateUnlocked(r) ==
    /\ Waiting(r, "invalidate")
    /\ valid' = FALSE
    /\ floor' = made
    /\ Update(r, [tx[r] EXCEPT !.pc = "report"])
    /\ UNCHANGED <<rows, made, asked, failed, cached, version, lock, draft>>

Invalidate(r) ==
    /\ Waiting(r, "invalidate") /\ Acquires(r)
    /\ valid' = FALSE
    /\ floor' = made
    /\ Update(r, [tx[r] EXCEPT !.pc = "report"])
    /\ UNCHANGED <<rows, made, asked, failed, cached, version, lock, draft>>

(* status takes the lock for itself.                                       *)
Status(r) ==
    /\ Waiting(r, "status") \/ At(r, "report")
    /\ Acquires(r)
    /\ Update(r, Idle)
    /\ UNCHANGED <<rows, made, asked, failed, cached, valid, version, lock, draft, floor>>

(* The request has no more use for the graph it was given.                 *)
Done(r) ==
    /\ At(r, "use")
    /\ Update(r, Idle)
    /\ UNCHANGED <<rows, made, asked, failed, cached, valid, version, lock, draft, floor>>

Serve(r) ==
    \/ LoadCached(r) \/ BeginBuild(r) \/ Read(r) \/ Install(r)
    \/ Invalidate(r) \/ Status(r) \/ Done(r)

CacheNext ==
    \/ \E c \in Changes : Change(c)
    \/ \E r \in Clients : Serve(r) \/ Fail(r) \/ \E kind \in Kinds : Ask(r, kind)

CacheSpec == CacheInit /\ [][CacheNext]_cacheVars

(* A thread goes on.  The requests are finitely many, so a lock that is    *)
(* released again and again is free for good in the end.                   *)
CacheFairness == \A r \in Clients : WF_cacheVars(Serve(r))
-----------------------------------------------------------------------------
Nodes == {Self(x) : x \in {y \in Rows : HasNode(y)}}
Edges == UNION {EdgesOf(x) : x \in Rows}

Graph == [nodes : SUBSET Nodes, edges : SUBSET Edges]
BuiltGraph == [graph : Graph, since : Nat]

Draft == [graph : Graph, step : 1..(Len(Reads) + 1), since : Nat,
          kept : SUBSET Rows, ever : SUBSET Rows]

Request == [pc : {"idle", "wait", "build", "use", "report"}, kind : Kinds \cup {"none"},
            floor : Nat, got : BuiltGraph \cup {None}]

Whole(graph) == \A e \in graph.edges : Joins(e, graph.nodes)

(* Everything is of its type, no graph has an edge to or from a node that  *)
(* it lacks, and whoever builds holds the lock.                            *)
CacheTypeOK ==
    /\ rows \in SUBSET Rows
    /\ made \in Nat /\ asked \in Nat /\ failed \in Nat /\ version \in Nat /\ floor \in Nat
    /\ cached \in BuiltGraph \cup {None}
    /\ cached # None => Whole(cached.graph)
    /\ valid \in BOOLEAN
    /\ lock \in Clients \cup {None}
    /\ draft \in Draft /\ Whole(draft.graph)
    /\ tx \in [Clients -> Request]
    /\ \A r \in Clients : /\ tx[r].got # None => Whole(tx[r].got.graph)
                          /\ At(r, "build") <=> lock = r

(***************************************************************************)
(* docs/graph.md: "invalidate() marks the graph stale; the next load()     *)
(* rebuilds it", and "refresh() rebuilds the graph immediately": a request *)
(* that comes after an invalidation was made is given a graph all of whose *)
(* reads came after the changes the invalidation followed, also if another *)
(* thread was building when the cache was invalidated.                     *)
(***************************************************************************)
InvalidationIsHonoured ==
    \A r \in Clients : tx[r].pc \in {"use", "report"} /\ tx[r].got # None =>
        tx[r].got.since >= tx[r].floor

(***************************************************************************)
(* However changes and the SELECTs of a build interleave, the graph that   *)
(* goes into the cache shows all that was there from its first read to its *)
(* last and nothing that never was: without a change meanwhile, exactly    *)
(* the tables.                                                             *)
(***************************************************************************)
GraphIsOfTheTables ==
    \A r \in Clients : At(r, "build") /\ draft.step = Len(Reads) + 1 =>
        /\ WholeGraph(draft.kept).nodes \subseteq draft.graph.nodes
        /\ WholeGraph(draft.kept).edges \subseteq draft.graph.edges
        /\ draft.graph.nodes \subseteq WholeGraph(draft.ever).nodes
        /\ draft.graph.edges \subseteq WholeGraph(draft.ever).edges

(***************************************************************************)
(* Every request is answered: a build that fails leaves the lock to the    *)
(* next request.                                                           *)
(***************************************************************************)
RequestsAreServed == \A r \in Clients : ~At(r, "idle") ~> At(r, "idle")
=============================================================================
