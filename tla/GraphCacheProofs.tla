--------------------------- MODULE GraphCacheProofs ---------------------------
(***************************************************************************)
(* Proofs about the cache of the authorization graph, for any tables, any  *)
(* changes and any number of requests and threads.  A build keeps what it  *)
(* has read of the rows that stay, and what it leaves out of the rest it   *)
(* may; the lock keeps an invalidation out of a build, so a build begins   *)
(* no earlier than the last invalidation before it ends.                   *)
(***************************************************************************)
EXTENDS GraphCache, TLAPS, SequenceTheorems

NodesOf(xs) == {Self(x) : x \in {y \in xs : HasNode(y)}}

(* While a graph is built it holds the rows read so far that stay, and     *)
(* nothing but rows that have been there.                                  *)
Drafted ==
    lock # None =>
        /\ draft.kept \subseteq rows /\ rows \subseteq draft.ever
        /\ draft.graph.nodes \subseteq NodesOf(draft.ever)
        /\ \A e \in draft.graph.edges : \E x \in draft.ever : e \in EdgesOf(x)
        /\ \A x \in draft.kept, i \in 1..13 :
             x.table = NodeTables[i] /\ i < draft.step => Self(x) \in draft.graph.nodes
        /\ \A x \in draft.kept, i \in 1..11 :
             x.table = EdgeTables[i] /\ i + 13 < draft.step =>
                 \A e \in EdgesOf(x) : Joins(e, NodesOf(draft.kept)) => e \in draft.graph.edges

(* How much a request may still ask of the graph it will be given.         *)
Timely(r) ==
    /\ tx[r].pc \in {"idle", "wait", "build"} => tx[r].got = None
    /\ At(r, "wait") => tx[r].floor <= IF tx[r].kind = "refresh" THEN made ELSE floor
    /\ At(r, "build") => tx[r].floor <= draft.since
    /\ tx[r].pc \in {"use", "report"} /\ tx[r].got # None => tx[r].got.since >= tx[r].floor

Fresh ==
    /\ floor <= made
    /\ cached # None /\ valid => floor <= cached.since
    /\ lock # None => floor <= draft.since /\ draft.since <= made
    /\ \A r \in Clients : Timely(r)

CInv == CacheTypeOK /\ Drafted /\ Fresh

(* The length of a concatenation.                                          *)
LEMMA Concatenated ==
  ASSUME NEW S, NEW s \in Seq(S), NEW t \in Seq(S)
  PROVE  s \o t \in Seq(S) /\ Len(s \o t) = Len(s) + Len(t)
  BY ConcatProperties

(* Thirteen sources of nodes.                                              *)
LEMMA NodeTablesAre == DOMAIN NodeTables = 1..13
<1> DEFINE S == {"User", "Group", "EnterpriseProfile", "Application", "Entitlement",
                 "Connector", "CertificationCampaign", "ReviewItem", "Delegation",
                 "ProvisioningJob", "ProvisioningHistory", "RemediationJob", "AuditEvent"}
           A == IdentityNodes \o ApplicationNodes
           B == A \o ConnectorNodes
           C == B \o GovernanceNodes
<1>1. IdentityNodes \in Seq(S) /\ Len(IdentityNodes) = 3
  BY DEF IdentityNodes
<1>2. ApplicationNodes \in Seq(S) /\ Len(ApplicationNodes) = 2
  BY DEF ApplicationNodes
<1>3. ConnectorNodes \in Seq(S) /\ Len(ConnectorNodes) = 1
  BY DEF ConnectorNodes
<1>4. GovernanceNodes \in Seq(S) /\ Len(GovernanceNodes) = 2
  BY DEF GovernanceNodes
<1>5. OperationsNodes \in Seq(S) /\ Len(OperationsNodes) = 5
  BY DEF OperationsNodes
<1>6. A \in Seq(S) /\ Len(A) = 5
  <2> HIDE DEF S
  <2>1. A \in Seq(S) /\ Len(A) = Len(IdentityNodes) + Len(ApplicationNodes)
    BY <1>1, <1>2, Concatenated, Zenon
  <2> HIDE DEF A
  <2> QED BY <2>1, <1>1, <1>2
<1>7. B \in Seq(S) /\ Len(B) = 6
  <2> HIDE DEF S, A
  <2>1. B \in Seq(S) /\ Len(B) = Len(A) + Len(ConnectorNodes)
    BY <1>6, <1>3, Concatenated, Zenon
  <2> HIDE DEF B
  <2> QED BY <2>1, <1>6, <1>3
<1>8. C \in Seq(S) /\ Len(C) = 8
  <2> HIDE DEF S, B
  <2>1. C \in Seq(S) /\ Len(C) = Len(B) + Len(GovernanceNodes)
    BY <1>7, <1>4, Concatenated, Zenon
  <2> HIDE DEF C
  <2> QED BY <2>1, <1>7, <1>4
<1>9. NodeTables \in Seq(S) /\ Len(NodeTables) = 13
  <2> HIDE DEF S, C
  <2>1. /\ (C \o OperationsNodes) \in Seq(S)
        /\ Len(C \o OperationsNodes) = Len(C) + Len(OperationsNodes)
    BY <1>8, <1>5, Concatenated, Zenon
  <2>2. NodeTables = C \o OperationsNodes
    BY Zenon DEF NodeTables, C, B, A
  <2>3. NodeTables \in Seq(S) /\ Len(NodeTables) = Len(C) + Len(OperationsNodes)
    BY <2>1, <2>2, Zenon
  <2> QED BY <2>3, <1>8, <1>5
<1> HIDE DEF S
<1> QED
  BY <1>9

-----------------------------------------------------------------------------
(* The order of the SELECTs.                                               *)
LEMMA ReadsAre ==
  /\ Len(Reads) = 24
  /\ \A i \in 1..13 : Reads[i].part = "nodes" /\ Reads[i].table = NodeTables[i]
  /\ \A i \in 1..11 : Reads[i + 13].part = "edges" /\ Reads[i + 13].table = EdgeTables[i]
<1> DEFINE S == [part : {"nodes", "edges"}, table : {NodeTables[i] : i \in 1..13}
                                                      \cup {EdgeTables[i] : i \in 1..11}]
           N == [i \in 1..13 |-> [part |-> "nodes", table |-> NodeTables[i]]]
           E == [i \in 1..11 |-> [part |-> "edges", table |-> EdgeTables[i]]]
<1>1. DOMAIN NodeTables = 1..13 /\ DOMAIN EdgeTables = 1..11
  BY NodeTablesAre DEF EdgeTables
<1>2. Reads = N \o E
  BY <1>1 DEF Reads
<1>3. N \in Seq(S) /\ E \in Seq(S)
  <2>1. /\ \A i \in 1..13 : N[i] \in S
        /\ \A i \in 1..11 : E[i] \in S
    OBVIOUS
  <2>2. N \in [1..13 -> S] /\ E \in [1..11 -> S]
    BY <2>1
  <2> HIDE DEF N, E, S
  <2>3. N \in UNION {[1..n -> S] : n \in Nat} /\ E \in UNION {[1..n -> S] : n \in Nat}
    <3>1. 13 \in Nat /\ 11 \in Nat
      OBVIOUS
    <3> QED BY <2>2, <3>1, Zenon
  <2> QED BY <2>3, SeqDef, Zenon
<1>4. Len(N) = 13 /\ Len(E) = 11
  <2>1. DOMAIN N = 1..13 /\ DOMAIN E = 1..11
    OBVIOUS
  <2> HIDE DEF N, E, S
  <2> QED BY <2>1, <1>3
<1>5. /\ \A i \in 1..13 : N[i].part = "nodes" /\ N[i].table = NodeTables[i]
      /\ \A i \in 1..11 : E[i].part = "edges" /\ E[i].table = EdgeTables[i]
  OBVIOUS
<1> HIDE DEF N, E, S
<1>6. /\ Len(N \o E) = 24
      /\ \A i \in 1..13 : (N \o E)[i] = N[i]
      /\ \A i \in 1..11 : (N \o E)[i + 13] = E[i]
  <2>1. /\ Len(N \o E) = Len(N) + Len(E)
        /\ \A i \in 1..(Len(N) + Len(E)) :
             (N \o E)[i] = IF i <= Len(N) THEN N[i] ELSE E[i - Len(N)]
    BY <1>3, ConcatProperties, Zenon
  <2> DEFINE R == N \o E
  <2>2. /\ Len(R) = Len(N) + Len(E)
        /\ \A i \in 1..(Len(N) + Len(E)) : R[i] = IF i <= Len(N) THEN N[i] ELSE E[i - Len(N)]
    BY <2>1, Zenon
  <2> HIDE DEF R
  <2>3. /\ Len(R) = 24
        /\ \A i \in 1..24 : R[i] = IF i <= 13 THEN N[i] ELSE E[i - 13]
    BY <2>2, <1>4
  <2>4. ASSUME NEW i \in 1..11 PROVE R[i + 13] = E[i]
    <3>1. i + 13 \in 1..24 /\ ~(i + 13 <= 13) /\ (i + 13) - 13 = i
      OBVIOUS
    <3> QED BY <3>1, <2>3
  <2>5. \A i \in 1..13 : R[i] = N[i]
    BY <2>3
  <2> QED BY <2>3, <2>4, <2>5, Zenon DEF R
<1>7. /\ Len(Reads) = 24
      /\ \A i \in 1..13 : Reads[i] = N[i]
      /\ \A i \in 1..11 : Reads[i + 13] = E[i]
  BY <1>2, <1>6, Zenon
<1>8. \A i \in 1..13 : Reads[i].part = "nodes" /\ Reads[i].table = NodeTables[i]
  BY <1>5, <1>7
<1>9. \A i \in 1..11 : Reads[i + 13].part = "edges" /\ Reads[i + 13].table = EdgeTables[i]
  BY <1>5, <1>7
<1> QED BY <1>7, <1>8, <1>9

LEMMA EdgesComeFromEdgeTables ==
  ASSUME NEW x, NEW e \in EdgesOf(x)
  PROVE  \E i \in 1..11 : x.table = EdgeTables[i]
<1>1. x.table \in {"Entitlement", "Membership", "Assignment", "EnterpriseProfile", "Delegation",
                   "CertificationCampaign", "ReviewItem", "ProvisioningJob",
                   "ProvisioningHistory", "RemediationJob", "AuditEvent"}
  BY DEF EdgesOf
<1>2. /\ EdgeTables[1] = "Entitlement" /\ EdgeTables[2] = "Membership"
      /\ EdgeTables[3] = "Assignment" /\ EdgeTables[4] = "EnterpriseProfile"
      /\ EdgeTables[5] = "Delegation" /\ EdgeTables[6] = "CertificationCampaign"
      /\ EdgeTables[7] = "ReviewItem" /\ EdgeTables[8] = "ProvisioningJob"
      /\ EdgeTables[9] = "ProvisioningHistory" /\ EdgeTables[10] = "RemediationJob"
      /\ EdgeTables[11] = "AuditEvent"
  BY DEF EdgeTables
<1> QED BY <1>1, <1>2

LEMMA HasNodeIs ==
  ASSUME NEW x PROVE HasNode(x) <=> \E i \in 1..13 : x.table = NodeTables[i]
<1>1. DOMAIN NodeTables = 1..13
  BY NodeTablesAre
<1> QED BY <1>1 DEF HasNode

LEMMA WholeGraphIs ==
  ASSUME NEW xs
  PROVE  /\ WholeGraph(xs).nodes = NodesOf(xs)
         /\ \A e : e \in WholeGraph(xs).edges <=>
                     Joins(e, NodesOf(xs)) /\ \E x \in xs : e \in EdgesOf(x)
  BY DEF WholeGraph, NodesOf

LEMMA Distinctness ==
  ASSUME CacheTypeOK, NEW r \in Clients PROVE r # None /\ (At(r, "build") <=> lock = r)
  BY GraphCacheAssumption DEF CacheTypeOK, GraphCacheAssumption

(* A step of one thread.                                                   *)
LEMMA TxUpdate ==
  ASSUME tx \in [Clients -> Request], NEW r \in Clients, NEW t \in Request, Update(r, t)
  PROVE  /\ tx' \in [Clients -> Request] /\ tx'[r] = t
         /\ \A q \in Clients : q # r => tx'[q] = tx[q]
  BY DEF Update

LEMMA IdleIsRequest == Idle \in Request
  BY DEF Idle, Request

(* What a finished build is.                                               *)
LEMMA DraftIsOfTheTables ==
  ASSUME CInv, lock # None, draft.step = Len(Reads) + 1
  PROVE  /\ WholeGraph(draft.kept).nodes \subseteq draft.graph.nodes
         /\ WholeGraph(draft.kept).edges \subseteq draft.graph.edges
         /\ draft.graph.nodes \subseteq WholeGraph(draft.ever).nodes
         /\ draft.graph.edges \subseteq WholeGraph(draft.ever).edges
<1>1. draft.step = 25 /\ Drafted /\ Whole(draft.graph)
  BY ReadsAre DEF CInv, CacheTypeOK
<1>2. NodesOf(draft.kept) \subseteq draft.graph.nodes
  <2> SUFFICES ASSUME NEW x \in draft.kept, HasNode(x) PROVE Self(x) \in draft.graph.nodes
    BY DEF NodesOf
  <2>1. PICK i \in 1..13 : x.table = NodeTables[i]
    BY HasNodeIs
  <2> QED BY <1>1, <2>1 DEF Drafted
<1>3. ASSUME NEW e \in WholeGraph(draft.kept).edges PROVE e \in draft.graph.edges
  <2>1. PICK x \in draft.kept : e \in EdgesOf(x)
    BY WholeGraphIs
  <2>2. Joins(e, NodesOf(draft.kept))
    BY WholeGraphIs
  <2>3. PICK i \in 1..11 : x.table = EdgeTables[i]
    BY <2>1, EdgesComeFromEdgeTables
  <2>4. i + 13 < draft.step
    BY <1>1
  <2> QED BY <1>1, <2>1, <2>2, <2>3, <2>4 DEF Drafted
<1>4. ASSUME NEW e \in draft.graph.edges PROVE e \in WholeGraph(draft.ever).edges
  <2>1. Joins(e, NodesOf(draft.ever))
    BY <1>1 DEF Whole, Joins, Drafted
  <2>2. \E x \in draft.ever : e \in EdgesOf(x)
    BY <1>1 DEF Drafted
  <2> QED BY <2>1, <2>2, WholeGraphIs
<1> QED BY <1>1, <1>2, <1>3, <1>4, WholeGraphIs DEF Drafted

-----------------------------------------------------------------------------
LEMMA InitInv == CacheInit => CInv
<1> SUFFICES ASSUME CacheInit PROVE CInv
  OBVIOUS
<1>1. NoDraft \in Draft /\ Whole(NoDraft.graph)
  BY ReadsAre DEF NoDraft, NewDraft, Draft, Graph, Empty, Whole
<1>2. \A r \in Clients : tx[r] = Idle
  BY DEF CacheInit
<1>3. CacheTypeOK
  BY <1>1, <1>2, IdleIsRequest, GraphCacheAssumption
     DEF CacheInit, CacheTypeOK, GraphCacheAssumption, At, Idle
<1>4. Drafted /\ Fresh
  BY <1>2 DEF CacheInit, Drafted, Fresh, Timely, At, Idle
<1> QED BY <1>3, <1>4 DEF CInv

(* A change takes from what is kept and adds to what has been there.       *)
LEMMA ChangeInv ==
  ASSUME CInv, NEW c \in Changes, Change(c) PROVE CInv'
<1>1. /\ c.drop \subseteq Rows /\ c.add \subseteq Rows /\ rows \subseteq Rows
      /\ made \in Nat /\ draft \in Draft /\ CacheTypeOK
  BY GraphCacheAssumption DEF GraphCacheAssumption, CInv, CacheTypeOK
<1>2. /\ rows' = (rows \ c.drop) \cup c.add /\ made' = made + 1
      /\ UNCHANGED <<asked, failed, cached, valid, version, lock, floor, tx>>
      /\ lock = None => draft' = draft
  BY DEF Change
<1>3. /\ draft' \in Draft
      /\ draft'.graph = draft.graph /\ draft'.step = draft.step /\ draft'.since = draft.since
      /\ lock # None => /\ draft'.kept = draft.kept \ c.drop
                        /\ draft'.ever = draft.ever \cup c.add
  <2>1. CASE lock = None
    BY <2>1, <1>1, <1>2
  <2>2. CASE lock # None
    <3> DEFINE d == [draft EXCEPT !.kept = draft.kept \ c.drop, !.ever = draft.ever \cup c.add]
    <3>1. draft' = d
      BY <2>2 DEF Change
    <3>2. draft.kept \ c.drop \in SUBSET Rows /\ draft.ever \cup c.add \in SUBSET Rows
      BY <1>1 DEF Draft
    <3>3. d \in Draft
      BY <3>2, <1>1 DEF Draft
    <3> QED BY <3>1, <3>3, <1>1, <2>2 DEF Draft
  <2> QED BY <2>1, <2>2
<1>4. CacheTypeOK'
  BY <1>1, <1>2, <1>3 DEF CacheTypeOK, At, Whole
<1>5. Drafted'
  <2> SUFFICES ASSUME lock # None PROVE Drafted'
    BY <1>2 DEF Drafted
  <2>1. /\ draft'.kept = draft.kept \ c.drop /\ draft'.ever = draft.ever \cup c.add /\ Drafted
    BY <1>3 DEF CInv
  <2>2. draft'.kept \subseteq rows' /\ rows' \subseteq draft'.ever
    BY <1>2, <2>1 DEF Drafted
  <2>3. /\ NodesOf(draft.ever) \subseteq NodesOf(draft'.ever)
        /\ NodesOf(draft'.kept) \subseteq NodesOf(draft.kept)
    BY <2>1 DEF NodesOf
  <2>4. /\ draft'.graph.nodes \subseteq NodesOf(draft'.ever)
        /\ \A e \in draft'.graph.edges : \E x \in draft'.ever : e \in EdgesOf(x)
    BY <1>3, <2>1, <2>3 DEF Drafted
  <2>5. \A x \in draft'.kept, i \in 1..13 :
          x.table = NodeTables[i] /\ i < draft'.step => Self(x) \in draft'.graph.nodes
    BY <1>3, <2>1 DEF Drafted
  <2>6. \A e : Joins(e, NodesOf(draft'.kept)) => Joins(e, NodesOf(draft.kept))
    BY <2>3 DEF Joins
  <2>7. \A x \in draft'.kept, i \in 1..11 :
          x.table = EdgeTables[i] /\ i + 13 < draft'.step =>
              \A e \in EdgesOf(x) : Joins(e, NodesOf(draft'.kept)) => e \in draft'.graph.edges
    BY <1>3, <2>1, <2>6 DEF Drafted
  <2> QED BY <2>2, <2>4, <2>5, <2>7 DEF Drafted
<1>6. Fresh'
  <2>1. floor \in Nat /\ draft.since \in Nat /\ tx \in [Clients -> Request]
    BY <1>1 DEF CacheTypeOK, Draft
  <2>2. ASSUME NEW r \in Clients PROVE Timely(r)'
    <3>1. Timely(r) /\ tx[r].floor \in Nat
      BY <2>1 DEF CInv, Fresh, Request
    <3> QED BY <3>1, <1>1, <1>2, <1>3 DEF Timely, At
  <2> QED BY <2>1, <2>2, <1>1, <1>2, <1>3 DEF CInv, Fresh
<1> QED BY <1>4, <1>5, <1>6 DEF CInv

LEMMA AskInv ==
  ASSUME CInv, NEW r \in Clients, NEW kind \in Kinds, Ask(r, kind) PROVE CInv'
<1> DEFINE t == [Idle EXCEPT !.pc = "wait", !.kind = kind,
                             !.floor = IF kind = "refresh" THEN made ELSE floor]
<1>1. CacheTypeOK /\ made \in Nat /\ floor \in Nat /\ asked \in Nat
  BY DEF CInv, CacheTypeOK
<1>2. /\ t \in Request /\ t.pc = "wait" /\ t.kind = kind /\ t.got = None
      /\ t.floor = IF kind = "refresh" THEN made ELSE floor
  BY <1>1 DEF Idle, Request
<1>3. /\ Update(r, t) /\ At(r, "idle") /\ asked' = asked + 1
      /\ UNCHANGED <<rows, made, failed, cached, valid, version, lock, draft, floor>>
  BY DEF Ask
<1> HIDE DEF t
<1>4. /\ tx' \in [Clients -> Request] /\ tx'[r] = t
      /\ \A q \in Clients : q # r => tx'[q] = tx[q]
  BY <1>1, <1>2, <1>3, TxUpdate DEF CacheTypeOK
<1>5. CacheTypeOK'
  BY <1>1, <1>2, <1>3, <1>4 DEF CacheTypeOK, At, Whole
<1>6. Drafted'
  BY <1>3 DEF CInv, Drafted
<1>7. Fresh'
  BY <1>1, <1>2, <1>3, <1>4 DEF CInv, Fresh, Timely, At
<1> QED BY <1>5, <1>6, <1>7 DEF CInv

LEMMA LoadCachedInv ==
  ASSUME CInv, NEW r \in Clients, LoadCached(r) PROVE CInv'
<1> DEFINE t == [tx[r] EXCEPT !.pc = "use", !.got = cached]
<1>1. CacheTypeOK /\ tx[r] \in Request /\ cached \in BuiltGraph /\ cached # None /\ valid
  BY DEF CInv, CacheTypeOK, LoadCached, Hit
<1>2. /\ t \in Request /\ t.pc = "use" /\ t.got = cached /\ t.floor = tx[r].floor
  BY <1>1 DEF Request
<1>3. /\ Update(r, t) /\ At(r, "wait") /\ tx[r].kind = "load"
      /\ UNCHANGED <<rows, made, asked, failed, cached, valid, version, lock, draft, floor>>
  BY DEF LoadCached, Waiting
<1> HIDE DEF t
<1>4. /\ tx' \in [Clients -> Request] /\ tx'[r] = t
      /\ \A q \in Clients : q # r => tx'[q] = tx[q]
  BY <1>1, <1>2, <1>3, TxUpdate DEF CacheTypeOK
<1>5. CacheTypeOK'
  BY <1>1, <1>2, <1>3, <1>4 DEF CacheTypeOK, At, Whole
<1>6. Drafted'
  BY <1>3 DEF CInv, Drafted
<1>7. Fresh'
  <2>1. cached.since \in Nat /\ tx[r].floor \in Nat /\ floor \in Nat
    BY <1>1 DEF BuiltGraph, Request, CacheTypeOK
  <2>2. cached.since >= tx[r].floor
    BY <1>1, <1>3, <2>1 DEF CInv, Fresh, Timely
  <2> QED BY <1>2, <1>3, <1>4, <2>2 DEF CInv, Fresh, Timely, At
<1> QED BY <1>5, <1>6, <1>7 DEF CInv

LEMMA BeginBuildInv ==
  ASSUME CInv, NEW r \in Clients, BeginBuild(r) PROVE CInv'
<1> DEFINE t == [tx[r] EXCEPT !.pc = "build"]
           d == NewDraft(made, rows)
<1>1. /\ CacheTypeOK /\ tx[r] \in Request /\ made \in Nat /\ floor \in Nat /\ rows \subseteq Rows
      /\ tx[r].floor \in Nat
  BY DEF CInv, CacheTypeOK, Request
<1>2. /\ t \in Request /\ t.pc = "build" /\ t.got = tx[r].got /\ t.floor = tx[r].floor
  BY <1>1 DEF Request
<1>3. /\ Update(r, t) /\ At(r, "wait") /\ lock = None /\ lock' = r /\ draft' = d
      /\ UNCHANGED <<rows, made, asked, failed, cached, valid, version, floor>>
  BY DEF BeginBuild, Waiting, Acquires
<1>4. /\ d \in Draft /\ d.graph = Empty /\ d.step = 1 /\ d.since = made
      /\ d.kept = rows /\ d.ever = rows /\ Whole(d.graph)
  <2>1. d = [graph |-> Empty, step |-> 1, since |-> made, kept |-> rows, ever |-> rows]
    BY DEF NewDraft
  <2>2. Empty \in Graph /\ Whole(Empty) /\ 1 \in 1..(Len(Reads) + 1)
    BY ReadsAre DEF Empty, Graph, Whole
  <2> QED BY <1>1, <2>1, <2>2 DEF Draft
<1> HIDE DEF t, d
<1>5. /\ tx' \in [Clients -> Request] /\ tx'[r] = t
      /\ \A q \in Clients : q # r => tx'[q] = tx[q]
  BY <1>1, <1>2, <1>3, TxUpdate DEF CacheTypeOK
<1>6. r # None /\ \A q \in Clients : q # None /\ ~At(q, "build")
  BY <1>1, <1>3, Distinctness
<1>7. tx[r].got = None /\ tx[r].floor <= made
  BY <1>1, <1>3 DEF CInv, Fresh, Timely, At
<1>8. CacheTypeOK'
  BY <1>1, <1>2, <1>3, <1>4, <1>5, <1>6, <1>7 DEF CacheTypeOK, At
<1>9. Drafted'
  <2>1. draft'.graph.nodes = {} /\ draft'.graph.edges = {}
    BY <1>3, <1>4 DEF Empty
  <2> QED BY <2>1, <1>3, <1>4 DEF Drafted
<1>10. Fresh'
  BY <1>1, <1>2, <1>3, <1>4, <1>5, <1>6, <1>7 DEF CInv, Fresh, Timely, At
<1> QED BY <1>8, <1>9, <1>10 DEF CInv

(* A SELECT adds what the rows of its table contribute.                    *)
LEMMA ReadInv ==
  ASSUME CInv, NEW r \in Clients, Read(r) PROVE CInv'
<1> DEFINE n     == draft.step
           found == {x \in rows : x.table = Reads[n].table}
           g     == IF Reads[n].part = "nodes" THEN AddNodes(draft.graph, found)
                    ELSE AddEdges(draft.graph, found)
           d     == [draft EXCEPT !.graph = g, !.step = n + 1]
<1>1. /\ CacheTypeOK /\ Drafted /\ rows \subseteq Rows /\ draft \in Draft /\ n \in 1..24
      /\ draft.graph \in Graph /\ Whole(draft.graph) /\ lock = r /\ r # None
  <2>1. CacheTypeOK /\ Drafted /\ draft \in Draft /\ Whole(draft.graph) /\ rows \subseteq Rows
    BY DEF CInv, CacheTypeOK
  <2>2. lock = r /\ r # None
    BY <2>1, Distinctness DEF Read
  <2>3. n \in 1..24 /\ draft.graph \in Graph
    BY <2>1, ReadsAre DEF Read, Draft
  <2> QED BY <2>1, <2>2, <2>3
<1>2. /\ draft' = d
      /\ UNCHANGED <<rows, made, asked, failed, cached, valid, version, lock, floor, tx>>
  BY DEF Read
<1>3. /\ g \in Graph /\ Whole(g) /\ draft.graph.nodes \subseteq g.nodes
      /\ draft.graph.edges \subseteq g.edges
      /\ \A v \in g.nodes : v \in draft.graph.nodes \/ \E x \in rows : HasNode(x) /\ v = Self(x)
      /\ \A e \in g.edges : e \in draft.graph.edges \/ \E x \in rows : e \in EdgesOf(x)
  <2>0. found \subseteq rows /\ found \subseteq Rows
    BY <1>1
  <2>1. CASE Reads[n].part = "nodes"
    <3>1. n \in 1..13
      <4>1. ASSUME n \notin 1..13 PROVE FALSE
        <5>1. n - 13 \in 1..11 /\ (n - 13) + 13 = n
          BY <1>1, <4>1
        <5>2. Reads[(n - 13) + 13].part = "edges"
          BY <5>1, ReadsAre
        <5> QED BY <2>1, <5>1, <5>2
      <4> QED BY <4>1
    <3>2. \A x \in found : HasNode(x) /\ Self(x) \in Nodes
      <4> SUFFICES ASSUME NEW x \in found PROVE HasNode(x) /\ Self(x) \in Nodes
        OBVIOUS
      <4>1. x.table = NodeTables[n]
        BY <3>1, ReadsAre
      <4>2. HasNode(x)
        BY <4>1, <3>1, HasNodeIs
      <4> QED BY <4>2, <2>0 DEF Nodes
    <3> HIDE DEF found, n
    <3>3. g = [draft.graph EXCEPT !.nodes = draft.graph.nodes \cup {Self(x) : x \in found}]
      BY <2>1 DEF AddNodes
    <3>4. /\ g.nodes = draft.graph.nodes \cup {Self(x) : x \in found}
          /\ g.edges = draft.graph.edges
      BY <3>3, <1>1 DEF Graph
    <3>5. g \in Graph
      <4>1. draft.graph.nodes \cup {Self(x) : x \in found} \in SUBSET Nodes
        BY <1>1, <3>2 DEF Graph
      <4> QED BY <3>3, <4>1, <1>1 DEF Graph
    <3> HIDE DEF g
    <3>6. Whole(g)
      BY <3>4, <1>1 DEF Whole, Joins
    <3> QED BY <3>2, <3>4, <3>5, <3>6, <2>0
  <2>2. CASE Reads[n].part # "nodes"
    <3> DEFINE new == {e \in UNION {EdgesOf(x) : x \in found} : Joins(e, draft.graph.nodes)}
    <3> HIDE DEF found, n
    <3>1. g = [draft.graph EXCEPT !.edges = draft.graph.edges \cup new]
      BY <2>2 DEF AddEdges
    <3>2. /\ g.edges = draft.graph.edges \cup new
          /\ g.nodes = draft.graph.nodes
      BY <3>1, <1>1 DEF Graph
    <3>3. new \subseteq Edges
      BY <2>0 DEF Edges
    <3>4. g \in Graph
      <4>1. draft.graph.edges \cup new \in SUBSET Edges
        BY <1>1, <3>3 DEF Graph
      <4> HIDE DEF new
      <4> QED BY <3>1, <4>1, <1>1 DEF Graph
    <3> HIDE DEF g
    <3>5. Whole(g)
      BY <3>2, <1>1 DEF Whole
    <3>6. \A e \in new : \E x \in rows : e \in EdgesOf(x)
      BY <2>0
    <3> QED BY <3>2, <3>4, <3>5, <3>6
  <2> QED BY <2>1, <2>2
<1>4. ASSUME NEW x \in rows, NEW i \in 1..13, x.table = NodeTables[i], i = n
      PROVE  Self(x) \in g.nodes
  <2>1. Reads[n].part = "nodes" /\ Reads[n].table = NodeTables[n]
    BY <1>4, ReadsAre
  <2>2. x \in found
    BY <2>1, <1>4
  <2> HIDE DEF found, n
  <2> QED BY <2>1, <2>2, <1>1 DEF AddNodes, Graph
<1>5. ASSUME NEW x \in rows, NEW i \in 1..11, x.table = EdgeTables[i], i + 13 = n,
             NEW e \in EdgesOf(x), Joins(e, draft.graph.nodes)
      PROVE  e \in g.edges
  <2>1. Reads[n].part = "edges" /\ Reads[n].table = EdgeTables[i]
    BY <1>5, ReadsAre
  <2>2. x \in found
    BY <2>1, <1>5
  <2> HIDE DEF found, n
  <2>3. e \in {f \in UNION {EdgesOf(y) : y \in found} : Joins(f, draft.graph.nodes)}
    BY <2>2, <1>5
  <2> QED BY <2>1, <2>3, <1>1 DEF AddEdges, Graph
<1> HIDE DEF g, found
<1>6. /\ d \in Draft /\ d.graph = g /\ d.step = n + 1 /\ d.since = draft.since
      /\ d.kept = draft.kept /\ d.ever = draft.ever
  <2>1. n + 1 \in 1..(Len(Reads) + 1)
    BY <1>1, ReadsAre
  <2> HIDE DEF n
  <2> QED BY <1>1, <1>3, <2>1 DEF Draft
<1> HIDE DEF d
<1>7. CacheTypeOK'
  BY <1>1, <1>2, <1>3, <1>6 DEF CacheTypeOK, At
<1>8. Drafted'
  <2>1. g.nodes \subseteq NodesOf(draft.ever)
    BY <1>1, <1>3 DEF Drafted, NodesOf
  <2>2. ASSUME NEW e \in g.edges PROVE \E x \in draft.ever : e \in EdgesOf(x)
    <3>1. /\ rows \subseteq draft.ever
          /\ \A f \in draft.graph.edges : \E x \in draft.ever : f \in EdgesOf(x)
      BY <1>1 DEF Drafted
    <3>2. e \in draft.graph.edges \/ \E x \in rows : e \in EdgesOf(x)
      BY <1>3
    <3> QED BY <3>1, <3>2
  <2>3. ASSUME NEW x \in draft.kept, NEW i \in 1..13, x.table = NodeTables[i], i < n + 1
        PROVE  Self(x) \in g.nodes
    <3>1. x \in rows
      BY <1>1 DEF Drafted
    <3>2. CASE i = n
      BY <3>1, <3>2, <2>3, <1>4
    <3>3. CASE i < n
      BY <3>3, <2>3, <1>1, <1>3 DEF Drafted
    <3> QED BY <3>2, <3>3, <2>3, <1>1
  <2>4. ASSUME NEW x \in draft.kept, NEW i \in 1..11, x.table = EdgeTables[i], i + 13 < n + 1,
               NEW e \in EdgesOf(x), Joins(e, NodesOf(draft.kept))
        PROVE  e \in g.edges
    <3>1. x \in rows
      BY <1>1 DEF Drafted
    <3>2. CASE i + 13 = n
      <4>1. NodesOf(draft.kept) \subseteq draft.graph.nodes
        <5> SUFFICES ASSUME NEW y \in draft.kept, HasNode(y)
                     PROVE  Self(y) \in draft.graph.nodes
          BY DEF NodesOf
        <5>1. PICK j \in 1..13 : y.table = NodeTables[j]
          BY HasNodeIs
        <5> QED BY <5>1, <3>2, <1>1 DEF Drafted
      <4>2. Joins(e, draft.graph.nodes)
        BY <4>1, <2>4 DEF Joins
      <4> QED BY <4>2, <3>1, <3>2, <2>4, <1>5
    <3>3. CASE i + 13 < n
      BY <3>3, <2>4, <1>1, <1>3 DEF Drafted
    <3> QED BY <3>2, <3>3, <2>4, <1>1
  <2> QED BY <2>1, <2>2, <2>3, <2>4, <1>1, <1>2, <1>6 DEF Drafted
<1>9. Fresh'
  BY <1>2, <1>6 DEF CInv, Fresh, Timely, At
<1> QED BY <1>7, <1>8, <1>9 DEF CInv

LEMMA InstallInv ==
  ASSUME CInv, NEW r \in Clients, Install(r) PROVE CInv'
<1> DEFINE built == [graph |-> draft.graph, since |-> draft.since]
           pc    == IF tx[r].kind = "load" THEN "use" ELSE "report"
           t     == [tx[r] EXCEPT !.pc = pc, !.got = built]
<1>1. /\ CacheTypeOK /\ tx[r] \in Request /\ draft \in Draft /\ Whole(draft.graph)
      /\ At(r, "build") /\ lock = r /\ r # None /\ draft.since \in Nat /\ floor \in Nat
      /\ version \in Nat /\ floor <= draft.since /\ tx[r].floor <= draft.since
      /\ tx[r].floor \in Nat /\ made \in Nat
  <2>1. CacheTypeOK /\ tx[r] \in Request /\ draft \in Draft /\ Whole(draft.graph)
        /\ At(r, "build") /\ floor \in Nat /\ version \in Nat /\ made \in Nat
    BY DEF CInv, CacheTypeOK, Install
  <2>2. lock = r /\ r # None
    BY <2>1, Distinctness
  <2>3. draft.since \in Nat /\ tx[r].floor \in Nat
    BY <2>1 DEF Draft, Request
  <2>4. floor <= draft.since /\ tx[r].floor <= draft.since
    BY <2>1, <2>2 DEF CInv, Fresh, Timely
  <2> QED BY <2>1, <2>2, <2>3, <2>4
<1>2. built \in BuiltGraph /\ built.since = draft.since /\ built.graph = draft.graph
  BY <1>1 DEF BuiltGraph, Draft
<1> HIDE DEF built
<1>3. /\ t \in Request /\ t.pc = pc /\ t.got = built /\ t.floor = tx[r].floor
      /\ pc \in {"use", "report"}
  BY <1>1, <1>2 DEF Request
<1>4. /\ Update(r, t) /\ cached' = built /\ valid' = TRUE /\ version' = version + 1
      /\ lock' = None /\ draft' = NoDraft /\ floor' = Larger(floor, draft.since)
      /\ UNCHANGED <<rows, made, asked, failed>>
  BY DEF Install, built
<1> HIDE DEF t, pc
<1>5. /\ tx' \in [Clients -> Request] /\ tx'[r] = t
      /\ \A q \in Clients : q # r => tx'[q] = tx[q]
  BY <1>1, <1>3, <1>4, TxUpdate DEF CacheTypeOK
<1>6. NoDraft \in Draft /\ Whole(NoDraft.graph)
  <2>1. Empty \in Graph /\ Whole(Empty) /\ 1 \in 1..(Len(Reads) + 1)
    BY ReadsAre DEF Empty, Graph, Whole
  <2> QED BY <2>1 DEF NoDraft, NewDraft, Draft
<1>7. \A q \in Clients : q # None /\ (q # r => ~At(q, "build"))
  BY <1>1, Distinctness
<1>8. floor' = draft.since
  BY <1>1, <1>4 DEF Larger
<1>9. CacheTypeOK'
  <2>1. \A q \in Clients : ~At(q, "build")' /\ q # lock'
    BY <1>3, <1>4, <1>5, <1>7 DEF At
  <2>2. /\ cached' \in BuiltGraph /\ Whole(cached'.graph)
        /\ \A q \in Clients : tx'[q].got # None => Whole(tx'[q].got.graph)
    BY <1>1, <1>2, <1>3, <1>4, <1>5 DEF CacheTypeOK
  <2> QED BY <2>1, <2>2, <1>1, <1>4, <1>5, <1>6, <1>8 DEF CacheTypeOK
<1>10. Drafted'
  BY <1>4 DEF Drafted
<1>11. draft.since <= made
  BY <1>1 DEF CInv, Fresh
<1>12. Fresh'
  <2>1. Timely(r)'
    BY <1>1, <1>2, <1>3, <1>5 DEF Timely, At
  <2>2. ASSUME NEW q \in Clients, q # r PROVE Timely(q)'
    <3>1. Timely(q) /\ tx[q] \in Request
      BY <1>1 DEF CInv, Fresh, CacheTypeOK
    <3>2. tx[q].floor \in Nat
      BY <3>1 DEF Request
    <3> QED BY <3>1, <3>2, <2>2, <1>1, <1>4, <1>5, <1>7, <1>8 DEF Timely, At
  <2> QED BY <2>1, <2>2, <1>1, <1>2, <1>4, <1>8, <1>11 DEF Fresh
<1> QED BY <1>9, <1>10, <1>12 DEF CInv

(* A build that fails leaves no trace.                                     *)
LEMMA FailInv ==
  ASSUME CInv, NEW r \in Clients, Fail(r) PROVE CInv'
<1>1. /\ CacheTypeOK /\ At(r, "build") /\ lock = r /\ failed \in Nat
  BY Distinctness DEF CInv, CacheTypeOK, Fail
<1>2. /\ Update(r, Idle) /\ failed' = failed + 1 /\ lock' = None /\ draft' = NoDraft
      /\ UNCHANGED <<rows, made, asked, cached, valid, version, floor>>
  BY DEF Fail
<1>3. /\ tx' \in [Clients -> Request] /\ tx'[r] = Idle
      /\ \A q \in Clients : q # r => tx'[q] = tx[q]
  BY <1>1, <1>2, TxUpdate, IdleIsRequest DEF CacheTypeOK
<1>4. NoDraft \in Draft /\ Whole(NoDraft.graph)
  BY ReadsAre DEF NoDraft, NewDraft, Draft, Graph, Empty, Whole
<1>5. \A q \in Clients : q # None /\ (q # r => ~At(q, "build"))
  BY <1>1, Distinctness
<1>6. /\ ~At(r, "build")' /\ tx'[r].got = None /\ tx'[r].pc = "idle"
      /\ \A q \in Clients : ~At(q, "build")'
  BY <1>3, <1>5 DEF At, Idle
<1>7. CacheTypeOK'
  BY <1>1, <1>2, <1>3, <1>4, <1>5, <1>6 DEF CacheTypeOK
<1>8. Drafted' /\ Fresh'
  BY <1>2, <1>3, <1>5, <1>6 DEF CInv, Drafted, Fresh, Timely, At
<1> QED BY <1>7, <1>8 DEF CInv

LEMMA InvalidateInv ==
  ASSUME CInv, NEW r \in Clients, Invalidate(r) PROVE CInv'
<1> DEFINE t == [tx[r] EXCEPT !.pc = "report"]
<1>1. /\ CacheTypeOK /\ tx[r] \in Request /\ At(r, "wait") /\ lock = None /\ made \in Nat
      /\ floor \in Nat /\ floor <= made
  BY DEF CInv, CacheTypeOK, Invalidate, Waiting, Acquires, Fresh
<1>2. t \in Request /\ t.pc = "report" /\ t.got = tx[r].got /\ t.floor = tx[r].floor
  BY <1>1 DEF Request
<1>3. /\ Update(r, t) /\ valid' = FALSE /\ floor' = made
      /\ UNCHANGED <<rows, made, asked, failed, cached, version, lock, draft>>
  BY DEF Invalidate
<1> HIDE DEF t
<1>4. /\ tx' \in [Clients -> Request] /\ tx'[r] = t
      /\ \A q \in Clients : q # r => tx'[q] = tx[q]
  BY <1>1, <1>2, <1>3, TxUpdate DEF CacheTypeOK
<1>5. tx[r].got = None
  BY <1>1 DEF CInv, Fresh, Timely, At
<1>6. CacheTypeOK'
  BY <1>1, <1>2, <1>3, <1>4, <1>5 DEF CacheTypeOK, At, Whole
<1>7. Drafted'
  BY <1>1, <1>3 DEF Drafted
<1>8. Fresh'
  <2>1. ASSUME NEW q \in Clients PROVE Timely(q)'
    <3>1. Timely(q) /\ tx[q].floor \in Nat
      BY <1>1 DEF CInv, Fresh, CacheTypeOK, Request
    <3> QED BY <3>1, <1>1, <1>2, <1>3, <1>4, <1>5 DEF Timely, At
  <2> QED BY <2>1, <1>1, <1>3 DEF Fresh
<1> QED BY <1>6, <1>7, <1>8 DEF CInv

(* What is over: the request has no more to do with the cache.             *)
LEMMA IdleInv ==
  ASSUME CInv, NEW r \in Clients, ~At(r, "build"), Update(r, Idle),
         UNCHANGED <<rows, made, asked, failed, cached, valid, version, lock, draft, floor>>
  PROVE  CInv'
<1>1. CacheTypeOK
  BY DEF CInv
<1>2. /\ tx' \in [Clients -> Request] /\ tx'[r] = Idle
      /\ \A q \in Clients : q # r => tx'[q] = tx[q]
  BY <1>1, TxUpdate, IdleIsRequest DEF CacheTypeOK
<1>3. tx'[r].pc = "idle" /\ tx'[r].got = None
  BY <1>2 DEF Idle
<1>4. CacheTypeOK'
  BY <1>1, <1>2, <1>3 DEF CacheTypeOK, At, Whole
<1>5. Drafted' /\ Fresh'
  BY <1>2, <1>3 DEF CInv, Drafted, Fresh, Timely, At
<1> QED BY <1>4, <1>5 DEF CInv

-----------------------------------------------------------------------------
LEMMA CacheStepInv ==
  ASSUME CInv, [CacheNext]_cacheVars PROVE CInv'
<1>1. CASE \E c \in Changes : Change(c)
  BY <1>1, ChangeInv
<1>2. ASSUME NEW r \in Clients, Serve(r) PROVE CInv'
  <2>1. CASE Status(r)
    BY <2>1, IdleInv DEF Status, Waiting, At
  <2>2. CASE Done(r)
    BY <2>2, IdleInv DEF Done, At
  <2> QED BY <1>2, <2>1, <2>2, LoadCachedInv, BeginBuildInv, ReadInv, InstallInv, InvalidateInv
          DEF Serve
<1>3. ASSUME NEW r \in Clients, Fail(r) PROVE CInv'
  BY <1>3, FailInv
<1>4. ASSUME NEW r \in Clients, NEW kind \in Kinds, Ask(r, kind) PROVE CInv'
  BY <1>4, AskInv
<1>5. CASE UNCHANGED cacheVars
  <2>1. CacheTypeOK'
    BY <1>5 DEF cacheVars, CInv, CacheTypeOK, At
  <2>2. Drafted' /\ Fresh'
    BY <1>5 DEF cacheVars, CInv, Drafted, Fresh, Timely, At
  <2> QED BY <2>1, <2>2 DEF CInv
<1> QED BY <1>1, <1>2, <1>3, <1>4, <1>5 DEF CacheNext

LEMMA CacheInvariant == CacheSpec => []CInv
  BY InitInv, CacheStepInv, PTL DEF CacheSpec

(***************************************************************************)
(* Type correctness of AuthorizationGraphCache: also that a graph never    *)
(* has an edge without its ends, and that one thread builds at a time.     *)
(***************************************************************************)
THEOREM TypeCorrect == CacheSpec => []CacheTypeOK
<1>1. CInv => CacheTypeOK
  BY DEF CInv
<1> QED BY <1>1, CacheInvariant, PTL

(***************************************************************************)
(* load, refresh and invalidate, in any number and any order: who asks for *)
(* the graph after an invalidation, or asks for a fresh one, is given one  *)
(* built from the tables as they were then or later.                       *)
(***************************************************************************)
THEOREM InvalidationHonoured == CacheSpec => []InvalidationIsHonoured
<1>1. CInv => InvalidationIsHonoured
  BY DEF CInv, Fresh, Timely, InvalidationIsHonoured
<1> QED BY <1>1, CacheInvariant, PTL

(***************************************************************************)
(* AuthorizationGraphBuilder.build, for any tables and any changes between *)
(* its SELECTs: the graph it returns shows every row that was there        *)
(* throughout, with its relationships, and nothing that never was.         *)
(***************************************************************************)
THEOREM GraphOfTheTables == CacheSpec => []GraphIsOfTheTables
<1>1. CInv => GraphIsOfTheTables
  <2> SUFFICES ASSUME CInv, NEW r \in Clients, At(r, "build"), draft.step = Len(Reads) + 1
               PROVE  /\ WholeGraph(draft.kept).nodes \subseteq draft.graph.nodes
                      /\ WholeGraph(draft.kept).edges \subseteq draft.graph.edges
                      /\ draft.graph.nodes \subseteq WholeGraph(draft.ever).nodes
                      /\ draft.graph.edges \subseteq WholeGraph(draft.ever).edges
    BY DEF GraphIsOfTheTables
  <2>1. lock # None
    BY Distinctness DEF CInv
  <2> QED BY <2>1, DraftIsOfTheTables
<1> QED BY <1>1, CacheInvariant, PTL
=============================================================================
