-------------------------- MODULE AuthorizationGraph --------------------------
(***************************************************************************)
(* The authorization graph (app/graph/models.py, app/graph/builder.py):    *)
(* which node and which edges each row of the tables contributes, and the  *)
(* order in which a build reads the tables.  A node is a type and an id;   *)
(* labels, references and properties are left out, and edges that differ   *)
(* in nothing else are one.  A reference that is NULL is None, and None is *)
(* no node's id.                                                           *)
(***************************************************************************)
EXTENDS Naturals, Sequences, FiniteSets

GraphNode(type, id) == <<type, id>>

GraphEdge(source, target, type) == [source |-> source, target |-> target, type |-> type]

Empty == [nodes |-> {}, edges |-> {}]

(* What each of the five functions that add nodes reads, in its order; the *)
(* connectors come from the registry.  Memberships and access assignments  *)
(* are edges only.                                                         *)
IdentityNodes    == <<"User", "Group", "EnterpriseProfile">>
ApplicationNodes == <<"Application", "Entitlement">>
ConnectorNodes   == <<"Connector">>
GovernanceNodes  == <<"CertificationCampaign", "ReviewItem">>
OperationsNodes  == <<"Delegation", "ProvisioningJob", "ProvisioningHistory",
                      "RemediationJob", "AuditEvent">>

NodeTables == IdentityNodes \o ApplicationNodes \o ConnectorNodes \o GovernanceNodes
                \o OperationsNodes

EdgeTables == <<"Entitlement", "Membership", "Assignment", "EnterpriseProfile", "Delegation",
                "CertificationCampaign", "ReviewItem", "ProvisioningJob",
                "ProvisioningHistory", "RemediationJob", "AuditEvent">>

-----------------------------------------------------------------------------
User(id)   == GraphNode("User", id)
Self(x)    == GraphNode(x.table, x.id)
HasNode(x) == \E i \in DOMAIN NodeTables : NodeTables[i] = x.table

IdentityEdges(x) ==
    CASE x.table = "Entitlement" ->
           {GraphEdge(Self(x), GraphNode("Application", x.application), "GRANTS_ACCESS_TO")}
      [] x.table = "Membership" ->
           {GraphEdge(User(x.user), GraphNode("Group", x.group), "MEMBER_OF")}
      [] x.table = "Assignment" ->
           {GraphEdge(User(x.user), GraphNode("Entitlement", x.entitlement), "HAS_ENTITLEMENT")}
      [] x.table = "EnterpriseProfile" ->
           {GraphEdge(User(x.user), Self(x), "CONNECTED_TO"),
            GraphEdge(User(x.user), User(x.manager), "MANAGED_BY")}

(* A scope of another type is no node: the edge is left out.               *)
DelegationEdges(x) ==
    {GraphEdge(User(x.delegate), Self(x), "DELEGATED_TO"),
     GraphEdge(User(x.created_by), Self(x), "AUDITED_BY")}
      \cup {GraphEdge(Self(x), GraphNode(type, x.scope_id), "CONNECTED_TO") :
              type \in {x.scope_type} \cap {"Application", "Group", "Entitlement"}}

GovernanceEdges(x) ==
    IF x.table = "CertificationCampaign"
      THEN {GraphEdge(User(u), Self(x), "REVIEWED_IN") : u \in {x.created_by, x.reviewer}}
      ELSE {GraphEdge(Self(x), GraphNode("CertificationCampaign", x.campaign), "REVIEWED_IN")}
             \cup {GraphEdge(n, Self(x), "REVIEWED_IN") :
                     n \in {User(x.user), User(x.reviewer),
                            GraphNode("Application", x.application),
                            GraphNode("Entitlement", x.entitlement),
                            GraphNode("Group", x.group)}}

(* The target id of a job for an entitlement is the id of the user.        *)
TargetType(x) == CASE x.target_type \in {"user", "entitlement"} -> {"User"}
                   [] x.target_type = "group"                   -> {"Group"}
                   [] OTHER                                     -> {}

ProvisioningEdges(x) ==
    IF x.table = "ProvisioningHistory"
      THEN {GraphEdge(Self(x), GraphNode("ProvisioningJob", x.job), "PROVISIONED_BY")}
      ELSE {GraphEdge(Self(x), GraphNode("Connector", x.connector), "CONNECTED_TO")}
             \cup {GraphEdge(GraphNode(type, x.target), Self(x), "PROVISIONED_BY") :
                     type \in TargetType(x)}

RemediationEdges(x) ==
    {GraphEdge(GraphNode("ReviewItem", x.item), Self(x), "REMEDIATED_BY"),
     GraphEdge(Self(x), GraphNode("CertificationCampaign", x.campaign), "REMEDIATED_BY"),
     GraphEdge(User(x.initiated_by), Self(x), "AUDITED_BY"),
     GraphEdge(Self(x), GraphNode("ProvisioningJob", x.job), "PROVISIONED_BY")}

AuditEdges(x) ==
    {GraphEdge(n, Self(x), "AUDITED_BY") :
       n \in {User(x.requester), User(x.target), GraphNode("Application", x.application),
              GraphNode("Entitlement", x.entitlement)}}

EdgesOf(x) ==
    CASE x.table \in {"Entitlement", "Membership", "Assignment", "EnterpriseProfile"} ->
           IdentityEdges(x)
      [] x.table = "Delegation" -> DelegationEdges(x)
      [] x.table \in {"CertificationCampaign", "ReviewItem"} -> GovernanceEdges(x)
      [] x.table \in {"ProvisioningJob", "ProvisioningHistory"} -> ProvisioningEdges(x)
      [] x.table = "RemediationJob" -> RemediationEdges(x)
      [] x.table = "AuditEvent" -> AuditEdges(x)
      [] OTHER -> {}

-----------------------------------------------------------------------------
(* The graph after one more SELECT, of the rows xs.                        *)
AddNodes(graph, xs) == [graph EXCEPT !.nodes = @ \cup {Self(x) : x \in xs}]

Joins(e, nodes) == e.source \in nodes /\ e.target \in nodes

(* Mutant: only the source is looked up.                                   *)
AddEdgesFromNodes(graph, xs) ==
    [graph EXCEPT !.edges = @ \cup
        {e \in UNION {EdgesOf(x) : x \in xs} : e.source \in graph.nodes}]

(* _add_edge_if_nodes_exist.                                               *)
AddEdges(graph, xs) ==
    [graph EXCEPT !.edges = @ \cup
        {e \in UNION {EdgesOf(x) : x \in xs} : Joins(e, graph.nodes)}]

(* Mutant: the relationships of identities are read with the identities.   *)
ReadsEarly ==
    LET nodes == [i \in DOMAIN NodeTables |-> [part |-> "nodes", table |-> NodeTables[i]]]
        edges == [i \in DOMAIN EdgeTables |-> [part |-> "edges", table |-> EdgeTables[i]]]
    IN  SubSeq(nodes, 1, 3) \o SubSeq(edges, 2, 3) \o SubSeq(nodes, 4, Len(nodes))
          \o SubSeq(edges, 1, 1) \o SubSeq(edges, 4, Len(edges))

(* The SELECTs of a build, in their order.                                 *)
Reads ==
    [i \in DOMAIN NodeTables |-> [part |-> "nodes", table |-> NodeTables[i]]]
      \o [i \in DOMAIN EdgeTables |-> [part |-> "edges", table |-> EdgeTables[i]]]

(* What the tables say at one moment: the graph a build is to return.      *)
WholeGraph(rows) ==
    LET nodes == {Self(x) : x \in {y \in rows : HasNode(y)}}
    IN  [nodes |-> nodes, edges |-> {e \in UNION {EdgesOf(x) : x \in rows} : Joins(e, nodes)}]
=============================================================================
