------------------------------- MODULE MCGraph -------------------------------
(* The cache over a small firm with a row in most tables, and the searches *)
(* of every graph of three users, a group and an entitlement, with up to   *)
(* seven edges.                                                            *)
(* The two meet in a graph that never changes, so each is explored while   *)
(* the other rests.                                                        *)
EXTENDS GraphCache, GraphQuery

U(id)             == [table |-> "User", id |-> id]
Profile(id, u, m) == [table |-> "EnterpriseProfile", id |-> id, user |-> u, manager |-> m]
Member(u, g)      == [table |-> "Membership", user |-> u, group |-> g]
Assigned(u, e)    == [table |-> "Assignment", user |-> u, entitlement |-> e]
Job(id, type, u)  == [table |-> "ProvisioningJob", id |-> id, connector |-> "scim",
                      target_type |-> type, target |-> u]
Record(id, job)   == [table |-> "ProvisioningHistory", id |-> id, job |-> job]

MCInitialRows ==
    {U("ann"), U("bob"), [table |-> "Group", id |-> "ops"],
     Profile("pa", "ann", "bob"), Profile("pb", "bob", None),
     Member("ann", "ops"), Member("bob", "ops"),
     [table |-> "Application", id |-> "crm"],
     [table |-> "Entitlement", id |-> "read", application |-> "crm"],
     [table |-> "Connector", id |-> "scim"],
     Assigned("bob", "read"), Job("j1", "entitlement", "bob"), Record("h1", "j1"),
     [table |-> "CertificationCampaign", id |-> "c1", created_by |-> "ann", reviewer |-> "ann"],
     [table |-> "ReviewItem", id |-> "i1", campaign |-> "c1", user |-> "bob",
      reviewer |-> "ann", application |-> "crm", entitlement |-> "read", group |-> None],
     [table |-> "Delegation", id |-> "d1", delegate |-> "bob", created_by |-> "ann",
      scope_type |-> "Application", scope_id |-> "crm"]}

(* A user is provisioned, access is revoked and remediated.                *)
MCChanges ==
    {[drop |-> {Profile("pb", "bob", None)},
      add |-> {U("cyd"), Profile("pc", "cyd", "ann"), Profile("pb", "bob", "cyd"),
               Job("j2", "user", "cyd"), Record("h2", "j2")}],
     [drop |-> {Assigned("bob", "read"), Member("ann", "ops")},
      add |-> {[table |-> "RemediationJob", id |-> "r1", item |-> "i1", campaign |-> "c1",
                initiated_by |-> "ann", job |-> None],
               [table |-> "AuditEvent", id |-> "a1", requester |-> "ann", target |-> "bob",
                application |-> "crm", entitlement |-> "read"]}]}

MCRows == MCInitialRows \cup UNION {c.add : c \in MCChanges}

-----------------------------------------------------------------------------
Ann == User("ann")
Bob == User("bob")
Cyd == User("cyd")
Ops == GraphNode("Group", "ops")

Access == GraphNode("Entitlement", "read")

MCNodes == {Ann, Bob, Cyd, Ops, Access}
MCEdgeList == <<GraphEdge(Ann, Bob, "MANAGED_BY"), GraphEdge(Bob, Cyd, "MANAGED_BY"),
                GraphEdge(Cyd, Bob, "MANAGED_BY"), GraphEdge(Ann, Ops, "MEMBER_OF"),
                GraphEdge(Cyd, Ops, "MEMBER_OF"), GraphEdge(Bob, Access, "HAS_ENTITLEMENT"),
                GraphEdge(Cyd, Access, "HAS_ENTITLEMENT")>>
MCEdges == {MCEdgeList[i] : i \in DOMAIN MCEdgeList}
MCRank == [e \in MCEdges |-> CHOOSE i \in DOMAIN MCEdgeList : MCEdgeList[i] = e]
MCPosition(e) == MCRank[e]

Init == CacheInit /\ QueryInit
Next == \/ search = Resting /\ CacheNext /\ UNCHANGED search
        \/ asked + made = 0 /\ QueryNext /\ UNCHANGED cacheVars

Spec == Init /\ [][Next]_<<cacheVars, search>> /\ CacheFairness /\ QueryFairness

(* A request for the graph and a search of it both come to an end.         *)
AllEnds == RequestsAreServed /\ SearchesEnd
=============================================================================
