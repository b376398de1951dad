-------------------------------- MODULE Plan --------------------------------
(***************************************************************************)
(* What is decided once the checks are in (internal/plan): the dataplane   *)
(* and the storage the machines can carry, and whether the document allows *)
(* anything less than it asks for.                                         *)
(***************************************************************************)
EXTENDS Preflight

EBPFProbes == {"PF-201", "PF-202", "PF-203", "PF-204"}
NetfilterProbes == {"PF-207"}

Passed(node, id) == id \in DOMAIN node /\ node[id] = "pass"
FailedAt(node, ids) == {id \in ids \cap DOMAIN node : node[id] = "fail"}

\* Only a pass is a pass: what could not be measured is not usable either.
EBPFUsable(node) == \A id \in EBPFProbes : Passed(node, id)

Unusable(nodes) == {h \in DOMAIN nodes : ~EBPFUsable(nodes[h])}
AgentHosts(s) == {n.host : n \in ToSet(s.topology.agents)}

\* Wrong: nodes are left out whatever their part in the cluster.
decideDataplaneAnyNode(s, nodes) ==
    LET preset == s.kubernetes.dataplane.preset
        bad == Unusable(nodes)
        kept == [dataplane |-> preset, excluded |-> {}, downgrades |-> {}, warnings |-> {}] IN
    IF preset = "canal-traefik" \/ bad = {} THEN kept
    ELSE IF bad # DOMAIN nodes THEN [kept EXCEPT !.excluded = bad]
    ELSE [kept EXCEPT !.dataplane = "canal-traefik", !.downgrades = {"DG-001"}]

\* The nodes are left out when all of them are agents and others remain;
\* otherwise the whole cluster gets the fallback.
decideDataplane(s, nodes) ==
    LET preset == s.kubernetes.dataplane.preset
        bad == Unusable(nodes)
        fallback == Or(s.kubernetes.dataplane.fallback, "canal-traefik")
        kept == [dataplane |-> preset, excluded |-> {}, downgrades |-> {}, warnings |-> {}] IN
    CASE preset = "canal-traefik" ->
           [kept EXCEPT !.warnings = IF \E h \in DOMAIN nodes : FailedAt(nodes[h], NetfilterProbes) # {}
                                     THEN {"PF-207"} ELSE {}]
      [] preset # "canal-traefik" /\ bad = {} -> kept
      [] preset # "canal-traefik" /\ bad # {} /\ bad \subseteq AgentHosts(s) /\ bad # DOMAIN nodes ->
           [kept EXCEPT !.excluded = bad, !.warnings = {"DG-003"}]
      [] OTHER ->
           [kept EXCEPT !.dataplane = fallback,
                        !.downgrades = {"DG-001"} \cup
                            IF preset = "cilium-gw" /\ fallback # "cilium-gw" THEN {"DG-002"} ELSE {}]

decideStorage(s, nodes, excluded) ==
    LET lacking == {h \in DOMAIN nodes \ excluded : FailedAt(nodes[h], LonghornProbes) # {}} IN
    IF s.storage.driver = "longhorn" /\ lacking # {}
    THEN [storage |-> "local-path", downgrades |-> {"DG-020"}]
    ELSE [storage |-> s.storage.driver, downgrades |-> {}]

checkGatewayAddresses(s) ==
    IF \E gw \in GatewaysOf(s) : gw.exposure # "node-ips" /\ gw.address = "" THEN {"PF-612"} ELSE {}

Downgraded(p) == p.downgrades # {}

\* The plan, with the reason there is none.  The document's policy decides
\* what becomes of a downgrade; approve is the caller's answer to confirm.
Generate(s, nodes, approve) ==
    LET network == decideDataplane(s, nodes)
        disks == decideStorage(s, nodes, network.excluded)
        downgrades == network.downgrades \cup disks.downgrades
        policy == Or(s.kubernetes.dataplane.downgradePolicy, "auto") IN
    [error |-> CASE nodes = <<>> -> "no-capabilities"
                 [] nodes # <<>> /\ (\E h \in DOMAIN nodes : Blocking(nodes[h]) # {}) -> "blocked"
                 [] OTHER -> CASE downgrades # {} /\ policy = "forbid" -> "forbidden"
                               [] downgrades # {} /\ policy = "confirm" /\ ~approve -> "needs-approval"
                               [] OTHER -> "",
     dataplane |-> network.dataplane, storage |-> disks.storage,
     nodes |-> DOMAIN nodes \ network.excluded, excluded |-> network.excluded,
     downgrades |-> downgrades,
     warnings |-> network.warnings \cup checkGatewayAddresses(s)]

=============================================================================
