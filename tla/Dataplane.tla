------------------------------ MODULE Dataplane ------------------------------
(***************************************************************************)
(* l2-dataplane (internal/dataplane): the cluster network as the document  *)
(* wants it, on a cluster that runs RKE2's bundled one.                    *)
(***************************************************************************)
EXTENDS Rke2

GatewayAPIVersion == "v1.5"

isCilium(s) == s.kubernetes.dataplane.preset \in {"cilium-gw", "cilium-traefik"}
WantsCilium(s) == s.kubernetes.dataplane.preset \in {"cilium-gw", "cilium-traefik"}
WantsGatewayAPI(s) == s.kubernetes.dataplane.preset = "cilium-gw"
WantsHTTP2(s) == WantsGatewayAPI(s) /\ s.gateway.http2 = "true"
usesBGP(s) == \E v \in s.topology.vip : v.mode \in {"bgp", "BGP"}
NodeIPGateways(s) == \E gw \in GatewaysOf(s) : gw.exposure = "node-ips"
gatewaysNameNodeSubset(s) ==
    \E gw \in GatewaysOf(s) : gw.exposure = "node-ips" /\ gw.nodeIPs # {}
hasPrivilegedListener(s) ==
    \E gw \in GatewaysOf(s) : \E l \in ListenersOf(gw) : l.port \in 1..1023

\* TLS passthrough needs a kind that only the wider bundle carries.
gatewayAPIChannel(s) ==
    IF \E gw \in GatewaysOf(s) : \E l \in ListenersOf(gw) : l.protocol = "TLS"
    THEN "experimental" ELSE "standard"

GatewayAPIBundle(s) == IF WantsGatewayAPI(s) THEN gatewayAPIChannel(s) ELSE ""

\* The values Cilium's chart is rendered with.
CiliumHelmConfig(s) ==
    [kubeProxyReplacement |-> TRUE,
     operators |-> IF Len(AllNodes(s)) < 2 THEN 1 ELSE 2,
     gatewayAPI |-> WantsGatewayAPI(s), alpn |-> WantsHTTP2(s),
     hostNetwork |-> WantsGatewayAPI(s) /\ NodeIPGateways(s),
     labelled |-> WantsGatewayAPI(s) /\ NodeIPGateways(s) /\ gatewaysNameNodeSubset(s),
     bindService |-> WantsGatewayAPI(s) /\ NodeIPGateways(s) /\ hasPrivilegedListener(s),
     l2 |-> s.kubernetes.dataplane.pool # {} /\ ~usesBGP(s)]

LoadBalancerPool(s) == s.kubernetes.dataplane.pool
L2AnnouncementPolicy(s) == s.kubernetes.dataplane.pool # {} /\ ~usesBGP(s)

-----------------------------------------------------------------------------
CoreDNSStep(h) == WaitStep("coredns", h, Object("coredns"), {Object("rke2-coredns")})

BundledDataplaneStep(h) ==
    [WaitStep("bundled-dataplane", h, Object("coredns"), {Object("canal"), Object("rke2-coredns")})
     EXCEPT !.present = @ \cup {Object("canal")}]

\* The channel is part of what is fetched and not of what is compared.
GatewayCRDStep(h, s) ==
    LET from == IF s.kubernetes.artifactPath # "" THEN <<h, "gateway-api">> ELSE <<"site", "internet">>
    IN  [Step("gateway-api-crds", h) EXCEPT
         !.finds = {<<Object("gateway-api"), GatewayAPIVersion>>}, !.needs = {API, from},
         !.writes = <<Put(Object("gateway-api-channel"), gatewayAPIChannel(s)),
                      Put(Object("gateway-api"), GatewayAPIVersion)>>]

\* What the chart is told, and only then what its pods have read: the chart
\* is run again by the cluster some time after its values changed.
CiliumValuesStep(h, s) ==
    ManifestStep("cilium-values", h, CiliumHelmConfig(s), Object("helmchartconfig"))

Rerun(h) == Copy(Object("cilium-config"), <<h, "cilium-values">>)

\* Four of the values are what cilium-config is compared by.
CiliumKeys(c) ==
    [kubeProxyReplacement |-> c.kubeProxyReplacement, gatewayAPI |-> c.gatewayAPI,
     hostNetwork |-> c.hostNetwork, alpn |-> c.alpn]

\* The Do waits until the chart has been run again.
CiliumAppliedStep(h, s) ==
    [Step("cilium-applied", h) EXCEPT
     !.carries = {<<Object("cilium-config"), CiliumKeys(CiliumHelmConfig(s))>>},
     !.needs = {API, Object("cilium")}, !.writes = <<Rerun(h)>>]

\* A pod reads the configuration when it starts, so no pod may be older than
\* it.  The operator registers for the Gateway API when it starts, too.
CiliumCurrentStep(h) ==
    [Step("cilium-current", h) EXCEPT
     !.agrees = {<<Object("cilium-pods"), Object("cilium-config")>>}, !.needs = {API, Object("cilium")},
     !.writes = <<Copy(Object("operator"), Object("gateway-api")),
                  Copy(Object("cilium-pods"), Object("cilium-config"))>>]

\* With no class the chart is run again, and the operator is restarted: it
\* looks for the CRDs only once.
GatewayClassStep(h) ==
    [WaitStep("gatewayclass", h, Object("gatewayclass"), {Object("gateway-api"), Object("cilium")})
     EXCEPT !.writes = <<Copy(Object("operator"), Object("gateway-api"))>> \o @]

DataplaneSteps(h, s) ==
    IF ~isCilium(s) THEN <<BundledDataplaneStep(h)>>
    ELSE When(WantsGatewayAPI(s), <<GatewayCRDStep(h, s)>>)
         \o <<CiliumValuesStep(h, s), CiliumAppliedStep(h, s)>>
         \o When(LoadBalancerPool(s) # {},
                 <<ManifestStep("lb-pool", h, LoadBalancerPool(s), Object("lb-pool"))>>)
         \o When(L2AnnouncementPolicy(s),
                 <<ManifestStep("l2-announcement", h, "control-plane", Object("l2-policy"))>>)
         \o <<CiliumCurrentStep(h), CoreDNSStep(h)>>
         \o When(WantsGatewayAPI(s), <<GatewayClassStep(h)>>)

=============================================================================
