------------------------------ MODULE Document ------------------------------
(***************************************************************************)
(* The document malmok builds from: its schema (api/v1alpha1), the         *)
(* defaults a profile fills in, and the rules a document has to meet       *)
(* before anything reads it (internal/spec).                               *)
(*                                                                         *)
(* A field nobody set is "" (a string), "unset" (a boolean behind a        *)
(* pointer) or {} (a structure behind a pointer).  Fields that only        *)
(* decorate (annotations, the DNS record sheet, cipher suites) are left    *)
(* out.                                                                    *)
(***************************************************************************)
EXTENDS Integers, Sequences, FiniteSets, SequencesExt

CONSTANTS IPs,        \* the strings that parse as an address
          CIDRs,      \* the strings that parse as a prefix
          Loopback    \* the hosts that only mean the machine malmok runs on

-----------------------------------------------------------------------------
(* The schema.                                                             *)

Flag == {"unset", "true", "false"}
Optional(S) == {x \in SUBSET S : Cardinality(x) <= 1}

\* A value kept elsewhere.  body is what reading it yields, "" when it
\* cannot be read.
SourceRef == [scheme : {"", "file", "env", "literal", "sops", "vault"}, body : STRING]
NoRef == [scheme |-> "", body |-> ""]

NetworkSpec == [mode : STRING, proxy : BOOLEAN, podCIDR : STRING, svcCIDR : STRING,
                routing : STRING, encrypt : Flag]

NodeSpec == [host : STRING, nodeIP : STRING, hostname : STRING, gpu : BOOLEAN,
             labels : SUBSET STRING, taints : SUBSET STRING,
             user : STRING, secret : SourceRef]

VIPSpec == [provider : STRING, address : STRING, interface : STRING, mode : STRING]

TopologySpec == [registrationAddress : STRING, acceptNodeRegistration : BOOLEAN,
                 vip : Optional(VIPSpec), servers : Seq(NodeSpec), agents : Seq(NodeSpec),
                 tlsSAN : SUBSET STRING]

EtcdSpec == [schedule : STRING, retention : Int, target : STRING, s3 : BOOLEAN]

DataplaneSpec == [preset : STRING, fallback : STRING, downgradePolicy : STRING,
                  pool : SUBSET STRING]

KubernetesSpec == [version : STRING, artifactPath : STRING, dataplane : DataplaneSpec,
                   disableBundled : SUBSET STRING, kubeletArgs : SUBSET STRING,
                   apiServerArgs : SUBSET STRING, etcd : EtcdSpec]

ACMESpec == [email : STRING, server : STRING, dnsProvider : STRING, apiToken : SourceRef,
             accessKeyID : STRING]
PrivateCASpec == [rootCert : SourceRef, intermediateCert : SourceRef,
                  intermediateKey : SourceRef, selfSign : Flag]
BYOCertSpec == [cert : SourceRef, key : SourceRef, caCert : SourceRef]
PKISpec == [mode : STRING, domain : STRING, acme : Optional(ACMESpec),
            privateCA : Optional(PrivateCASpec), byoCert : Optional(BYOCertSpec),
            clusterBundle : Flag]

RegistrySpec == [mode : STRING, systemDefaultRegistry : STRING, username : SourceRef,
                 password : SourceRef, caCert : SourceRef, insecure : Flag,
                 mirrors : SUBSET [upstream : STRING, endpoints : SUBSET STRING], chartRepo : STRING, chartDir : STRING]

StorageSpec == [driver : STRING, defaultClass : Flag, replicas : Int, nfs : BOOLEAN]

BYOMaterial == [dir : SourceRef, format : STRING, cert : SourceRef, key : SourceRef,
                chain : SourceRef, pfx : SourceRef, passphrase : SourceRef, warningDays : Int]
ListenerTLS == [source : STRING, secretRef : STRING, byo : Optional(BYOMaterial)]
ListenerSpec == [name : STRING, protocol : STRING, port : Int, hostname : STRING,
                 tls : Optional(ListenerTLS)]
Gateway == [name : STRING, namespace : STRING, address : STRING, exposure : STRING,
            nodeIPs : SUBSET STRING, listeners : Seq(ListenerSpec),
            routeNamespaces : STRING, namespaceSelector : SUBSET STRING, zone : STRING]
GatewaySpec == [gatewayClass : STRING, domainSuffix : STRING, gateways : Seq(Gateway),
                http2 : Flag, contractConfigMap : STRING]

GitOpsSpec == [enabled : Flag, source : STRING, ociRepo : STRING, gitRepo : STRING,
               branch : STRING, bootstrapApps : SUBSET STRING]
ObservabilitySpec == [enabled : Flag, stack : STRING, retention : STRING,
                      storageSize : STRING, grafana : Flag]
PlatformSpec == [gitops : GitOpsSpec, observability : ObservabilitySpec, ageKey : SourceRef]

ClusterSpec ==
    [apiVersion : STRING, kind : STRING, name : STRING, profile : STRING,
     network : NetworkSpec, topology : TopologySpec, os : [family : STRING, disableSwap : Flag],
     kubernetes : KubernetesSpec, pki : PKISpec, registry : RegistrySpec,
     storage : StorageSpec, gateway : GatewaySpec, platform : PlatformSpec]

\* What the schema's own methods answer.
SwapDisabled(s) == s.os.disableSwap # "false"
EmbeddedMirror(s) == s.registry.mode = "embedded"

AllNodes(s) == s.topology.servers \o s.topology.agents
NodesOf(s) == ToSet(AllNodes(s))
GatewaysOf(s) == ToSet(s.gateway.gateways)
ListenersOf(gw) == ToSet(gw.listeners)
VIPAddress(s) == IF \E v \in s.topology.vip : v.address # ""
                 THEN (CHOOSE v \in s.topology.vip : TRUE).address ELSE ""

-----------------------------------------------------------------------------
(* Reading it.                                                             *)

ThisVersion == "malmok.dev/v1alpha1"

\* A document of another version or kind is not read at all.
Parses(s) == s.apiVersion = ThisVersion /\ s.kind = "ClusterSpec"

\* The value behind a reference.  A file or a variable that is not there has the
\* empty body (one that is there and empty is left out), a literal is refused where
\* the field is a secret, and a scheme nobody implements is an error.
Resolves(ref, secret, allowLiteral) ==
    \/ ref.scheme = ""
    \/ ref.scheme \in {"file", "env"} /\ ref.body # ""
    \/ ref.scheme = "literal" /\ (~secret \/ allowLiteral)

\* The references that carry a secret, in every part of the document.
SecretRefs(s) ==
    {ref \in {n.secret : n \in NodesOf(s)}
         \cup {s.registry.username, s.registry.password, s.platform.ageKey}
         \cup {a.apiToken : a \in s.pki.acme}
         \cup {c.intermediateKey : c \in s.pki.privateCA}
         \cup {c.key : c \in s.pki.byoCert}
         \cup {m.passphrase : m \in UNION {t.byo : t \in
                  UNION {l.tls : l \in UNION {ListenersOf(gw) : gw \in GatewaysOf(s)}}}}
     : ref.scheme # ""}

-----------------------------------------------------------------------------
(* The profiles.                                                           *)

Baseline(family, mode, fallback, preset, policy, pki, storage, registry, gitops, obs, strict) ==
    [family |-> family, mode |-> mode, preset |-> preset, fallback |-> fallback,
     policy |-> policy, pki |-> pki, storage |-> storage, registry |-> registry,
     gitops |-> gitops, observability |-> obs, encrypt |-> strict, pinned |-> strict]

Baselines ==
    [homelab |-> Baseline("ubuntu", "online", "canal-traefik", "cilium-gw", "auto", "none",
                          "local-path", "embedded", "git", TRUE, FALSE),
     company_prod |-> Baseline("ubuntu", "online", "canal-traefik", "cilium-gw", "auto",
                               "acme-http01", "longhorn", "embedded", "git", TRUE, FALSE),
     onprem_dmz |-> Baseline("ubuntu", "proxy", "canal-traefik", "cilium-gw", "confirm",
                             "private-ca", "longhorn", "external", "oci", TRUE, TRUE),
     airgap_ubuntu |-> Baseline("ubuntu", "airgap", "canal-traefik", "cilium-gw", "confirm",
                                "private-ca", "longhorn", "internal", "oci", FALSE, TRUE),
     airgap_rocky |-> Baseline("rocky", "airgap", "canal-traefik", "cilium-gw", "confirm",
                               "private-ca", "longhorn", "internal", "oci", FALSE, TRUE),
     airgap_conservative |-> Baseline("rocky", "airgap", "", "canal-traefik", "confirm",
                                      "private-ca", "nfs", "internal", "oci", FALSE, TRUE)]

Or(value, default) == IF value = "" THEN default ELSE value

\* What a profile fills in, and only where the document says nothing.  The
\* document keeps its own preset, and then no fallback to that same preset.
FilledNetwork(n, b) ==
    [n EXCEPT !.mode = Or(@, b.mode), !.routing = Or(@, "overlay"),
              !.encrypt = IF @ = "unset" /\ b.encrypt THEN "true" ELSE @]

FilledDataplane(d, b) ==
    LET preset == Or(d.preset, b.preset) IN
    [d EXCEPT !.preset = preset,
              !.fallback = IF b.fallback # preset THEN Or(@, b.fallback) ELSE @,
              !.downgradePolicy = Or(@, b.policy)]

FilledObservability(o, b) ==
    [o EXCEPT !.enabled = IF @ = "unset" THEN IF b.observability THEN "true" ELSE "false" ELSE @,
              !.stack = IF b.observability THEN Or(@, "victoria-metrics") ELSE @]

Filled(s, b) ==
    [s EXCEPT
     !.os.family = IF @ \in {"", "auto"} THEN b.family ELSE @,
     !.network = FilledNetwork(@, b),
     !.kubernetes = [@ EXCEPT !.dataplane = FilledDataplane(@, b),
                              !.disableBundled = @ \cup {"rke2-ingress-nginx"}],
     !.pki.mode = Or(@, b.pki),
     !.storage.driver = Or(@, b.storage),
     !.registry.mode = Or(@, b.registry),
     !.platform = [@ EXCEPT !.gitops.source = Or(@, b.gitops),
                            !.observability = FilledObservability(@, b)]]

KnownProfile(s) == s.profile \in {"", "custom"} \cup DOMAIN Baselines

ApplyProfile(s) ==
    IF s.profile \in {"", "custom"} THEN s ELSE Filled(s, Baselines[s.profile])

-----------------------------------------------------------------------------
(* The rules.  Each operator is the set of rules a document breaks.        *)

Broken(rules) == {r[1] : r \in {q \in rules : q[2]}}

NetworkErrors(s) == Broken({
    <<"proxy", s.network.mode = "proxy" /\ ~s.network.proxy>>,
    <<"network-mode", s.network.mode \notin {"online", "proxy", "airgap"}>>,
    <<"cidr", ~({s.network.podCIDR, s.network.svcCIDR} \subseteq CIDRs \cup {""})>>,
    <<"routing", s.network.routing \notin {"", "overlay", "native"}>>})

\* The node whose own address everybody would register through.
RegistersThrough(t, n) ==
    t.registrationAddress = n.host \/ (n.nodeIP # "" /\ t.registrationAddress = n.nodeIP)

Twice(names) == \E i, j \in DOMAIN names : i # j /\ names[i] # "" /\ names[i] = names[j]

NodeRules(s) ==
    LET all == AllNodes(s) IN {
    <<"host", \E n \in NodesOf(s) : n.host = "">>,
    <<"host-twice", Twice([i \in DOMAIN all |-> all[i].host])>>,
    <<"hostname-twice", Twice([i \in DOMAIN all |-> all[i].hostname])>>,
    <<"loopback", \E n \in NodesOf(s) : n.host \in Loopback /\ n.nodeIP = "">>,
    <<"nodeIP", \E n \in NodesOf(s) : n.nodeIP \notin IPs \cup {""}>>,
    <<"gpu", \E n \in NodesOf(s) : n.gpu>>}

TopologyErrors(s) ==
    LET t == s.topology IN
    Broken(NodeRules(s)) \cup Broken({
    <<"registration", t.registrationAddress = "">>,
    <<"servers", t.servers = <<>> >>,
    <<"own-address", /\ ~t.acceptNodeRegistration
                     /\ \E n \in NodesOf(s) : RegistersThrough(t, n)>>,
    <<"own-address-beside-vip", /\ t.acceptNodeRegistration /\ VIPAddress(s) # ""
                                /\ \E n \in NodesOf(s) : RegistersThrough(t, n)>>,
    <<"vip-provider", \E v \in t.vip : v.provider \notin {"kube-vip", "none", "byo"}>>,
    <<"vip-address", \E v \in t.vip : v.provider = "kube-vip" /\ v.address \notin IPs>>})

AllGatewaysOnNodeIPs(s) ==
    /\ s.gateway.gateways # <<>>
    /\ \A gw \in GatewaysOf(s) : gw.exposure = "node-ips"

EtcdErrors(e) == Broken({
    <<"s3", e.s3>>,
    <<"snapshot-url", e.target = "url">>,
    <<"snapshot-relative", e.target = "relative">>,
    <<"snapshot-retention", e.retention < 0>>,
    <<"snapshot-schedule", e.schedule = "not-five-fields">>})

KubernetesErrors(s) ==
    LET d == s.kubernetes.dataplane IN
    EtcdErrors(s.kubernetes.etcd) \cup Broken({
    <<"version", s.kubernetes.version = "">>,
    <<"swap", ~SwapDisabled(s) /\ "fail-swap-on" \notin s.kubernetes.kubeletArgs>>,
    <<"pool", /\ d.preset \in {"cilium-gw", "cilium-traefik"} /\ d.pool = {}
              /\ s.gateway.gateways # <<>> /\ ~AllGatewaysOnNodeIPs(s)>>,
    <<"preset", d.preset \notin {"cilium-gw", "cilium-traefik", "canal-traefik"}>>,
    <<"pool-cidr", ~(d.pool \subseteq CIDRs)>>,
    <<"downgrade", d.downgradePolicy \notin {"", "auto", "confirm", "forbid"}>>,
    <<"fallback", d.fallback # "" /\ d.fallback = d.preset>>})

ACMEErrors(p) ==
    LET a == CHOOSE a \in p.acme : TRUE IN
    IF p.acme = {} THEN {"acme-email"} ELSE Broken({
    <<"acme-email", a.email = "">>,
    <<"dns-provider", p.mode = "acme-dns01" /\ a.dnsProvider = "">>,
    <<"route53", /\ p.mode = "acme-dns01" /\ a.dnsProvider = "route53"
                 /\ (a.accessKeyID # "") # (a.apiToken.scheme # "")>>})

PKIErrors(s) ==
    LET p == s.pki IN
    (IF p.mode \in {"acme-dns01", "acme-http01"} THEN ACMEErrors(p) ELSE {}) \cup Broken({
    <<"domain", p.mode \notin {"", "none"} /\ p.domain = "">>,
    <<"private-ca", p.mode = "private-ca" /\ p.privateCA = {}>>,
    <<"private-ca-material", p.mode = "private-ca" /\ \E c \in p.privateCA :
          /\ c.selfSign # "true"
          /\ \E r \in {c.rootCert, c.intermediateCert, c.intermediateKey} : r.scheme = "">>,
    <<"byo-cert", p.mode = "byo-cert" /\ \A c \in p.byoCert :
          c.cert.scheme = "" \/ c.key.scheme = "">>,
    <<"pki-mode", p.mode \notin {"none", "acme-dns01", "acme-http01", "private-ca", "byo-cert"}>>,
    <<"root-key", \E c \in p.privateCA : c.rootCert.body = "key">>})

\* Whether anything the document asks for comes as a chart.
WantsCharts(s) ==
    \/ s.pki.mode \notin {"", "none", "byo-cert"}
    \/ s.platform.observability.enabled = "true"
    \/ s.platform.gitops.enabled = "true"

RegistryErrors(s) ==
    LET r == s.registry
        airgap == s.network.mode = "airgap"
    IN  Broken({
    <<"registry", r.mode \in {"external", "byo"} /\ r.systemDefaultRegistry = "">>,
    <<"upstream-airgap", r.mode = "upstream" /\ airgap>>,
    <<"registry-mode", r.mode \notin {"embedded", "upstream", "external", "internal", "byo"}>>,
    <<"no-images", airgap /\ r.systemDefaultRegistry = "" /\ s.kubernetes.artifactPath = "">>,
    <<"no-artifacts", airgap /\ s.kubernetes.artifactPath = "">>,
    <<"no-charts", airgap /\ r.chartRepo = "" /\ r.chartDir = "" /\ WantsCharts(s)>>})

StorageErrors(s) ==
    LET st == s.storage
        n == Len(AllNodes(s))
    IN  Broken({
    <<"replicas", st.driver = "longhorn" /\ (st.replicas < 0 \/ (n < 2 /\ st.replicas > n))>>,
    <<"nfs", st.driver = "nfs" /\ ~st.nfs>>,
    <<"driver", st.driver \notin {"local-path", "byo-csi", "longhorn", "nfs"}>>})

ListenerTLSErrors(l) ==
    (IF l.protocol = "HTTPS" /\ l.hostname = "" THEN {"hostname"} ELSE {})
    \cup UNION {Broken({
    <<"tls-source", t.source \notin {"", "acme", "private-ca", "passthrough", "secret", "byo"}>>,
    <<"secretRef", t.source = "secret" /\ t.secretRef = "">>,
    <<"byo", t.source = "byo" /\ t.byo = {}>>,
    <<"byo-material", t.source = "byo" /\ \E m \in t.byo :
          m.dir.scheme = "" /\ (m.cert.scheme = "" \/ m.key.scheme = "")>>,
    <<"byo-format", t.source = "byo" /\ \E m \in t.byo :
          m.format \notin {"", "pem"} \/ m.pfx.scheme # "" \/ m.warningDays < 0>>}) : t \in l.tls}

ExposureErrors(s, gw) == Broken({
    <<"nodeIPs", gw.exposure \in {"", "loadBalancer"} /\ gw.nodeIPs # {}>>,
    <<"pinned-node-ips", gw.exposure = "node-ips" /\ gw.address # "">>,
    <<"foreign-node-ip", /\ gw.exposure = "node-ips"
          /\ ~(gw.nodeIPs \subseteq UNION {{n.host, n.nodeIP} : n \in NodesOf(s)} \ {""})>>,
    <<"exposure", gw.exposure \notin {"", "loadBalancer", "node-ips"}>>})

MixedExposure(s) ==
    /\ \E gw \in GatewaysOf(s) : gw.exposure = "node-ips"
    /\ \E gw \in GatewaysOf(s) : gw.exposure # "node-ips"

ListenerErrors(gw) ==
    LET ls == gw.listeners IN
    UNION {IF l.protocol \in {"HTTPS", "TLS"} THEN ListenerTLSErrors(l) ELSE {} : l \in ToSet(ls)}
    \cup Broken({
    <<"listener-name", \E l \in ToSet(ls) : l.name = "">>,
    <<"port", \E l \in ToSet(ls) : l.port \notin 1..65535>>,
    <<"port-twice", \E i, j \in DOMAIN ls : i # j /\ ls[i].port = ls[j].port>>,
    <<"protocol", \E l \in ToSet(ls) : l.protocol \notin {"HTTP", "HTTPS", "TLS"}>>})

GatewayErrors(s) ==
    LET gws == s.gateway.gateways IN
    UNION {ExposureErrors(s, gw) \cup ListenerErrors(gw) : gw \in ToSet(gws)}
    \cup Broken({
    <<"domainSuffix", s.gateway.domainSuffix = "" /\ s.pki.mode # "none">>,
    <<"gateway-name", \E gw \in ToSet(gws) : gw.name = "">>,
    <<"gateway-twice", \E i, j \in DOMAIN gws : /\ i # j
          /\ <<gws[i].namespace, gws[i].name>> = <<gws[j].namespace, gws[j].name>> >>,
    <<"gateway-address", \E gw \in ToSet(gws) : gw.address \notin IPs \cup {""}>>,
    <<"mixed-exposure", MixedExposure(s)>>,
    <<"selector", \E gw \in ToSet(gws) :
          gw.routeNamespaces = "selector" /\ gw.namespaceSelector = {}>>,
    <<"no-listeners", \E gw \in ToSet(gws) : gw.listeners = <<>> >>})

Validate(s, allowLiteral) ==
    NetworkErrors(s) \cup TopologyErrors(s) \cup KubernetesErrors(s) \cup PKIErrors(s)
    \cup RegistryErrors(s) \cup StorageErrors(s) \cup GatewayErrors(s) \cup Broken({
    <<"name", s.name = "">>,
    <<"plaintext", ~allowLiteral /\ \E ref \in SecretRefs(s) : ref.scheme = "literal">>})

\* A document the program goes on to read: it parses, its profile is known,
\* and with the profile's defaults it breaks no rule.
Accepted(s, allowLiteral) ==
    /\ Parses(s)
    /\ KnownProfile(s)
    /\ Validate(ApplyProfile(s), allowLiteral) = {}

=============================================================================
