------------------------------ MODULE Catalogue ------------------------------
(***************************************************************************)
(* What a document becomes (internal/catalogue): the material read beside  *)
(* it (cmd/malmok/build.go), and the phases it is built in.                *)
(***************************************************************************)
EXTENDS Addons

CONSTANT Archives     \* directory -> the charts whose archives are in it

-----------------------------------------------------------------------------
(* The material.                                                           *)

\* Every listener's TLS that names the secret; the last one counts.
TLSOf(s, ref) ==
    LET all == FlattenSeq([i \in DOMAIN s.gateway.gateways |-> s.gateway.gateways[i].listeners])
        named == SelectSeq(all, LAMBDA l : \E t \in l.tls : t.secretRef = ref)
    IN  IF named = <<>> THEN {} ELSE Last(named).tls

NoMaterial == [dir |-> NoRef, format |-> "", cert |-> NoRef, key |-> NoRef, chain |-> NoRef,
               pfx |-> NoRef, passphrase |-> NoRef, warningDays |-> 0]

\* What a secret is made from: what its listener brings or, for one that
\* nobody describes, what pki.byoCert does.
BroughtFor(s, ref) ==
    LET tls == TLSOf(s, ref) IN
    IF tls = {} /\ s.pki.mode = "byo-cert"
    THEN {[NoMaterial EXCEPT !.cert = c.cert, !.key = c.key, !.chain = c.caCert] : c \in s.pki.byoCert}
    ELSE UNION {t.byo : t \in {u \in tls : u.source = "byo"}}

certFiles(byo) ==
    LET At(ref) == IF ref.body \in DOMAIN Contents THEN Contents[ref.body] ELSE <<>> IN
    IF byo.dir.scheme # "" THEN At(byo.dir) ELSE At(byo.cert) \o At(byo.key) \o At(byo.chain)

\* The hostnames of the listeners that name the secret.
ListenerHostnames(s, ref) ==
    {l.hostname : l \in {m \in UNION {ListenersOf(gw) : gw \in GatewaysOf(s)} :
                           \E t \in m.tls : t.secretRef = ref}} \ {""}

CertInput(s, ref, byo) ==
    [blocks |-> certFiles(byo), passphrase |-> byo.passphrase.body,
     hostnames |-> ListenerHostnames(s, ref),
     warningDays |-> IF byo.warningDays = 0 THEN DefaultExpiryWarningDays ELSE byo.warningDays]

Brought(s) == {ref \in GatewaySecretRefs(s) : BroughtFor(s, ref) # {}}
InputFor(s, ref) == CertInput(s, ref, CHOOSE byo \in BroughtFor(s, ref) : TRUE)

assembleBundles(s) == [ref \in Brought(s) |-> CHOOSE b \in Assemble(InputFor(s, ref)) : TRUE]

\* What is read for the document, and with which kind of reference.
Reads(s) ==
    UNION {{<<c.rootCert, FALSE>>, <<c.intermediateCert, FALSE>>, <<c.intermediateKey, TRUE>>} :
           c \in s.pki.privateCA}
    \cup {<<a.apiToken, TRUE>> : a \in s.pki.acme}
    \cup {<<s.registry.caCert, FALSE>>, <<s.registry.username, TRUE>>, <<s.registry.password, TRUE>>}
    \cup UNION {UNION {{<<byo.cert, FALSE>>, <<byo.key, TRUE>>, <<byo.chain, FALSE>>,
                        <<byo.passphrase, TRUE>>} : byo \in BroughtFor(s, ref)} : ref \in Brought(s)}

\* The commands stop before they check anything when a reference cannot be
\* read or a certificate that was brought makes no bundle.
MaterialFails(s, allowLiteral) ==
    \/ \E r \in Reads(s) : ~Resolves(r[1], r[2], allowLiteral)
    \/ \E ref \in Brought(s) : Assemble(InputFor(s, ref)) = {}

Charts(s) ==
    (IF WantsCertManager(s) THEN {"cert-manager"} ELSE {})
    \cup (IF WantsTrustBundle(s) THEN {"trust-manager"} ELSE {})
    \cup (IF Enabled(s) THEN {"victoria-metrics-k8s-stack"} ELSE {})
    \cup (IF s.platform.gitops.enabled = "true" THEN {"argo-cd"} ELSE {})

AllCharts == {"cert-manager", "trust-manager", "victoria-metrics-k8s-stack", "argo-cd"}

loadCharts(s) ==
    LET dir == s.registry.chartDir
        here == IF dir = "" THEN {} ELSE Charts(s) \cap Archives[dir]
    IN  [c \in AllCharts |-> IF c \in here THEN c ELSE ""]

resolveMaterial(s) ==
    LET Body(f(_)) == IF s.pki.privateCA = {} THEN ""
                      ELSE f(CHOOSE c \in s.pki.privateCA : TRUE).body
        Root(c) == c.rootCert
        Intermediate(c) == c.intermediateCert
        IntermediateKey(c) == c.intermediateKey
    IN  [trust |-> [ca |-> Or(Body(Root), s.registry.caCert.body),
                    host |-> s.registry.systemDefaultRegistry,
                    user |-> s.registry.username.body, pass |-> s.registry.password.body,
                    caPath |-> ""],
         pki |-> [root |-> Body(Root), cert |-> Body(Intermediate), key |-> Body(IntermediateKey),
                  acme |-> IF s.pki.acme = {} THEN ""
                           ELSE (CHOOSE a \in s.pki.acme : TRUE).apiToken.body],
         bundles |-> assembleBundles(s),
         charts |-> loadCharts(s)]

-----------------------------------------------------------------------------
(* The phases.                                                             *)

roles(s) == [servers |-> s.topology.servers, agents |-> s.topology.agents]
Hosts(nodes) == [i \in DOMAIN nodes |-> nodes[i].host]

\* A phase gives every node of it, in order, its steps.
Phase(id, grade, steps) == [id |-> id, grade |-> grade, steps |-> steps]

\* The first server runs what is for the cluster.
Once(id, grade, steps) == IF steps = <<>> THEN <<>> ELSE <<Phase(id, grade, steps)>>

vipFailure(h) == FailedStep("vip-interface", h)

vipSteps(h, s) ==
    LET named == (CHOOSE v \in s.topology.vip : TRUE).interface IN
    IF VIPAddress(s) = "" THEN <<>>
    ELSE IF named \notin {"", "auto"} THEN VIPSteps(h, s, named)
    ELSE IF Cardinality(ResolveVIPInterface(h)) # 1 THEN <<vipFailure(h)>>
    ELSE VIPSteps(h, s, CHOOSE i \in ResolveVIPInterface(h) : TRUE)

\* The token is read from the first server when a node's turn comes; a node
\* whose token cannot be read has that failure for its only step.
tokenStep(first, h) ==
    [Step("token", h) EXCEPT !.present = {<<first, "token">>}, !.needs = {<<first, "token">>}]

joinPhase(id, nodes, s, server) ==
    LET first == s.topology.servers[1].host IN
    Once(id, "mutating", FlattenSeq([i \in DOMAIN nodes |->
        <<tokenStep(first, nodes[i].host)>> \o JoinSteps(nodes[i], s, server, "token")]))

Phases(s, m) ==
    LET servers == roles(s).servers
        agents == roles(s).agents
        first == servers[1]
        control == first.host
        all == Hosts(servers \o agents)
        prestage == When(WantsCilium(s),
                         <<PrestageStep(control, "cilium-values", CiliumHelmConfig(s))>>)
        issuer == IF Issues(s.pki.mode) THEN "malmok" ELSE ""
    IN  Once("l0-node-prep", "mutating",
             FlattenSeq([i \in DOMAIN all |-> NodePrepSteps(all[i], s, m.trust)]))
        \o Once("l1-bootstrap", "mutating", BootstrapSteps(first, s, prestage) \o vipSteps(control, s))
        \o joinPhase("l1-join-server", Tail(servers), s, TRUE)
        \o joinPhase("l1-join-agent", agents, s, FALSE)
        \o Once("l2-dataplane", "disruptive", DataplaneSteps(control, s))
        \o Once("l2-storage", "additive", StorageSteps(control, s))
        \o Once("l2-pki", "additive", PkiSteps(control, s, m.pki, m.charts))
        \o Once("l2-gateway", "additive", GatewaySteps(control, s, m.bundles, issuer))
        \o Once("l2-observability", "additive", ObservabilitySteps(control, s, m.charts))
        \o Once("l2-platform", "additive", PlatformSteps(control, s, m.trust, m.charts))

=============================================================================
