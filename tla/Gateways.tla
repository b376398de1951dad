------------------------------ MODULE Gateways ------------------------------
(***************************************************************************)
(* l2-gateway (internal/gateway): the certificates, the gateways and the   *)
(* record of them that applications read.                                  *)
(***************************************************************************)
EXTENDS Dataplane, Certificates

DefaultNamespace == "gateway-system"

namespaceOfGateway(gw) == Or(gw.namespace, DefaultNamespace)

\* The namespace of whatever the phase makes one of.
namespaceOf(s) ==
    LET named == SelectSeq(s.gateway.gateways, LAMBDA gw : gw.namespace # "") IN
    IF named = <<>> THEN DefaultNamespace ELSE named[1].namespace

contractName(s) == Or(s.gateway.contractConfigMap, "malmok-platform")

gatewayClass(s) ==
    IF s.gateway.gatewayClass # "" THEN s.gateway.gatewayClass
    ELSE IF isCilium(s) THEN "cilium" ELSE "traefik"

\* The secret a listener terminates with.
ListenerSecret(gw, l) ==
    IF l.protocol # "HTTPS" THEN ""
    ELSE LET named == {t.secretRef : t \in l.tls} \ {""} IN
         IF named # {} THEN CHOOSE r \in named : TRUE
         ELSE gw.name \o "-" \o l.name \o "-tls"

Pairs(s) == UNION {{<<gw, l>> : l \in ListenersOf(gw)} : gw \in GatewaysOf(s)}

GatewaySecretRefs(s) == {ListenerSecret(p[1], p[2]) : p \in {q \in Pairs(s) : q[2].protocol = "HTTPS"}}

\* The listeners an issuer signs for: not those whose secret is somebody
\* else's to bring.
IssuedListeners(s) ==
    {[secret |-> ListenerSecret(p[1], p[2]), namespace |-> namespaceOfGateway(p[1]),
      host |-> Or(p[2].hostname, s.gateway.domainSuffix)] :
     p \in {q \in Pairs(s) : q[2].protocol = "HTTPS"
                             /\ \A t \in q[2].tls : t.source \notin {"secret", "byo"}}}

ListenerCertificates(s, issuer) == IF issuer = "" THEN {} ELSE IssuedListeners(s)

AllowedRoutes(gw) ==
    CASE gw.routeNamespaces = "all" -> [from |-> "All", labels |-> {}]
      [] gw.routeNamespaces = "selector" -> [from |-> "Selector", labels |-> gw.namespaceSelector]
      [] OTHER -> [from |-> "Same", labels |-> {}]

ListenerBody(gw, l) ==
    [name |-> l.name, protocol |-> l.protocol, port |-> l.port, hostname |-> l.hostname,
     certificate |-> ListenerSecret(gw, l),
     mode |-> CASE l.protocol = "HTTPS" -> "Terminate"
                [] l.protocol = "TLS" /\ l.tls # {} -> "Passthrough"
                [] OTHER -> "",
     routes |-> AllowedRoutes(gw)]

NamespaceManifest(s) == {namespaceOfGateway(gw) : gw \in GatewaysOf(s)}

GatewayManifest(s) ==
    [i \in DOMAIN s.gateway.gateways |->
        LET gw == s.gateway.gateways[i] IN
        [name |-> gw.name, namespace |-> namespaceOfGateway(gw), zone |-> gw.zone,
         class |-> gatewayClass(s), address |-> gw.address,
         listeners |-> {ListenerBody(gw, l) : l \in ListenersOf(gw)}]]

gatewayNodeIPs(s, gw) ==
    IF gw.nodeIPs # {} THEN gw.nodeIPs ELSE {Or(n.nodeIP, n.host) : n \in NodesOf(s)}

ContractManifest(s) ==
    [class |-> gatewayClass(s), domainSuffix |-> s.gateway.domainSuffix,
     gateways |-> {[name |-> gw.name, namespace |-> namespaceOfGateway(gw), zone |-> gw.zone,
                    address |-> IF gw.exposure = "node-ips" THEN gatewayNodeIPs(s, gw)
                                ELSE {gw.address} \ {""}] : gw \in GatewaysOf(s)}]

-----------------------------------------------------------------------------
TLSSecret(ns, ref) == <<"cluster", "secret", ns, ref>>
GatewayObject(ns, name) == <<"cluster", "gateway", ns, name>>
Programmed(ns, name) == <<"cluster", "programmed", ns, name>>
Namespace(ns) == <<"cluster", "namespace", ns>>

\* Wrong: the fingerprint is applied before what it stands for.
SecretStepMarkedFirst(h, ns, ref, bundle) ==
    [Step("tls-" \o ref, h) EXCEPT
     !.finds = {<<<<"cluster", "fingerprint", ns, ref>>, bundle.fingerprint>>}, !.needs = {API},
     !.writes = <<Put(Namespace(ns), "applied"),
                  Put(<<"cluster", "fingerprint", ns, ref>>, bundle.fingerprint),
                  Put(TLSSecret(ns, ref), bundle)>>]

\* The secret as the document's bundle is; what is compared is the
\* certificate it was made from.
SecretStep(h, ns, ref, bundle) ==
    [Step("tls-" \o ref, h) EXCEPT
     !.finds = {<<<<"cluster", "fingerprint", ns, ref>>, bundle.fingerprint>>}, !.needs = {API},
     !.writes = <<Put(Namespace(ns), "applied"),
                  PutAll(Just(TLSSecret(ns, ref), bundle)
                         ++ Just(<<"cluster", "fingerprint", ns, ref>>, bundle.fingerprint))>>]

NamespacesStep(h, s) ==
    ManifestsStep("namespaces", h, NamespaceManifest(s), Namespace(namespaceOf(s)),
                  {Namespace(ns) : ns \in NamespaceManifest(s)})

CertificateObject(c) == <<"cluster", "certificate", c.namespace, c.secret>>

ListenerCertsStep(h, s, issuer) ==
    LET certs == ListenerCertificates(s, issuer)
        first == CHOOSE c \in certs : TRUE IN
    [ManifestsStep("listener-certs", h, certs, CertificateObject(first),
                   {CertificateObject(c) : c \in certs})
     EXCEPT !.needs = @ \cup {Namespace(c.namespace) : c \in certs} \cup {Object("cert-manager")}]

\* A challenge over HTTP is answered through the gateways the issuer names.
Solvers(s) == {GatewayObject(namespaceOfGateway(gw), gw.name) : gw \in GatewaysOf(s)}

\* What the issuer signs with: the document's intermediate, or a public one.
SigningChain(s) ==
    IF s.pki.mode # "private-ca" THEN ACMEChain
    ELSE <<Contents[(CHOOSE c \in s.pki.privateCA : TRUE).intermediateCert.body][1]>>

IssuerWrites(s, c) ==
    Put(TLSSecret(c.namespace, c.secret), IssuedBundle(c.host, c.secret, SigningChain(s)))

ListenerCertsReadyStep(h, s) ==
    [Step("listener-certs-ready", h) EXCEPT
     !.present = {TLSSecret(c.namespace, c.secret) : c \in IssuedListeners(s)},
     !.needs = {API, Object("issuer-ready")} \cup {CertificateObject(c) : c \in IssuedListeners(s)}
               \cup IF s.pki.mode = "acme-http01" THEN Solvers(s) ELSE {},
     !.writes = SetToSeq({IssuerWrites(s, c) : c \in IssuedListeners(s)})]

\* Where the first gateway's object is looked for.
GatewaysStep(h, s) ==
    [ManifestsStep("gateways", h, GatewayManifest(s),
                   GatewayObject(namespaceOf(s), s.gateway.gateways[1].name),
                   {GatewayObject(namespaceOfGateway(gw), gw.name) : gw \in GatewaysOf(s)})
     EXCEPT !.needs = @ \cup {Object("gateway-api")}]

ContractStep(h, s) ==
    ManifestStep("contract", h, ContractManifest(s),
                 <<"cluster", "configmap", namespaceOf(s), contractName(s)>>)

\* The nodes Envoy is bound on, by their addresses.
NodeLabelStep(h, s) ==
    LET chosen == UNION {gw.nodeIPs : gw \in {g \in GatewaysOf(s) : g.exposure = "node-ips"}} IN
    [FileStep("gateway-nodes", h, "", chosen) EXCEPT
     !.finds = {<<Object("gateway-nodes"), chosen>>}, !.needs = {API},
     !.writes = <<Put(Object("gateway-nodes"), chosen)>>]

\* What a gateway works with: its class, and the secrets it terminates with.
Serves(s, gw) ==
    {GatewayObject(namespaceOfGateway(gw), gw.name), Object("gatewayclass")}
    \cup {TLSSecret(namespaceOfGateway(gw), ListenerSecret(gw, l)) :
          l \in {m \in ListenersOf(gw) : m.protocol = "HTTPS"}}

AnswersStep(h, s, gw) ==
    WaitStep("answers-" \o gw.name, h, Programmed(namespaceOfGateway(gw), gw.name),
             Serves(s, gw) \cup IF gw.nodeIPs # {} THEN {Object("gateway-nodes")} ELSE {})

ProgrammedStep(h, s, gw) ==
    WaitStep("programmed-" \o gw.name, h, Programmed(namespaceOfGateway(gw), gw.name),
             Serves(s, gw) \cup {Object("lb-pool")})

GatewaySteps(h, s, bundles, issuer) ==
    LET gws == s.gateway.gateways
        \* The nodes are labelled once, before the first gateway that needs it.
        Waits(i) ==
            IF gws[i].exposure = "node-ips"
            THEN When(/\ gws[i].nodeIPs # {}
                      /\ \A j \in 1..(i - 1) : ~(gws[j].exposure = "node-ips" /\ gws[j].nodeIPs # {}),
                      <<NodeLabelStep(h, s)>>)
                 \o <<AnswersStep(h, s, gws[i])>>
            ELSE <<ProgrammedStep(h, s, gws[i])>>
    IN  IF gws = <<>> THEN <<>>
        ELSE SetToSeq({SecretStep(h, namespaceOf(s), ref, bundles[ref]) : ref \in DOMAIN bundles})
             \o <<NamespacesStep(h, s)>>
             \o When(ListenerCertificates(s, issuer) # {},
                     <<ListenerCertsStep(h, s, issuer), ListenerCertsReadyStep(h, s)>>)
             \o <<GatewaysStep(h, s), ContractStep(h, s)>>
             \o FlattenSeq([i \in DOMAIN gws |-> Waits(i)])

=============================================================================
