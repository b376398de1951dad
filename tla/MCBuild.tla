------------------------------- MODULE MCBuild -------------------------------
(***************************************************************************)
(* Sites small enough for TLC: up to three machines, a control plane       *)
(* address, gateways, and the documents a team would write for them.       *)
(***************************************************************************)
EXTENDS ClusterBuild

CONSTANT Starting    \* the documents the operator starts from

-----------------------------------------------------------------------------
(* The site.                                                               *)

MCIPs == {"10.0.0.1", "10.0.0.2", "10.0.0.3", "10.0.0.4", "10.0.0.9", "10.0.0.20", "10.1.0.1"}
MCMachines == MCIPs \cup {"localhost", "two.site"}
MCCIDRs == {"10.0.0.16/28", "10.42.0.0/16", "10.43.0.0/16"}
MCLoopback == {"localhost", "127.0.0.1"}
MCUnder == "harbor.site/mirror" :> "harbor.site"
MCPlain == {"http://cache.site"}
MCInterfaces == [h \in MCMachines |-> IF h = "10.0.0.4" THEN {"eth0", "eth1"} ELSE {"eth0"}]
MCDefaultAddress == [h \in MCMachines |-> h]
MCArchives == "charts" :> {"cert-manager"}

MCNow == 100
Root == Cert("site-root", "site-root", "root-key", "root-key", TRUE, {}, 0, 4000)
Intermediate == Cert("site-ca", "site-root", "ca-key", "root-key", TRUE, {}, 0, 2000)
OldIntermediate == [Intermediate EXCEPT !.to = 90]
PublicRoot == Cert("public-root", "public-root", "public-key", "public-key", TRUE, {}, 0, 4000)
PublicCA == Cert("public-ca", "public-root", "public-ca-key", "public-key", TRUE, {}, 0, 2000)
Leaf(issuer, key, signer, host, to) == Cert(host, issuer, key, signer, FALSE, {host}, 50, to)
ShopLeaf == Leaf("site-ca", "shop-key", "ca-key", "*.shop.site", 400)
PublicLeaf == Leaf("public-ca", "pay-key", "public-ca-key", "pay.site", 400)

MCContents ==
    [root |-> <<Root>>, intermediate |-> <<Intermediate>>, caKey |-> <<Key("ca-key", "")>>,
     shop |-> <<Key("shop-key", ""), Root, Intermediate, ShopLeaf>>,
     expired |-> <<Leaf("site-ca", "shop-key", "ca-key", "*.shop.site", 90), Key("shop-key", ""),
                   Intermediate, Root>>,
     aged |-> <<ShopLeaf, Key("shop-key", ""), OldIntermediate, Root>>,
     pay |-> <<PublicLeaf, PublicCA, Key("pay-key", "")>>]
MCLabels ==
    ("*.shop.site" :> <<"*", "shop", "site">>) @@ ("app.site" :> <<"app", "site">>)
    @@ ("pay.site" :> <<"pay", "site">>) @@ ("site" :> <<"site">>)
MCSystemRoots == {PublicRoot}
MCACMEChain == <<PublicCA>>

MCWithin == [p \in MCCIDRs \cup {"pods", "services"} |->
                IF p = "10.0.0.16/28" THEN {"10.0.0.20"} ELSE {}]
MCOverlapping == {}

Machine == [unread |-> {}, family |-> "ubuntu", arch |-> "amd64", cgroup |-> "v2",
            controllers |-> {"cpu", "memory", "pids"}, swap |-> TRUE, systemd |-> 255,
            cpus |-> 4, gib |-> 8, bpfConfig |-> "y", btf |-> TRUE, bpffs |-> "mounted",
            load |-> "loaded", lockdown |-> FALSE, missingModules |-> {}, conntrack |-> "ok",
            modprobe |-> TRUE, selinux |-> "absent", selinuxPolicy |-> FALSE, apparmor |-> TRUE,
            firewall |-> FALSE, ownMount |-> TRUE, freeGiB |-> 100, inodes |-> "ok",
            filesystem |-> "ext4", synced |-> TRUE, timeSource |-> TRUE,
            artifacts |-> {"rke2", "sha256sum", "install.sh", "images", "images-cilium", "standard"},
            foreign |-> FALSE, runtime |-> FALSE, addresses |-> {}, links |-> {"eth0"},
            stubResolver |-> FALSE, forwarding |-> TRUE, listens |-> TRUE,
            reaches |-> MCMachines, unfragmented |-> MCMachines, hostname |-> "", zone |-> "UTC",
            offset |-> 0, laterOffset |-> 0, uncertainty |-> 0]

\* Whether the third machine loads eBPF programs cannot be measured, and the
\* clock of the first is still being stepped when it is read.
MCFacts ==
    [h \in MCMachines |->
        CASE h = "10.0.0.1" -> [Machine EXCEPT !.hostname = "one", !.addresses = {h, "10.1.0.1"},
                                               !.offset = 2000, !.laterOffset = 1200]
          [] h = "10.0.0.3" -> [Machine EXCEPT !.hostname = "three", !.addresses = {h},
                                               !.unread = {"PF-204"}]
          [] OTHER -> [Machine EXCEPT !.hostname = h, !.addresses = {h} \cap MCIPs]]

MCSite == [resolves |-> [n \in {"k8s.site"} |-> {"10.0.0.9"}], answers |-> {"letsencrypt"},
           proxyTunnels |-> TRUE, registryAnswers |-> TRUE, registryCert |-> "root",
           registryLogin |-> ""]

-----------------------------------------------------------------------------
(* The documents.                                                          *)

Ref(scheme, body) == [scheme |-> scheme, body |-> body]
File(body) == Ref("file", body)

Node(host) == [host |-> host, nodeIP |-> "", hostname |-> "", gpu |-> FALSE, labels |-> {},
               taints |-> {}, user |-> "ops", secret |-> NoRef]
VIP == [provider |-> "kube-vip", address |-> "10.0.0.9", interface |-> "auto", mode |-> "arp"]

Listener(name, protocol, port, hostname, tls) ==
    [name |-> name, protocol |-> protocol, port |-> port, hostname |-> hostname, tls |-> tls]
Terminates(source, ref, byo) == {[source |-> source, secretRef |-> ref, byo |-> byo]}
From(dir) == {[NoMaterial EXCEPT !.dir = File(dir)]}
GW(name, address, listeners) ==
    [name |-> name, namespace |-> "edge", address |-> address, exposure |-> "", nodeIPs |-> {},
     listeners |-> listeners, routeNamespaces |-> "all", namespaceSelector |-> {}, zone |-> ""]

Web == Listener("web", "HTTP", 80, "", {})
App == Listener("app", "HTTPS", 443, "app.site", {})
Shop == Listener("shop", "HTTPS", 444, "*.shop.site", Terminates("byo", "shop-tls", From("shop")))
Pay == Listener("pay", "HTTPS", 443, "pay.site", Terminates("byo", "pay-tls", From("pay")))
Raw == Listener("raw", "TLS", 8443, "", Terminates("passthrough", "", {}))

PrivateCA == [rootCert |-> File("root"), intermediateCert |-> File("intermediate"),
              intermediateKey |-> File("caKey"), selfSign |-> "unset"]
ACME == [email |-> "ops@site", server |-> "", dnsProvider |-> "cloudflare",
         apiToken |-> Ref("env", "dns-token"), accessKeyID |-> ""]

\* A server and an agent, RKE2's own network and nothing else.
Small ==
    [apiVersion |-> ThisVersion, kind |-> "ClusterSpec", name |-> "plain", profile |-> "custom",
     network |-> [mode |-> "online", proxy |-> FALSE, podCIDR |-> "", svcCIDR |-> "",
                  routing |-> "", encrypt |-> "unset"],
     topology |-> [registrationAddress |-> "10.0.0.1", acceptNodeRegistration |-> TRUE,
                   vip |-> {}, servers |-> <<Node("10.0.0.1")>>, agents |-> <<Node("10.0.0.2")>>,
                   tlsSAN |-> {}],
     os |-> [family |-> "ubuntu", disableSwap |-> "unset"],
     kubernetes |-> [version |-> "v1.33", artifactPath |-> "",
                     dataplane |-> [preset |-> "canal-traefik", fallback |-> "",
                                    downgradePolicy |-> "auto", pool |-> {}],
                     disableBundled |-> {}, kubeletArgs |-> {}, apiServerArgs |-> {},
                     etcd |-> [schedule |-> "", retention |-> 0, target |-> "", s3 |-> FALSE]],
     pki |-> [mode |-> "none", domain |-> "", acme |-> {}, privateCA |-> {}, byoCert |-> {},
              clusterBundle |-> "unset"],
     registry |-> [mode |-> "embedded", systemDefaultRegistry |-> "", username |-> NoRef,
                   password |-> NoRef, caCert |-> NoRef, insecure |-> "unset", mirrors |-> {},
                   chartRepo |-> "", chartDir |-> ""],
     storage |-> [driver |-> "local-path", defaultClass |-> "unset", replicas |-> 0, nfs |-> FALSE],
     gateway |-> [gatewayClass |-> "", domainSuffix |-> "", gateways |-> <<>>, http2 |-> "unset",
                  contractConfigMap |-> ""],
     platform |-> [gitops |-> [enabled |-> "unset", source |-> "", ociRepo |-> "", gitRepo |-> "",
                               branch |-> "", bootstrapApps |-> {}],
                   observability |-> [enabled |-> "unset", stack |-> "", retention |-> "",
                                      storageSize |-> "", grafana |-> "unset"],
                   ageKey |-> NoRef]]

\* Two servers behind an address, Cilium's gateways, the site's own CA and
\* everything on top.
Full ==
    [Small EXCEPT
     !.name = "full",
     !.topology.registrationAddress = "k8s.site", !.topology.acceptNodeRegistration = FALSE,
     !.topology.vip = {VIP},
     !.topology.servers = <<Node("10.0.0.1"), Node("10.0.0.2")>>, !.topology.agents = <<>>,
     !.kubernetes.dataplane.preset = "cilium-gw", !.kubernetes.dataplane.pool = {"10.0.0.16/28"},
     !.pki = [@ EXCEPT !.mode = "private-ca", !.domain = "site", !.privateCA = {PrivateCA},
                       !.clusterBundle = "true"],
     !.gateway.domainSuffix = "site",
     !.gateway.gateways = <<GW("edge", "10.0.0.20", <<Web, App, Shop>>)>>,
     !.platform.gitops = [@ EXCEPT !.source = "git", !.gitRepo = "git.site/apps",
                                   !.bootstrapApps = {"pinned"}],
     !.platform.observability.enabled = "true"]

\* The same site from what was carried in, as the profile for it has it.
Airgap ==
    [Full EXCEPT
     !.profile = "airgap_ubuntu", !.network.mode = "", !.os.family = "",
     !.kubernetes.artifactPath = "/opt/malmok", !.kubernetes.dataplane.preset = "",
     !.registry = [@ EXCEPT !.mode = "", !.systemDefaultRegistry = "harbor.site/mirror",
                            !.caCert = File("root"), !.chartRepo = "charts.site"],
     !.storage.driver = "local-path", !.platform.observability.enabled = "unset",
     !.platform.gitops = [@ EXCEPT !.enabled = "false", !.gitRepo = "", !.bootstrapApps = {}],
     !.topology.servers = <<Node("10.0.0.1")>>, !.pki.clusterBundle = "unset"]

Three == [Small EXCEPT !.topology.agents = Append(@, Node("10.0.0.4"))]
Moved == [Small EXCEPT !.topology.servers = <<[Node("10.0.0.1") EXCEPT !.nodeIP = "10.1.0.1"]>>]
Mirrored == [Small EXCEPT !.registry.mirrors = {[upstream |-> "docker.io", endpoints |-> {"http://cache.site"}]}]
Upgraded == [Small EXCEPT !.kubernetes.version = "v1.34", !.topology.tlsSAN = {"k8s.site"}]
Ciliumed == [Small EXCEPT !.kubernetes.dataplane.preset = "cilium-traefik",
                          !.kubernetes.dataplane.pool = {"10.0.0.16/28"}]
Unpooled == [Ciliumed EXCEPT !.kubernetes.dataplane.pool = {}]
Widened == [Full EXCEPT !.gateway.gateways = Append(@, GW("raw", "", <<Raw>>)),
                        !.gateway.http2 = "true"]
Public == [Full EXCEPT !.pki = [Small.pki EXCEPT !.mode = "acme-dns01", !.domain = "site", !.acme = {ACME}],
                       !.gateway.gateways = <<GW("edge", "10.0.0.20", <<Web, App>>)>>]
Repointed == [Public EXCEPT !.pki.acme = {[ACME EXCEPT !.apiToken = Ref("env", "new-token")]},
                            !.platform.gitops.gitRepo = "git.site/more"]

\* What the program takes and cannot build.
Unsolved == [Public EXCEPT !.pki.mode = "acme-http01"]
Replicated == [Small EXCEPT !.storage.driver = "longhorn"]
Unplaced == [Full EXCEPT !.topology.servers = <<Node("10.0.0.4")>>]
Paid == [Public EXCEPT !.gateway.gateways = <<GW("edge", "10.0.0.20", <<Pay>>)>>]
Passing == [Public EXCEPT !.gateway.gateways = <<GW("edge", "10.0.0.20", <<Raw>>)>>]
Named == [Small EXCEPT !.topology.agents = <<Node("two.site")>>]
Scattered == [Public EXCEPT !.gateway.gateways =
                 <<[GW("inner", "", <<Web>>) EXCEPT !.namespace = ""], GW("edge", "10.0.0.20", <<Web>>)>>]
Unloaded == [Airgap EXCEPT !.registry.chartRepo = "", !.registry.chartDir = "charts",
                           !.platform.gitops = [@ EXCEPT !.enabled = "unset", !.gitRepo = "git.site/apps"]]
Unpinned == [Small EXCEPT !.platform.gitops = [@ EXCEPT !.source = "oci", !.ociRepo = "harbor.site/apps",
                                                        !.bootstrapApps = {"unpinned"}]]
Measured == [Small EXCEPT !.platform.observability = [@ EXCEPT !.enabled = "true", !.stack = "prometheus"]]
Brings(body) == [Full EXCEPT !.gateway.gateways = <<GW("edge", "10.0.0.20",
                   <<[Shop EXCEPT !.tls = Terminates("byo", "shop-tls", From(body))]>>)>>]
Aged == Brings("aged")

\* What it does not take.
Looped == [Small EXCEPT !.topology.servers = <<Node("localhost")>>]
Expired == Brings("expired")

\* Nothing is known of eBPF on the third machine.
Unfit == [Full EXCEPT !.topology.servers = <<Node("10.0.0.3")>>]
LeftOut == [Full EXCEPT !.topology.servers = <<Node("10.0.0.1")>>,
                        !.topology.agents = <<Node("10.0.0.3")>>]
Strict == [Full EXCEPT !.topology.servers = <<Node("10.0.0.1"), Node("10.0.0.3")>>,
                       !.kubernetes.dataplane.downgradePolicy = "forbid"]

Everything ==
    [plain |-> Small, full |-> Full, airgap |-> Airgap, moved |-> Moved, mirrored |-> Mirrored,
     upgraded |-> Upgraded, ciliumed |-> Ciliumed, unpooled |-> Unpooled, widened |-> Widened, public |-> Public,
     repointed |-> Repointed, unsolved |-> Unsolved, replicated |-> Replicated, paid |-> Paid, unplaced |-> Unplaced,
     passing |-> Passing, named |-> Named, scattered |-> Scattered, unloaded |-> Unloaded,
     unpinned |-> Unpinned, measured |-> Measured, looped |-> Looped, expired |-> Expired, aged |-> Aged, unfit |-> Unfit, leftOut |-> LeftOut,
     strict |-> Strict, three |-> Three]

\* A site is connected, or has only what was carried in and its own charts.
Carrying(sites) == [l \in UNION {{<<h, "artifacts">>, <<h, "gateway-api">>} : h \in MCMachines} \cup sites |-> "there"]
MCOutside ==
    [d \in DOMAIN Everything |->
        IF d \in {"airgap", "unloaded"} THEN Carrying({<<"site", "charts">>})
        ELSE Carrying({<<"site", "charts">>, <<"site", "internet">>})]

MCEdits ==
    {<<"plain", "moved">>, <<"plain", "mirrored">>, <<"mirrored", "plain">>, <<"plain", "upgraded">>, <<"plain", "ciliumed">>,
     <<"ciliumed", "unpooled">>, <<"full", "widened">>, <<"public", "repointed">>, <<"looped", "plain">>, <<"expired", "full">>}

\* Of these documents no edit makes another machine the first server, and no two
\* steps have one key, which is what some of the theorems are about.
MCHome == [d \in DOMAIN Everything |-> IF Loaded[d].refused = {} THEN Documents[d].topology.servers[1].host ELSE "10.0.0.1"]
ASSUME HomeAssumption == FirstStays(MCHome)
ASSUME KeysAssumption == KeysDiffer

MCInit == Init /\ doc \in Starting
MCStarting == DOMAIN Everything
MCInterrupted == {"mirrored", "ciliumed", "airgap", "repointed"}
MCSpec == MCInit /\ [][Next]_vars /\ Fairness

=============================================================================
