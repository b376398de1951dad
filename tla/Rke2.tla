-------------------------------- MODULE Rke2 --------------------------------
(***************************************************************************)
(* l1 (internal/rke2): the first server, the address kube-vip holds, and   *)
(* the nodes that join.                                                    *)
(***************************************************************************)
EXTENDS NodePrep

CONSTANTS Interfaces,     \* host -> interfaces that are on the VIP's subnet
          DefaultAddress  \* host -> the address on its default route

DisablesKubeProxy(s) == s.kubernetes.dataplane.preset \in {"cilium-gw", "cilium-traefik"}
CNI(s) == IF DisablesKubeProxy(s) THEN "cilium" ELSE "canal"

TLSSANs(n, s) ==
    ({s.topology.registrationAddress, VIPAddress(s), n.host} \cup s.topology.tlsSAN
     \cup UNION {{m.host, m.nodeIP, m.hostname} : m \in ToSet(s.topology.servers)}) \ {""}

Disabled(s) ==
    {"rke2-ingress-nginx"} \cup s.kubernetes.disableBundled
    \cup IF s.kubernetes.dataplane.preset = "cilium-gw"
         THEN {"rke2-traefik", "rke2-traefik-crd"} ELSE {}

SystemRegistry(s) == IF EmbeddedMirror(s) THEN "" ELSE s.registry.systemDefaultRegistry

ServerNodeIP(n) == IF n.nodeIP = "" /\ n.host \in IPs THEN n.host ELSE n.nodeIP

\* What RKE2 reads once, at startup.
ServerConfig(n, s, token) ==
    [server |-> "", token |-> token, sans |-> TLSSANs(n, s), nodeIP |-> ServerNodeIP(n),
     nodeName |-> n.hostname, cni |-> CNI(s), kubeProxy |-> ~DisablesKubeProxy(s),
     disable |-> Disabled(s), registry |-> SystemRegistry(s), embedded |-> EmbeddedMirror(s),
     etcd |-> <<s.kubernetes.etcd.schedule, s.kubernetes.etcd.retention, s.kubernetes.etcd.target>>,
     kubeletArgs |-> s.kubernetes.kubeletArgs, apiServerArgs |-> s.kubernetes.apiServerArgs]

ServerURL(s) == s.topology.registrationAddress

JoiningConfig(n, s, token) == [ServerConfig(n, s, token) EXCEPT !.server = ServerURL(s)]

AgentConfig(n, s, token) ==
    [server |-> ServerURL(s), token |-> token, nodeIP |-> n.nodeIP, nodeName |-> n.hostname,
     kubeProxy |-> ~DisablesKubeProxy(s), registry |-> SystemRegistry(s),
     labels |-> n.labels, taints |-> n.taints, kubeletArgs |-> s.kubernetes.kubeletArgs]

-----------------------------------------------------------------------------
(* The steps.                                                              *)

\* The installer is carried in or fetched; any binary will do for "latest".
InstallStep(h, s) ==
    LET v == s.kubernetes.version
        from == IF s.kubernetes.artifactPath # "" THEN <<h, "artifacts">> ELSE <<"site", "internet">>
    IN  [Step("install", h) EXCEPT
         !.finds = IF v = "latest" THEN {} ELSE {<<<<h, "rke2">>, v>>},
         !.present = {<<h, "rke2">>}, !.needs = {from, <<h, "/var/lib/rancher">>},
         !.writes = <<Put(<<h, "rke2">>, v)>>]

ConfigStep(h, body) == ConfigDirFile(FileStep("config", h, "config.yaml", body))

\* Wrong: values for the one node there is by then, where a later step has
\* those for all of them in the same file.
PrestageStepAlone(h, id, body) == FileStep(id, h, id, [body EXCEPT !.operators = 1])

\* A manifest the service must find when it starts.
PrestageStep(h, id, body) == FileStep(id, h, id, body)

\* A start, or a restart, reads everything a process reads only then.
StartWrites(h) ==
    ReadAll(Just(<<h, "process.config">>, <<h, "config.yaml">>)
            ++ Just(<<h, "process.registries">>, <<h, "registries.yaml">>)
            ++ Just(<<h, "process.rke2">>, <<h, "rke2">>))

\* The first start of a server makes it an etcd member under its address,
\* and it never starts under another one again.
Member(n) == <<<<n.host, "etcd-member">>, Or(ServerNodeIP(n), DefaultAddress[n.host])>>
AsMember(step, n) ==
    [step EXCEPT !.suits = {Member(n)},
                 !.writes = <<Together(@[1], Together(Keep(Member(n)[1], Member(n)[2]),
                                                      Put(<<n.host, "rke2.yaml">>, n.host)))>>]

Starts(h) == {<<h, "rke2">>, <<h, "config.yaml">>, <<h, "modules">>}

\* What RKE2 brings up by itself on the first server, whoever watches it.
Bundled(h, s) ==
    Together(IF CNI(s) # "cilium" THEN NoWrite
             ELSE ReadAll(Just(Object("cilium-config"), <<h, "cilium-values">>)
                          ++ Just(Object("cilium-pods"), <<h, "cilium-values">>)),
             PutAll(Just(<<h, "token">>, "token") ++ Just(API, "up") ++ Just(Object("node"), "Ready")
                    ++ Just(Object("rke2-coredns"), "applied") ++ Just(Object(CNI(s)), "ready")))

\* Wrong: a running service is enough.
ServiceStepRunning(h, s) ==
    [Step("service", h) EXCEPT
     !.present = {<<h, "rke2.yaml">>, API, Object("node"), <<h, "process.config">>},
     !.needs = Starts(h) \cup IF DisablesKubeProxy(s) THEN {<<h, "cilium-values">>} ELSE {},
     !.writes = <<Together(StartWrites(h), Bundled(h, s))>>]

\* Running, not with a configuration older than the process, and some node
\* Ready.  With kube-proxy off, no node becomes Ready before Cilium is told
\* to replace it, and it is told by a file that has to be there first.
ServiceStep(h, s) ==
    [Step("service", h) EXCEPT
     !.agrees = {<<<<h, "process.config">>, <<h, "config.yaml">>>>},
     !.present = {<<h, "rke2.yaml">>, API, Object("node")},
     !.needs = Starts(h) \cup IF DisablesKubeProxy(s) THEN {<<h, "cilium-values">>} ELSE {},
     !.writes = <<Together(StartWrites(h), Bundled(h, s))>>]

OperatorServer(s) == VIPAddress(s)

\* The operator's own copy, through the VIP where there is one.  Root reads
\* the original.
KubeconfigStep(n, s) ==
    IF n.user = "root" THEN Step("kubeconfig", n.host)
    ELSE LET body == IF OperatorServer(s) = "" THEN "127.0.0.1" ELSE OperatorServer(s) IN
         [FileStep("kubeconfig", n.host, "kubeconfig", body) EXCEPT !.needs = {<<n.host, "rke2.yaml">>}]

OpsToolsStep(h, online) ==
    LET tools == IF online THEN <<"kubectl", "k9s", "helm">> ELSE <<"kubectl">> IN
    [Step("operator-tools", h) EXCEPT
     !.present = {<<h, t>> : t \in ToSet(tools)},
     !.needs = {<<h, "rke2">>} \cup IF online THEN {<<"site", "internet">>} ELSE {},
     !.writes = [i \in DOMAIN tools |-> Put(<<h, tools[i]>>, "installed")]]

BootstrapSteps(n, s, prestage) ==
    <<InstallStep(n.host, s), ConfigStep(n.host, ServerConfig(n, s, ""))>>
    \o prestage
    \o <<AsMember(ServiceStep(n.host, s), n), KubeconfigStep(n, s), OpsToolsStep(n.host, s.network.mode = "online")>>

-----------------------------------------------------------------------------
(* The address of the control plane.                                       *)

\* The interface that carries it, when exactly one can.
ResolveVIPInterface(h) == Interfaces[h]

KubeVIPManifestBody(s, iface) == [address |-> VIPAddress(s), interface |-> iface]

KubeVIPStep(h, s, iface) ==
    FileStep("kube-vip-manifest", h, "kube-vip-manifest", KubeVIPManifestBody(s, iface))

\* Something answers at an address of the cluster's.
Address(a) == <<"cluster", "address", a>>

VIPAnswersStep(h, s) == WaitStep("vip", h, Address(VIPAddress(s)), {<<h, "kube-vip-manifest">>})

VIPSteps(h, s, iface) ==
    IF \E v \in s.topology.vip : v.mode = "bgp" THEN <<>>
    ELSE <<KubeVIPStep(h, s, iface), VIPAnswersStep(h, s)>>

-----------------------------------------------------------------------------
(* The nodes that join.                                                    *)

UnitStep(h) ==
    [Step("service", h) EXCEPT
     !.agrees = {<<<<h, "process.config">>, <<h, "config.yaml">>>>},
     !.needs = Starts(h), !.writes = <<StartWrites(h)>>]

\* Looked for by the address the cluster lists the node under, which is a
\* name when the document gives neither an address nor a node IP.
RegisteredStep(n, s) ==
    LET addr == Or(n.nodeIP, n.host) IN
    [WaitStep("registered", n.host, <<"cluster", "node", n.host>>, {<<n.host, "process.config">>})
     EXCEPT !.needs = @ \cup (IF addr \in IPs THEN {} ELSE {<<n.host, "never">>})
                          \cup (IF ServerURL(s) = VIPAddress(s) THEN {Address(ServerURL(s))} ELSE {})]

JoinSteps(n, s, server, token) ==
    <<InstallStep(n.host, s),
      ConfigStep(n.host, IF server THEN JoiningConfig(n, s, token) ELSE AgentConfig(n, s, token)),
      IF server THEN AsMember(UnitStep(n.host), n) ELSE UnitStep(n.host), RegisteredStep(n, s)>>
    \o When(server, <<KubeconfigStep(n, s)>>)

=============================================================================
