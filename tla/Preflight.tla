------------------------------ MODULE Preflight ------------------------------
(***************************************************************************)
(* What is measured before anything is changed (internal/preflight): the   *)
(* checks of every node, of pairs of nodes and of the document.            *)
(*                                                                         *)
(* A check's verdict is "pass", "fail", "warn" or "skip".  A failure stops *)
(* the command when the code table grades the check so; a warning and what *)
(* could not be measured never do.                                         *)
(***************************************************************************)
EXTENDS Catalogue

CONSTANTS Facts,      \* host -> what its commands report, a record
          Site,       \* what malmok's own machine finds around it, a record
          Within,     \* prefix -> the addresses inside it
          Overlapping \* the pairs of prefixes that overlap

Fails(cond) == IF cond THEN "fail" ELSE "pass"
Warns(cond) == IF cond THEN "warn" ELSE "pass"
Unless(nothing, verdict) == IF nothing THEN "skip" ELSE verdict

\* The codes whose failure stops the command, by section of the table.
HostBlocks == {"PF-101", "PF-102", "PF-106", "PF-302", "PF-402", "PF-404", "PF-406",
               "PF-501", "PF-502", "PF-503"}
NetworkBlocks == {"PF-601", "PF-603", "PF-604", "PF-606", "PF-608", "PF-611"}
RegistryBlocks == {"PF-701", "PF-702", "PF-703", "PF-704", "PF-705", "PF-706", "PF-708",
                   "PF-709", "PF-710"}
ResidueBlocks == {"PF-802", "PF-803", "PF-806"}
CertificateBlocks == {"PF-901", "PF-902", "PF-903", "PF-904", "PF-905", "PF-906",
                      "PF-910", "PF-911", "PF-912"}
Severe == HostBlocks \cup NetworkBlocks \cup RegistryBlocks \cup ResidueBlocks \cup CertificateBlocks

Blocking(results) == {id \in DOMAIN results \cap Severe : results[id] = "fail"}

-----------------------------------------------------------------------------
(* The machine.                                                            *)

CheckOS(f) == Fails(f.family = "other")
CheckArch(f) == Fails(f.arch = "other")
CheckCgroup(f) == Fails(f.cgroup # "v2" \/ ~({"cpu", "memory", "pids"} \subseteq f.controllers))
CheckSwap(h, s, w) ==
    Fails(Facts[h].swap /\ ~Is(w, <<h, "swap">>, "off") /\ SwapDisabled(s))
CheckSystemd(f) == Fails(f.systemd < 245)
CheckResources(f, server) == Fails(IF server THEN f.cpus < 2 \/ f.gib < 4 ELSE f.cpus < 1 \/ f.gib < 2)

(* The kernel: whether an eBPF dataplane runs here is measured by loading   *)
(* a program, with whichever tool the node has for it.                      *)

CheckBPFSyscall(f) == Unless(f.bpfConfig = "", Fails(f.bpfConfig # "y"))
CheckBTF(f) == Fails(~f.btf)
CheckBPFFS(f) == Fails(f.bpffs = "none")
CheckBPFLoad(f) == Unless(f.load = "no-tool", Fails(f.load = "denied"))
CheckLockdown(f) == Warns(f.lockdown)
CheckNetfilter(f) == Fails(f.missingModules # {})
CheckConntrack(f) ==
    CASE f.conntrack = "absent" -> "fail" [] f.conntrack = "unloaded" -> "skip"
      [] OTHER -> Warns(f.conntrack = "low")
CheckModuleLoading(f) == Fails(~f.modprobe)

(* Security, the disk and the clock.                                        *)

CheckSELinux(f) ==
    IF f.selinux = "absent" THEN IF f.family = "rocky" THEN "warn" ELSE "skip"
    ELSE Warns(f.selinux = "permissive")
CheckSELinuxPolicy(f, s) ==
    Unless(f.family # "rocky", Warns(~f.selinuxPolicy /\ s.network.mode = "airgap"))
CheckAppArmor(f) == Unless(~f.apparmor, "pass")
CheckFirewall(f) == Warns(f.firewall)
CheckDataDirMount(f) == Warns(~f.ownMount)
CheckDiskSpace(f) == IF f.freeGiB < 20 THEN "fail" ELSE Warns(f.freeGiB < 50)
CheckInodes(f) == Unless(f.inodes = "dynamic", Fails(f.inodes = "low"))
CheckFilesystem(f) ==
    IF f.filesystem \in {"xfs-ftype-0", "overlay", "tmpfs"} THEN "fail"
    ELSE Warns(f.filesystem \notin {"ext3", "ext4", "xfs"})

\* What block storage needs of a node is not measured.
LonghornProbes == {"PF-404", "PF-405", "PF-406"}
CheckISCSI == "skip"

CheckTimeSync(f) == Fails(~f.synced)
CheckNTPServers(f) == Warns(~f.timeSource)

\* What was carried to the node: an images archive alone is not enough, and
\* the per-CNI one alone is not loaded at all.
CNIArchive(preset) == IF preset \in {"cilium-gw", "cilium-traefik"} THEN {"images-cilium"} ELSE {}

CheckArtifactPath(f, s) ==
    LET carried == f.artifacts IN
    Unless(s.kubernetes.artifactPath = "",
           Fails(\/ ~({"rke2", "sha256sum", "install.sh"} \subseteq carried)
                 \/ "images" \notin carried /\ "images-cilium" \in carried
                 \/ /\ "images" \in carried
                    /\ ~(CNIArchive(s.kubernetes.dataplane.preset)
                         \cup ({GatewayAPIBundle(s)} \ {""}) \subseteq carried)))

-----------------------------------------------------------------------------
(* What is left on the machine.                                             *)

\* Wrong: a machine that has only been prepared bears no mark.
oursOnceConfigured(h, w) == <<h, "config.yaml">> \in DOMAIN w

\* The remains of this program's own work are told by a marker it writes into
\* its files under /etc/rancher/rke2.
ours(h, w) == \E file \in {"registries.yaml", "config.yaml"} : <<h, file>> \in DOMAIN w

Installed(h, w) ==
    \/ Facts[h].foreign
    \/ \E name \in {"/etc/rancher/rke2", "cilium-values", "process.config"} : <<h, name>> \in DOMAIN w

Running(h, w) == Facts[h].foreign \/ <<h, "process.config">> \in DOMAIN w

CheckExistingRuntime(f) == Warns(f.runtime)
CheckExistingKubernetes(h, w) == Fails(Installed(h, w) /\ ~ours(h, w))
CheckPortsFree(h, w) == Fails(Running(h, w) /\ ~ours(h, w))
CheckCNILeftovers(h, w) == Fails(Running(h, w) /\ ~ours(h, w))
CheckPacketFilterLeftovers(h, w) == Fails(Running(h, w) /\ ~ours(h, w))

advertisedAddress(n) == IF n.nodeIP # "" THEN n.nodeIP ELSE IF n.host \in IPs THEN n.host ELSE ""

\* Wrong: the address the node is reached at, not the one it advertises.
CheckEtcdMemberHost(n, w) ==
    LET member == <<n.host, "etcd-member">> IN Fails(member \in DOMAIN w /\ w[member] # n.host)

\* The address etcd knows the member by, which it keeps.
CheckEtcdMemberAddress(n, w) ==
    LET member == <<n.host, "etcd-member">> IN
    Unless(advertisedAddress(n) = "",
           Fails(member \in DOMAIN w /\ w[member] # advertisedAddress(n)))

(* The node's addresses.                                                    *)

\* kube-vip puts the address on the server it was started on.
Carried(h, s, w) ==
    Facts[h].addresses
    \cup {a \in {VIPAddress(s)} \ {""} :
          Object(a) \in DOMAIN w /\ h = s.topology.servers[1].host}

isFloating(a, s) ==
    \/ a \in {VIPAddress(s)} \cup {gw.address : gw \in GatewaysOf(s)}
    \/ \E p \in s.kubernetes.dataplane.pool : a \in Within[p]

CheckVIPInterface(h, s, w) ==
    LET pinned == {v.interface : v \in s.topology.vip} \ {"", "auto"} IN
    Unless(VIPAddress(s) = "",
           IF pinned # {} THEN Fails(~(pinned \subseteq Facts[h].links))
           ELSE Fails(VIPAddress(s) \notin Carried(h, s, w) /\ Cardinality(Interfaces[h]) # 1))

CheckNodeIP(n, s, w) ==
    LET own == {a \in Carried(n.host, s, w) : ~isFloating(a, s)} IN
    IF Cardinality(own) <= 1 THEN "pass"
    ELSE IF n.nodeIP # "" THEN Fails(n.nodeIP \notin own) ELSE "warn"

CheckStubResolver(f) == Warns(f.stubResolver)
CheckSysctls(f) == Warns(~f.forwarding)

-----------------------------------------------------------------------------
MachineChecks(n, s, w) ==
    LET f == Facts[n.host]
        server == n \in ToSet(s.topology.servers) IN
    Just("PF-101", CheckOS(f)) ++ Just("PF-102", CheckArch(f)) ++ Just("PF-104", CheckCgroup(f))
    ++ Just("PF-105", CheckSwap(n.host, s, w)) ++ Just("PF-106", CheckSystemd(f))
    ++ Just("PF-107", CheckResources(f, server))

KernelChecks(f) ==
    Just("PF-201", CheckBPFSyscall(f)) ++ Just("PF-202", CheckBTF(f)) ++ Just("PF-203", CheckBPFFS(f))
    ++ Just("PF-204", CheckBPFLoad(f)) ++ Just("PF-205", CheckLockdown(f))
    ++ Just("PF-207", CheckNetfilter(f)) ++ Just("PF-208", CheckConntrack(f))
    ++ Just("PF-209", CheckModuleLoading(f))

SecurityChecks(f, s) ==
    Just("PF-301", CheckSELinux(f)) ++ Just("PF-302", CheckSELinuxPolicy(f, s))
    ++ Just("PF-303", CheckAppArmor(f)) ++ Just("PF-304", CheckFirewall(f))

StorageChecks(f) ==
    Just("PF-401", CheckDataDirMount(f)) ++ Just("PF-402", CheckDiskSpace(f))
    ++ Just("PF-403", CheckInodes(f)) ++ Just("PF-407", CheckFilesystem(f))
    ++ [id \in LonghornProbes |-> CheckISCSI]

ClockChecks(f) == Just("PF-501", CheckTimeSync(f)) ++ Just("PF-503", CheckNTPServers(f))

AddressChecks(n, s, w) ==
    Just("PF-605", CheckSysctls(Facts[n.host])) ++ Just("PF-607", CheckVIPInterface(n.host, s, w))
    ++ Just("PF-609", CheckNodeIP(n, s, w)) ++ Just("PF-610", CheckStubResolver(Facts[n.host]))

\* What is already here.
ResidueChecks(n, s, w) ==
    LET f == Facts[n.host] IN
    Just("PF-801", CheckExistingRuntime(f)) ++ Just("PF-802", CheckExistingKubernetes(n.host, w))
    ++ Just("PF-803", CheckPortsFree(n.host, w)) ++ Just("PF-804", CheckCNILeftovers(n.host, w))
    ++ Just("PF-805", CheckPacketFilterLeftovers(n.host, w))
    ++ Just("PF-806", CheckEtcdMemberAddress(n, w)) ++ Just("PF-709", CheckArtifactPath(f, s))

\* Every check of a node that can fail.  A command that could not be run at
\* all leaves its check unmeasured.
NodeChecks(n, s, w) ==
    LET f == Facts[n.host] IN
    [id \in f.unread |-> "skip"]
    ++ (MachineChecks(n, s, w) ++ KernelChecks(f) ++ SecurityChecks(f, s) ++ StorageChecks(f)
        ++ ClockChecks(f) ++ AddressChecks(n, s, w) ++ ResidueChecks(n, s, w))

(* Pairs of nodes.                                                          *)

\* Nothing is claimed of any path when one node could not be made to listen.
CheckPortMatrix(h, hosts) ==
    Unless(\E p \in hosts : ~Facts[p].listens,
           Fails(~(hosts \ {h} \subseteq Facts[h].reaches)))
CheckMTU(h, hosts) == Warns(~(hosts \ {h} \subseteq Facts[h].unfragmented))

peerChecks(h, hosts) ==
    IF Cardinality(hosts) < 2 THEN <<>>
    ELSE Just("PF-601", CheckPortMatrix(h, hosts)) ++ Just("PF-602", CheckMTU(h, hosts))

CheckHomogeneous(hosts) == Warns(Cardinality({Facts[h].arch : h \in hosts} \ {""}) > 1)
CheckHostnames(hosts) ==
    Fails(\E g, h \in hosts : g # h /\ Facts[g].hostname # "" /\ Facts[g].hostname = Facts[h].hostname)
CheckTimezones(hosts) == Warns(Cardinality({Facts[h].zone : h \in hosts} \ {""}) > 1)

DefaultClockTolerance == 1000

\* How far apart the clocks are, and how well that is known.
skewOf(hosts, reading) ==
    LET low == CHOOSE h \in hosts : \A g \in hosts : reading[h] <= reading[g]
        high == CHOOSE h \in hosts : \A g \in hosts : reading[h] >= reading[g]
    IN  [skew |-> reading[high] - reading[low],
         margin |-> Facts[low].uncertainty + Facts[high].uncertainty]

CheckClockSkew(hosts, reading) ==
    LET got == skewOf(hosts, reading) IN
    IF Cardinality(hosts) < 2 THEN "skip"
    ELSE IF got.skew <= DefaultClockTolerance THEN "pass"
    ELSE Unless(got.skew <= got.margin, "fail")

\* Read once more before it stops anything: clocks that close are still
\* being stepped after a boot.
clockSkew(hosts) ==
    LET once == [h \in hosts |-> Facts[h].offset]
        again == [h \in hosts |-> Facts[h].laterOffset]
        first == CheckClockSkew(hosts, once)
        second == CheckClockSkew(hosts, again)
        closed == skewOf(hosts, once).skew - skewOf(hosts, again).skew
    IN  IF first # "fail" THEN first
        ELSE IF second # "fail" THEN second
        ELSE IF closed > DefaultClockTolerance \div 10 THEN "warn" ELSE "fail"

-----------------------------------------------------------------------------
(* The document.                                                            *)

Claims(s) ==
    (UNION {{n.host, n.nodeIP} : n \in NodesOf(s)} \cup {VIPAddress(s)}
     \cup {gw.address : gw \in GatewaysOf(s)}) \cap IPs

CheckCIDRs(s) ==
    LET pod == Or(s.network.podCIDR, "pods")
        svc == Or(s.network.svcCIDR, "services")
        claimed == Claims(s) \cup ({s.topology.registrationAddress} \cap IPs) IN
    Fails(\/ {pod, svc} \in Overlapping
          \/ (Within[pod] \cup Within[svc]) \cap claimed # {}
          \/ \E p \in s.kubernetes.dataplane.pool : {p, pod} \in Overlapping \/ {p, svc} \in Overlapping)

pointsAtCluster(found, s) ==
    LET pools == s.kubernetes.dataplane.pool IN
    \/ Claims(s) = {} /\ pools = {}
    \/ found \cap (Claims(s) \cup UNION {Within[p] : p \in pools}) # {}

CheckRegistrationAddress(s) ==
    LET addr == s.topology.registrationAddress IN
    Fails(addr \notin IPs /\ (Site.resolves[addr] = {} \/ ~pointsAtCluster(Site.resolves[addr], s)))

\* An answer on the address is no conflict when it is one of these nodes.
CheckVIPFree(s, w) ==
    Unless(VIPAddress(s) = "",
           Fails(/\ \A n \in NodesOf(s) : VIPAddress(s) \notin Carried(n.host, s, w)
                 /\ VIPAddress(s) \in Site.answers))

CheckProxyConnect(s) ==
    Unless(s.network.mode # "proxy", Fails(~s.network.proxy \/ ~Site.proxyTunnels))

registryHost(s) ==
    LET ends == UNION {m.endpoints : m \in s.registry.mirrors} IN
    IF s.registry.systemDefaultRegistry # "" \/ ends = {} THEN s.registry.systemDefaultRegistry
    ELSE CHOOSE e \in ends : TRUE

\* Whether it answers, who it says it is, and whether it lets us in.
CheckRegistry(s) ==
    LET untried == registryHost(s) = "" \/ EmbeddedMirror(s)
        verified == s.registry.insecure = "true" \/ Site.registryCert = s.registry.caCert.body
        credentials == s.registry.username.body # "" \/ s.registry.password.body # "" IN
    Just("PF-701", Unless(untried, Fails(~Site.registryAnswers)))
    ++ Just("PF-702", Unless(untried \/ ~Site.registryAnswers, Fails(~verified)))
    ++ Just("PF-703", Unless(untried \/ ~Site.registryAnswers \/ ~verified,
            IF credentials THEN Fails(Site.registryLogin # s.registry.password.body)
            ELSE Unless(Site.registryLogin = "", "fail")))

CheckACME(s) ==
    LET mode == s.pki.mode
        unpinned == {gw \in GatewaysOf(s) : gw.exposure # "node-ips" /\ gw.address = ""} IN
    Unless(mode \notin {"acme-dns01", "acme-http01"},
           Fails(\/ s.network.mode = "airgap"
                 \/ s.pki.acme = {}
                 \/ \E a \in s.pki.acme :
                       \/ a.email = ""
                       \/ mode = "acme-dns01" /\ (a.dnsProvider = "" \/ a.apiToken.body = "")
                       \/ Or(a.server, "letsencrypt") \notin Site.answers
                 \/ mode = "acme-http01" /\ unpinned # {}))

\* The private CA's own material, read with the registry's certificate.
PKIMaterial(s) ==
    LET At(ref) == IF ref.body \in DOMAIN Contents THEN Contents[ref.body] ELSE <<>>
        Ca(c) == At(c.rootCert) \o At(c.intermediateCert) \o At(c.intermediateKey)
    IN  Scan((IF s.pki.privateCA = {} THEN <<>> ELSE Ca(CHOOSE c \in s.pki.privateCA : TRUE))
             \o At(s.registry.caCert), "")

\* The first intermediate that is not in order decides, and one that is only
\* close to its end hides the others and the keys.
checkIntermediate(m) ==
    LET Bad(i) == ~Build(i, m).complete \/ i.to <= Now
        troubled == {i \in m.intermediates : Bad(i) \/ i.to < Now + 90} IN
    IF m.intermediates = {} THEN Unless(m.roots = {}, "fail")
    ELSE IF troubled # {} THEN IF Bad(Foremost(troubled, m)) THEN "fail" ELSE "warn"
    ELSE Fails(m.keys # {} /\ \A k \in m.keys, i \in m.intermediates : k.key # i.key)

checkPKINotBefore(m) == Fails(\E c \in Certs(m) : c.from > Now)
checkPKIRootKey(m) == Fails(\E k \in m.keys, r \in m.roots : k.key = r.key)

materialChecks(m, none) ==
    Just("PF-704", Unless(none, checkIntermediate(m)))
    ++ Just("PF-705", Unless(none, checkPKINotBefore(m)))
    ++ Just("PF-706", Unless(none, checkPKIRootKey(m)))

CheckPKIMaterial(s, m) ==
    materialChecks(m, s.pki.mode = "none" \/ (Certs(m) = {} /\ m.keys = {}))

CheckChartDir(s) ==
    Unless(s.registry.chartDir = "" \/ Charts(s) = {},
           Fails(~(Charts(s) \subseteq Archives[s.registry.chartDir])))

\* The certificates that listeners bring, each by the secret it becomes.
certChecks(s) ==
    LET all == FlattenSeq([i \in DOMAIN s.gateway.gateways |-> s.gateway.gateways[i].listeners])
        OwnTLS(l) == {t \in l.tls : t.source = "byo" /\ t.secretRef # ""}
        refs == {t.secretRef : t \in UNION {OwnTLS(l) : l \in ToSet(all)}}
        Own(ref) == Last(SelectSeq(all, LAMBDA l : \E t \in OwnTLS(l) : t.secretRef = ref)).tls
        Refused(in) == gate(in, Scan(in.blocks, in.passphrase))
        failed == UNION {UNION {Refused(CertInput(s, ref, byo)) :
                                byo \in UNION {t.byo : t \in Own(ref)}} : ref \in refs}
    IN  [id \in CertificateBlocks |-> Unless(refs = {}, Fails(id \in failed))]

documentChecks(s) ==
    Just("PF-611", CheckCIDRs(s)) ++ Just("PF-710", CheckChartDir(s))
    ++ Just("PF-603", CheckRegistrationAddress(s)) ++ Just("PF-608", CheckProxyConnect(s))
    ++ CheckRegistry(s) ++ Just("PF-708", CheckACME(s)) ++ CheckPKIMaterial(s, PKIMaterial(s)) ++ certChecks(s)

-----------------------------------------------------------------------------
\* The whole session: what each node that was reached measures, then what is
\* asked across them.
Run(s, w) ==
    LET hosts == {n.host : n \in NodesOf(s)} IN
    [nodes |-> [h \in hosts |-> LET n == CHOOSE m \in NodesOf(s) : m.host = h IN
                                NodeChecks(n, s, w) ++ peerChecks(h, hosts)],
     document |-> documentChecks(s)
                  ++ Just("PF-108", CheckHomogeneous(hosts)) ++ Just("PF-604", CheckHostnames(hosts))
                  ++ Just("PF-502", clockSkew(hosts)) ++ Just("PF-504", CheckTimezones(hosts))
                  ++ Just("PF-606", CheckVIPFree(s, w))]

\* Everything that stops the command.
Blocked(report) ==
    Blocking(report.document) \cup UNION {Blocking(report.nodes[h]) : h \in DOMAIN report.nodes}

=============================================================================
