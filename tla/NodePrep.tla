------------------------------ MODULE NodePrep ------------------------------
(***************************************************************************)
(* l0-node-prep (internal/nodeprep): what every node needs before RKE2 is  *)
(* installed on it.                                                        *)
(***************************************************************************)
EXTENDS Document, Steps

CONSTANTS Under,      \* registries written with a path: the host each is under
          Plain       \* mirror endpoints that are not reached over TLS

\* What the steps are given besides the document.
TrustMaterial == [ca : STRING, host : STRING, user : STRING, pass : STRING, caPath : STRING]

modules == {"br_netfilter", "overlay"}
checkedSysctls == {"ip_forward", "forwarding", "inotify.instances", "inotify.watches"}
sysctls == checkedSysctls \cup {"bridge-iptables", "bridge-ip6tables"}

\* The file is known by the header this program writes, whatever else is in
\* it.
ModulesStep(h) ==
    [Step("modules", h) EXCEPT
     !.present = {<<h, "modules-load.d">>}, !.finds = {<<<<h, "modules">>, modules>>},
     !.writes = <<Put(<<h, "modules-load.d">>, modules), Put(<<h, "modules">>, modules)>>]

\* The values the bridge module brings are written and not looked at.
SysctlStep(h) ==
    [Step("sysctl", h) EXCEPT
     !.present = {<<h, "sysctl.d">>}, !.finds = {<<<<h, "sysctls">>, checkedSysctls>>},
     !.needs = {<<h, "modules">>},
     !.writes = <<Put(<<h, "sysctl.d">>, sysctls), Put(<<h, "sysctls">>, checkedSysctls),
                  Put(<<h, "bridge-sysctls">>, sysctls \ checkedSysctls)>>]

SwapStep(h) ==
    [Step("swap", h) EXCEPT
     !.finds = {<<<<h, "swap">>, "off">>, <<<<h, "fstab">>, "off">>},
     !.writes = <<Put(<<h, "swap">>, "off"), Put(<<h, "fstab">>, "off")>>]

DataDirStep(h) ==
    [Step("datadir", h) EXCEPT !.present = {<<h, "/var/lib/rancher">>},
                               !.writes = <<Put(<<h, "/var/lib/rancher">>, "made")>>]

\* The certificate, then the store programs verify against.  Only the
\* certificate is looked at.
TrustStep(h, t) ==
    [Step("ca-trust", h) EXCEPT
     !.finds = {<<<<h, "ca-file">>, t.ca>>},
     !.writes = <<Put(<<h, "ca-file">>, t.ca), Put(<<h, "ca-store">>, t.ca)>>]

EndpointHost(e) == IF e \in DOMAIN Under THEN Under[e] ELSE e
HasPath(e) == e \in DOMAIN Under

RegistryHost(s, t) ==
    IF s.registry.mode = "" \/ EmbeddedMirror(s) THEN ""
    ELSE Or(s.registry.systemDefaultRegistry, t.host)

\* The mirrors containerd pulls through: the embedded one for everything
\* nobody named, the site's registry for everything when it holds the images
\* at their own names, and what the document names.
MirrorsOf(s, t) ==
    LET host == RegistryHost(s, t)
        named == s.registry.mirrors
        all == [upstream |-> "*", endpoints |-> {}]
    IN  named
        \cup (IF EmbeddedMirror(s) /\ \A m \in named : m.upstream # "*" THEN {all} ELSE {})
        \cup (IF host # "" /\ named = {} /\ ~HasPath(host)
              THEN {[all EXCEPT !.endpoints = {host}]} ELSE {})

\* How each host reached over TLS is verified, and what it is told.
ConfigsOf(s, t) ==
    LET key == EndpointHost(RegistryHost(s, t))
        hosts == ({key} \cup {EndpointHost(e) : e \in
                     UNION {m.endpoints : m \in s.registry.mirrors} \ Plain}) \ {""}
    IN  [h \in hosts |->
            [auth |-> IF h = key /\ (t.user # "" \/ t.pass # "") THEN <<t.user, t.pass>> ELSE <<>>,
             tls |-> IF s.registry.insecure = "true" THEN "insecure"
                     ELSE IF t.ca # "" THEN Or(t.caPath, "ca-file") ELSE "verify"]]

RegistriesYAML(s, t) == [mirrors |-> MirrorsOf(s, t), configs |-> ConfigsOf(s, t)]

WantsRegistries(s, t) ==
    EmbeddedMirror(s) \/ RegistryHost(s, t) # "" \/ s.registry.mirrors # {}

\* A file below /etc/rancher/rke2, whose directory is made first.
ConfigDirFile(step) ==
    [step EXCEPT !.writes = <<Put(<<step.host, "/etc/rancher/rke2">>, "made")>> \o @]

RegistriesStep(h, s, t) ==
    ConfigDirFile(FileStep("registries", h, "registries.yaml", RegistriesYAML(s, t)))

NodePrepSteps(h, s, t) ==
    <<ModulesStep(h), SysctlStep(h)>>
    \o When(SwapDisabled(s), <<SwapStep(h)>>)
    \o <<DataDirStep(h)>>
    \o When(t.ca # "", <<TrustStep(h, t)>>)
    \o When(WantsRegistries(s, t), <<RegistriesStep(h, s, t)>>)

=============================================================================
