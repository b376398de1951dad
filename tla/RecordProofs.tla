---------------------------- MODULE RecordProofs ----------------------------
(***************************************************************************)
(* What is proved of the record of a build (internal/state), for every     *)
(* document, every machine and every site: what it has as done still holds *)
(* on the machines, after whatever the run did since, killed or restarted. *)
(* A document's Checks compare what it says of the machines with what is   *)
(* there (AskedFiles, AskedObjects and Says below), and every step of one  *)
(* document writes there what that document says, or elsewhere: so no step *)
(* undoes another, and applying a document once more changes nothing.      *)
(***************************************************************************)
EXTENDS MarkProofs

-----------------------------------------------------------------------------
\* What the Checks of a document's steps compare: files of the machines,
AskedFiles ==
    {"modules", "sysctls", "swap", "fstab", "ca-file", "registries.yaml", "rke2", "config.yaml",
     "kubeconfig", "kube-vip-manifest", "cilium-values", "lb-pool", "l2-announcement", "provisioner",
     "cert-manager", "trust-manager", "issuer", "trust-bundle", "namespaces", "listener-certs",
     "gateways", "contract", "metrics-stack", "argocd", "bootstrap-apps"}

\* and what the cluster says.
AskedObjects ==
    {"gateway-api", "storageclass", "ca-fingerprint", "repository-credential",
     "fingerprint", "gateway-nodes"}

Asked(l) == IF l[1] = "cluster" THEN l[2] \in AskedObjects ELSE l[2] \in AskedFiles

\* The configuration of a node is by its part in the cluster.
ConfigOf(s, h) ==
    LET servers == s.topology.servers IN
    IF h = servers[1].host THEN ServerConfig(servers[1], s, "")
    ELSE IF \E n \in ToSet(servers) : n.host = h
         THEN JoiningConfig(CHOOSE n \in ToSet(servers) : n.host = h, s, "token")
    ELSE AgentConfig(CHOOSE n \in ToSet(s.topology.agents) : n.host = h, s, "token")

InterfaceOf(s) ==
    LET named == (CHOOSE v \in s.topology.vip : TRUE).interface IN
    IF named \notin {"", "auto"} THEN named
    ELSE CHOOSE i \in ResolveVIPInterface(s.topology.servers[1].host) : TRUE

IssuerOf(s) == IF Issues(s.pki.mode) THEN "malmok" ELSE ""

ChartOf(s, m, name, values) == [chart |-> Chart(s, m.charts, name), values |-> values]

\* What a document says of the files of the machine h,
FileSays(s, m, h, name) ==
    CASE name = "modules" -> modules
      [] name = "sysctls" -> checkedSysctls
      [] name \in {"swap", "fstab"} -> "off"
      [] name = "ca-file" -> m.trust.ca
      [] name = "registries.yaml" -> RegistriesYAML(s, m.trust)
      [] name = "rke2" -> s.kubernetes.version
      [] name = "config.yaml" -> ConfigOf(s, h)
      [] name = "kubeconfig" -> Or(OperatorServer(s), "127.0.0.1")
      [] name = "kube-vip-manifest" -> KubeVIPManifestBody(s, InterfaceOf(s))
      [] name = "cilium-values" -> CiliumHelmConfig(s)
      [] name = "lb-pool" -> LoadBalancerPool(s)
      [] name = "l2-announcement" -> "control-plane"
      [] name = "provisioner" -> StorageManifest(s)
      [] name = "cert-manager" ->
           ChartOf(s, m, "cert-manager", <<s.pki.mode = "acme-http01", SystemRegistry(s)>>)
      [] name = "trust-manager" -> ChartOf(s, m, "trust-manager", <<>>)
      [] name = "issuer" -> IssuerManifest(s)
      [] name = "trust-bundle" -> TrustBundle
      [] name = "namespaces" -> NamespaceManifest(s)
      [] name = "listener-certs" -> ListenerCertificates(s, IssuerOf(s))
      [] name = "gateways" -> GatewayManifest(s)
      [] name = "contract" -> ContractManifest(s)
      [] name = "metrics-stack" -> ChartOf(s, m, "victoria-metrics-k8s-stack", StackChart(s))
      [] name = "argocd" -> ChartOf(s, m, "argo-cd", SystemRegistry(s))
      [] OTHER -> Applications(s)

ChosenNodes(s) == UNION {gw.nodeIPs : gw \in {g \in GatewaysOf(s) : g.exposure = "node-ips"}}

\* and of the cluster.
ObjectSays(s, m, l) ==
    CASE l[2] = "gateway-api" -> GatewayAPIVersion
      [] l[2] = "storageclass" -> IsDefaultClass(s)
      [] l[2] = "ca-fingerprint" -> m.pki.cert
      [] l[2] = "repository-credential" -> credentialsFor(repoURL(s), m.trust)
      [] l[2] = "fingerprint" -> m.bundles[l[4]].fingerprint
      [] OTHER -> ChosenNodes(s)

Says(s, m, l) == IF l[1] = "cluster" THEN ObjectSays(s, m, l) ELSE FileSays(s, m, l[1], l[2])

\* Cilium's pods, and the configuration that is made for them of the values its chart
\* is given on the first server, which one Check compares with the pods and another,
\* in part, with the document.
Pods == Object("cilium-pods")
Settings == Object("cilium-config")
CiliumPair == <<Pods, Settings>>
Values(h) == <<h, "cilium-values">>

\* A write that puts nothing else where a Check looks for a value.
Faithful(s, m, x) ==
    /\ \A l \in DOMAIN x.put : Asked(l) => x.put[l] = Says(s, m, l)
    /\ \A l \in DOMAIN x.read \cup DOMAIN x.keep : ~Asked(l)
    /\ Settings \notin DOMAIN x.put
    /\ Settings \in DOMAIN x.read => x.read[Settings] = Values(s.topology.servers[1].host)

\* A write that leaves the pods no older than the configuration.
Calm(x) ==
    /\ {Pods, Settings} \cap (DOMAIN x.put \cup DOMAIN x.keep) = {}
    /\ Settings \in DOMAIN x.read => Pods \in DOMAIN x.read /\ x.read[Pods] = x.read[Settings]
    /\ Pods \in DOMAIN x.read /\ Settings \notin DOMAIN x.read => x.read[Pods] = Settings

\* RKE2's process and the configuration of its machine, which another compares.
ProcessPair(h) == <<<<h, "process.config">>, <<h, "config.yaml">>>>

\* Where a Check looks.
Looked(e) ==
    {p[1] : p \in e.finds} \cup {p[1] : p \in e.carries} \cup e.present
    \cup {p[1] : p \in e.agrees} \cup {p[2] : p \in e.agrees}

\* A Check that looks at what a machine forgets when it starts again looks at the
\* file it is restored from, too.
Survives(e) ==
    \A h \in Machines :
        /\ <<h, "modules">> \in Looked(e) => <<h, "modules-load.d">> \in Looked(e)
        /\ <<h, "swap">> \in Looked(e) => <<h, "fstab">> \in Looked(e)

Joining == {"l1-bootstrap", "l1-join-server", "l1-join-agent"}
ConfiguredKey(id, h) == <<id, h, "config">>
AppliedKey(h) == <<"l2-dataplane", h, "cilium-applied">>
ValuesKey(h) == <<"l2-dataplane", h, "cilium-values">>

\* Where a step may put a value that Checks compare: where its own Check looks, or where
\* that of the step after it does (storage.go has one that makes a class the default,
\* and one that asks for it).
Sought(e) == {p[1] : p \in e.finds} \cup e.present \cup {Object("storageclass")}
Seeks(K, x) == \A l \in DOMAIN x.put : Asked(l) => l \in K

\* What the steps of those keys are: two that others rest on look for what they bring,
\* and a part of Cilium's configuration is asked for by one alone.
Proper(e, s, m, id, c) ==
    /\ id \in Joining /\ e.id = "config" =>
          <<<<e.host, "config.yaml">>, Says(s, m, <<e.host, "config.yaml">>)>> \in e.finds
    /\ <<id, e.host, e.id>> = ValuesKey(c) => <<Values(c), Says(s, m, Values(c))>> \in e.finds
    /\ e.carries # {} \/ <<id, e.host, e.id>> = AppliedKey(c) =>
          e = CiliumAppliedStep(c, s) /\ id = "l2-dataplane"

\* A step of the phase id that looks for what the document says, and writes it.
Told(e, s, m, id, c) ==
    /\ e.host \in Machines
    /\ \A p \in e.finds : Asked(p[1]) /\ p[2] = Says(s, m, p[1])
    /\ \A p \in e.agrees : \/ p = ProcessPair(e.host) /\ id \in Joining
                           \/ p = CiliumPair /\ id = "l2-dataplane" /\ e.host = c
    /\ Survives(e)
    /\ IsSequence(e.writes)
    /\ \A x \in ToSet(e.writes) : /\ Faithful(s, m, x) /\ x.drop = {} /\ Seeks(Sought(e), x)
                                  /\ Calm(x) \/ <<id, e.host, e.id>> = AppliedKey(c)
    /\ Proper(e, s, m, id, c)

\* What a Check compares with something else comes after the step that brings it.
Rests(phases, c, p, i) ==
    LET e == phases[p].steps[i] IN
    /\ ProcessPair(e.host) \in e.agrees => ConfiguredKey(phases[p].id, e.host) \in Behind(phases, p, i)
    /\ CiliumPair \in e.agrees => AppliedKey(c) \in Behind(phases, p, i)
    /\ e.carries # {} => ValuesKey(c) \in Behind(phases, p, i)

\* Every step does.
AllTold(phases, s, m, c) ==
    \A p \in DOMAIN phases : \A i \in DOMAIN phases[p].steps :
        Told(phases[p].steps[i], s, m, phases[p].id, c) /\ Rests(phases, c, p, i)

\* The first step of that key: what is recorded of one is taken for the others, too.
First(phases, p, i) == KeyOf(phases[p], phases[p].steps[i]) \notin Behind(phases, p, i)

\* A step that looks at what the cluster makes of Cilium's values, whenever it does.
OfCilium(e) == CiliumPair \in e.agrees \/ e.carries # {}

\* What the record of a run with that document has as done holds on the machines, but
\* for what the cluster made of Cilium's values since it was looked at.
Fulfilled(d) ==
    LET phases == Loaded[d].phases
        s == Loaded[d].spec
        m == resolveMaterial(s)
        c == s.topology.servers[1].host IN
    /\ \A p \in DOMAIN phases : \A i \in DOMAIN phases[p].steps :
          First(phases, p, i) /\ KeyOf(phases[p], phases[p].steps[i]) \in record =>
              /\ Holds(phases[p].steps[i], world) \/ (rerendered /\ OfCilium(phases[p].steps[i]))
              /\ Behind(phases, p, i) \subseteq record
    /\ \A id \in Joining, h \in Machines :
          ConfiguredKey(id, h) \in record => Is(world, <<h, "config.yaml">>, Says(s, m, <<h, "config.yaml">>))
    /\ ValuesKey(c) \in record => Is(world, Values(c), Says(s, m, Values(c)))
    /\ AppliedKey(c) \in record =>
          ValuesKey(c) \in record /\ (rerendered \/ Holds(CiliumAppliedStep(c, s), world))

RecordTrue == \A d \in DOMAIN Documents : ranWith = {d} => Loaded[d].refused = {} /\ Fulfilled(d)

Quiet ==
    settled =>
        /\ ranWith = {doc} /\ ~rerendered
        /\ LET phases == Loaded[doc].phases IN
           \A p \in DOMAIN phases : \A i \in DOMAIN phases[p].steps : Holds(phases[p].steps[i], world)

-----------------------------------------------------------------------------
(* What a write leaves of what a Check found.                              *)

\* The union of two functions, at one place.
LEMMA MergeAt ==
    ASSUME NEW f, NEW g, NEW l
    PROVE  /\ l \in DOMAIN (f ++ g) <=> l \in DOMAIN f \/ l \in DOMAIN g
           /\ l \in DOMAIN f => (f ++ g)[l] = f[l]
           /\ l \notin DOMAIN f /\ l \in DOMAIN g => (f ++ g)[l] = g[l]
<1>1. f ++ g = [k \in DOMAIN f \cup DOMAIN g |-> IF k \in DOMAIN f THEN f[k] ELSE g[k]]
  BY MergeIs
<1> QED
  BY <1>1

\* What was somewhere is what the write put or read there, or what it was.
LEMMA WriteValue ==
    ASSUME NEW w, NEW x, NEW l \in DOMAIN w, l \notin x.drop
    PROVE  /\ l \in DOMAIN Write(w, x)
           /\ Write(w, x)[l] = IF l \in DOMAIN x.put THEN x.put[l]
                               ELSE IF l \in DOMAIN x.read /\ x.read[l] \in DOMAIN w THEN w[x.read[l]]
                               ELSE w[l]
<1> DEFINE put == x.put
           reads == [k \in {j \in DOMAIN x.read : x.read[j] \in DOMAIN w} |-> w[x.read[k]]]
           keeps == [k \in DOMAIN x.keep \ DOMAIN w |-> x.keep[k]]
           rest == IF x.drop = {} THEN w ELSE [k \in DOMAIN w \ x.drop |-> w[k]]
<1>1. Write(w, x) = put ++ reads ++ keeps ++ rest
  BY DEF Write
<1>2. l \in DOMAIN rest /\ rest[l] = w[l]
  OBVIOUS
<1>3. l \notin DOMAIN keeps
  OBVIOUS
<1>4. /\ l \in DOMAIN reads <=> (l \in DOMAIN x.read /\ x.read[l] \in DOMAIN w)
      /\ l \in DOMAIN reads => reads[l] = w[x.read[l]]
  OBVIOUS
<1> HIDE DEF put, reads, keeps, rest
<1> DEFINE pr == put ++ reads
           prk == pr ++ keeps
<1>5. /\ l \in DOMAIN pr <=> l \in DOMAIN put \/ l \in DOMAIN reads
      /\ l \in DOMAIN put => pr[l] = put[l]
      /\ l \notin DOMAIN put /\ l \in DOMAIN reads => pr[l] = reads[l]
  BY MergeAt DEF pr
<1> HIDE DEF pr
<1>6. /\ l \in DOMAIN prk <=> l \in DOMAIN pr
      /\ l \in DOMAIN pr => prk[l] = pr[l]
  BY <1>3, MergeAt DEF prk
<1> HIDE DEF prk
<1>7. /\ l \in DOMAIN (prk ++ rest)
      /\ l \in DOMAIN prk => (prk ++ rest)[l] = prk[l]
      /\ l \notin DOMAIN prk => (prk ++ rest)[l] = rest[l]
  BY <1>2, MergeAt
<1>8. Write(w, x) = prk ++ rest
  BY <1>1 DEF prk, pr
<1> QED
  BY <1>2, <1>4, <1>5, <1>6, <1>7, <1>8 DEF put

\* What is as the document says stays so.
LEMMA WriteSays ==
    ASSUME NEW s, NEW m, NEW w, NEW x, Faithful(s, m, x),
           NEW l, Asked(l), l \notin x.drop, Is(w, l, Says(s, m, l))
    PROVE  Is(Write(w, x), l, Says(s, m, l))
<1>1. l \in DOMAIN w /\ w[l] = Says(s, m, l)
  BY DEF Is
<1>2. l \notin DOMAIN x.read /\ (l \in DOMAIN x.put => x.put[l] = Says(s, m, l))
  BY DEF Faithful
<1> QED
  BY <1>1, <1>2, WriteValue DEF Is

\* So it does through any number of writes.
LEMMA ThroughSays ==
    ASSUME NEW s, NEW m, NEW w, NEW ws, IsSequence(ws), NEW l, Asked(l), Is(w, l, Says(s, m, l)),
           \A x \in ToSet(ws) : Faithful(s, m, x) /\ l \notin x.drop
    PROVE  Is(Through(w, ws), l, Says(s, m, l))
<1>1. PICK S : ws \in Seq(S)
  BY DEF IsSequence
<1>2. \A n \in 1..Len(ws) : Faithful(s, m, ws[n]) /\ l \notin ws[n].drop
  BY <1>1 DEF ToSet
<1>3. PICK f : /\ f[0] = w
               /\ \A n \in 1..Len(ws) : f[n] = Write(f[n - 1], ws[n])
               /\ Through(w, ws) = f[Len(ws)]
  BY <1>1, ThroughGoesOn
<1> DEFINE T == {n \in Nat : n \in 0..Len(ws) => Is(f[n], l, Says(s, m, l))}
<1>4. 0 \in T
  BY <1>3
<1>5. ASSUME NEW n \in Nat, n \in T PROVE n + 1 \in T
  <2> SUFFICES ASSUME n + 1 \in 0..Len(ws) PROVE Is(f[n + 1], l, Says(s, m, l))
    OBVIOUS
  <2>1. Is(f[n], l, Says(s, m, l))
    BY <1>1, <1>5
  <2>2. n + 1 \in 1..Len(ws) /\ (n + 1) - 1 = n
    BY <1>1
  <2>3. f[n + 1] = Write(f[n], ws[n + 1])
    BY <1>3, <2>2
  <2> QED
    BY <1>2, <2>1, <2>2, <2>3, WriteSays
<1>6. Len(ws) \in T
  <2> HIDE DEF T
  <2> QED
    BY <1>1, <1>4, <1>5, Induction
<1> QED
  BY <1>1, <1>3, <1>6

\* A write that a Check can bear: it says what the document says, keeps what the Check
\* looks at, and where the Check compares Cilium's pods leaves them no older.
Bears(e, s, m, x) ==
    /\ Faithful(s, m, x)
    /\ Fit(x, Machines)
    /\ x.drop \cap (Looked(e) \cup {Values(e.host)}) = {}
    /\ CiliumPair \in e.agrees => Calm(x)

\* RKE2's configuration is as the document says, where the Check compares it with the
\* process, and so are Cilium's values where it looks at what comes of them.
ConfigSaid(e, s, m, w) ==
    /\ ProcessPair(e.host) \in e.agrees =>
          Is(w, <<e.host, "config.yaml">>, Says(s, m, <<e.host, "config.yaml">>))
    /\ e.carries # {} => Is(w, Values(e.host), Says(s, m, Values(e.host)))

\* What the document says of Cilium's values, and what is looked for of them.
LEMMA ValuesSay ==
    ASSUME NEW h \in Machines, NEW s, NEW m
    PROVE  /\ Asked(Values(h)) /\ Says(s, m, Values(h)) = CiliumHelmConfig(s)
           /\ LET v == CiliumHelmConfig(s)
                  keys == CiliumKeys(v) IN
              \A k \in DOMAIN keys : v[k] = keys[k]
<1>1. h # "cluster"
  BY NamesAssumption
<1>2. Asked(Values(h)) /\ Says(s, m, Values(h)) = FileSays(s, m, h, "cilium-values")
  BY <1>1 DEF Asked, AskedFiles, Says, Values
<1>3. FileSays(s, m, h, "cilium-values") = CiliumHelmConfig(s)
  BY DEF FileSays
<1> DEFINE v == CiliumHelmConfig(s)
<1>4. /\ v.kubeProxyReplacement = v["kubeProxyReplacement"] /\ v.gatewayAPI = v["gatewayAPI"]
      /\ v.hostNetwork = v["hostNetwork"] /\ v.alpn = v["alpn"]
  OBVIOUS
<1> HIDE DEF v
<1>5. \A k \in DOMAIN CiliumKeys(v) : v[k] = CiliumKeys(v)[k]
  BY <1>4 DEF CiliumKeys
<1> QED
  BY <1>2, <1>3, <1>5 DEF v

\* The step that looks for a part of them.
LEMMA AppliedIs ==
    ASSUME NEW h, NEW s
    PROVE  LET e == CiliumAppliedStep(h, s) IN
           /\ e.host = h /\ e.id = "cilium-applied" /\ e.finds = {} /\ e.agrees = {} /\ e.present = {}
           /\ e.carries = {<<Settings, CiliumKeys(CiliumHelmConfig(s))>>}
           /\ e.writes = <<Copy(Settings, Values(h))>>
  BY DEF CiliumAppliedStep, Step, Settings, Values, Rerun

\* The locations of RKE2's configuration and process, and of what Cilium has read.
LEMMA PairPlaces ==
    ASSUME NEW h \in Machines
    PROVE  /\ Asked(<<h, "config.yaml">>) /\ Values(h) \notin {Pods, Settings}
           /\ ~Asked(Pods) /\ ~Asked(Settings)
           /\ Pods # Settings
           /\ ProcessPair(h)[1] = <<h, "process.config">> /\ ProcessPair(h)[2] = <<h, "config.yaml">>
           /\ CiliumPair[1] = Pods /\ CiliumPair[2] = Settings
           /\ ProcessPair(h) # CiliumPair
<1>1. h # "cluster"
  BY NamesAssumption
<1>2. Asked(<<h, "config.yaml">>)
  BY <1>1 DEF Asked, AskedFiles
<1>3. ~Asked(Pods) /\ ~Asked(Settings) /\ Pods # Settings
  BY DEF Asked, AskedObjects, Pods, Settings, Object
<1>4. <<h, "process.config">> # Pods /\ Values(h) # Pods /\ Values(h) # Settings
  BY <1>1 DEF Pods, Settings, Values, Object
<1> QED
  BY <1>2, <1>3, <1>4 DEF ProcessPair, CiliumPair

\* After a write that it can bear, a Check still finds what it found.
LEMMA WriteKeeps ==
    ASSUME NEW e, NEW s, NEW m, NEW id, NEW c, c = s.topology.servers[1].host, Told(e, s, m, id, c),
           NEW w, Holds(e, w), ConfigSaid(e, s, m, w), NEW x, Bears(e, s, m, x)
    PROVE  Holds(e, Write(w, x)) /\ ConfigSaid(e, s, m, Write(w, x))
<1> DEFINE v == Write(w, x)
           h == e.host
           first == s.topology.servers[1].host
<1>0. h \in Machines
  BY DEF Told
<1>1. ASSUME NEW p \in e.finds PROVE Is(v, p[1], p[2])
  <2>1. Asked(p[1]) /\ p[2] = Says(s, m, p[1])
    BY DEF Told
  <2>2. p[1] \notin x.drop
    BY DEF Bears, Looked
  <2>3. Is(w, p[1], p[2])
    BY DEF Holds
  <2> QED
    BY <2>1, <2>2, <2>3, WriteSays DEF Bears
<1>2. e.present \subseteq DOMAIN v
  <2> SUFFICES ASSUME NEW l \in e.present PROVE l \in DOMAIN v
    OBVIOUS
  <2>1. l \in DOMAIN w /\ l \notin x.drop
    BY DEF Holds, Bears, Looked
  <2> QED
    BY <2>1, WriteValue
<1>3. ASSUME ProcessPair(h) \in e.agrees
      PROVE  /\ Is(v, <<h, "config.yaml">>, Says(s, m, <<h, "config.yaml">>))
             /\ <<h, "process.config">> \in DOMAIN v
             /\ v[<<h, "process.config">>] = v[<<h, "config.yaml">>]
  <2> DEFINE a == <<h, "process.config">>
             b == <<h, "config.yaml">>
  <2>1. ProcessPair(h)[1] = a /\ ProcessPair(h)[2] = b /\ Asked(b)
    BY <1>0, PairPlaces
  <2> HIDE DEF a, b
  <2>2. a \in DOMAIN w /\ b \in DOMAIN w /\ w[a] = w[b]
    BY <1>3, <2>1 DEF Holds
  <2>3. a \notin x.drop /\ b \notin x.drop
    BY <1>3, <2>1 DEF Bears, Looked
  <2>4. w[b] = Says(s, m, b)
    BY <1>3 DEF ConfigSaid, Is, b
  <2>5. Is(v, b, Says(s, m, b))
    BY <2>1, <2>2, <2>3, <2>4, WriteSays DEF Bears, Is
  <2>6. a \notin DOMAIN x.put /\ (a \in DOMAIN x.read => x.read[a] = b)
    BY <1>0 DEF Bears, Fit, a, b
  <2>7. a \in DOMAIN v /\ v[a] = w[b]
    BY <2>2, <2>3, <2>6, WriteValue
  <2> QED
    BY <2>4, <2>5, <2>7 DEF Is, a, b
<1>4. ASSUME CiliumPair \in e.agrees
      PROVE  Pods \in DOMAIN v /\ Settings \in DOMAIN v /\ v[Pods] = v[Settings]
  <2>1. CiliumPair[1] = Pods /\ CiliumPair[2] = Settings
    BY <1>0, PairPlaces
  <2>2. Pods \in DOMAIN w /\ Settings \in DOMAIN w /\ w[Pods] = w[Settings]
    BY <1>4, <2>1 DEF Holds
  <2>3. Pods \notin x.drop /\ Settings \notin x.drop
    BY <1>4, <2>1 DEF Bears, Looked
  <2>4. /\ Pods \notin DOMAIN x.put /\ Settings \notin DOMAIN x.put
        /\ Settings \in DOMAIN x.read => Pods \in DOMAIN x.read /\ x.read[Pods] = x.read[Settings]
        /\ Pods \in DOMAIN x.read /\ Settings \notin DOMAIN x.read => x.read[Pods] = Settings
    BY <1>4 DEF Bears, Calm
  <2>5. /\ Pods \in DOMAIN v
        /\ v[Pods] = IF Pods \in DOMAIN x.read /\ x.read[Pods] \in DOMAIN w THEN w[x.read[Pods]] ELSE w[Pods]
    BY <2>2, <2>3, <2>4, WriteValue
  <2>6. /\ Settings \in DOMAIN v
        /\ v[Settings] = IF Settings \in DOMAIN x.read /\ x.read[Settings] \in DOMAIN w
                         THEN w[x.read[Settings]] ELSE w[Settings]
    BY <2>2, <2>3, <2>4, WriteValue
  <2> HIDE DEF v
  <2> QED
    BY <2>2, <2>4, <2>5, <2>6
<1>6. ASSUME e.carries # {}
      PROVE  /\ \A p \in e.carries : p[1] \in DOMAIN v /\ \A k \in DOMAIN p[2] : v[p[1]][k] = p[2][k]
             /\ Is(v, Values(h), Says(s, m, Values(h)))
  <2> DEFINE says == CiliumHelmConfig(s)
             keys == CiliumKeys(says)
             l == Values(h)
  <2>1. e = CiliumAppliedStep(c, s)
    BY <1>6 DEF Told, Proper
  <2>2. h = c /\ e.carries = {<<Settings, keys>>}
    BY <2>1, AppliedIs
  <2>3. /\ Asked(l) /\ Says(s, m, l) = says /\ \A k \in DOMAIN keys : says[k] = keys[k]
    BY <1>0, ValuesSay
  <2> HIDE DEF says, keys, l
  <2>4. Is(w, l, says)
    BY <1>6, <2>3 DEF ConfigSaid, l
  <2>5. l \notin x.drop /\ Settings \notin x.drop
    BY <2>2 DEF Bears, Looked, l
  <2>6. Is(v, l, says)
    BY <2>3, <2>4, <2>5, WriteSays DEF Bears
  <2>7. Settings \in DOMAIN w /\ \A k \in DOMAIN keys : w[Settings][k] = keys[k]
    BY <2>2 DEF Holds
  <2>8. Settings \notin DOMAIN x.put /\ (Settings \in DOMAIN x.read => x.read[Settings] = Values(first))
    BY DEF Bears, Faithful
  <2>9. /\ Settings \in DOMAIN v
        /\ v[Settings] = IF Settings \in DOMAIN x.read /\ x.read[Settings] \in DOMAIN w
                         THEN w[x.read[Settings]] ELSE w[Settings]
    BY <2>5, <2>7, <2>8, WriteValue
  <2>10. l \in DOMAIN w /\ w[l] = says
    BY <2>4 DEF Is
  <2> HIDE DEF v
  <2>11. l = Values(first)
    BY <2>2 DEF l
  <2>12. \A k \in DOMAIN keys : v[Settings][k] = keys[k]
    BY <2>3, <2>7, <2>8, <2>9, <2>10, <2>11
  <2> QED
    BY <2>2, <2>3, <2>6, <2>9, <2>12 DEF l
<1>5. ASSUME NEW p \in e.agrees PROVE p[1] \in DOMAIN v /\ p[2] \in DOMAIN v /\ v[p[1]] = v[p[2]]
  <2>1. p = ProcessPair(h) \/ p = CiliumPair
    BY DEF Told
  <2>2. /\ ProcessPair(h)[1] = <<h, "process.config">> /\ ProcessPair(h)[2] = <<h, "config.yaml">>
        /\ CiliumPair[1] = Pods /\ CiliumPair[2] = Settings
    BY <1>0, PairPlaces
  <2> HIDE DEF v
  <2>3. CASE p = ProcessPair(h)
    BY <1>3, <2>2, <2>3 DEF Is
  <2>4. CASE p = CiliumPair
    BY <1>4, <2>2, <2>4
  <2> QED
    BY <2>1, <2>3, <2>4
<1>7. \A p \in e.carries : p[1] \in DOMAIN v /\ \A k \in DOMAIN p[2] : v[p[1]][k] = p[2][k]
  BY <1>6
<1> QED
  BY <1>1, <1>2, <1>3, <1>5, <1>6, <1>7 DEF Holds, ConfigSaid

\* So it does after any number of them.
LEMMA ThroughKeeps ==
    ASSUME NEW e, NEW s, NEW m, NEW id, NEW c, c = s.topology.servers[1].host, Told(e, s, m, id, c),
           NEW w, Holds(e, w), ConfigSaid(e, s, m, w),
           NEW ws, IsSequence(ws), \A x \in ToSet(ws) : Bears(e, s, m, x)
    PROVE  Holds(e, Through(w, ws))
<1>1. PICK S : ws \in Seq(S)
  BY DEF IsSequence
<1>2. \A n \in 1..Len(ws) : Bears(e, s, m, ws[n])
  BY <1>1 DEF ToSet
<1>3. PICK f : /\ f[0] = w
               /\ \A n \in 1..Len(ws) : f[n] = Write(f[n - 1], ws[n])
               /\ Through(w, ws) = f[Len(ws)]
  BY <1>1, ThroughGoesOn
<1> DEFINE T == {n \in Nat : n \in 0..Len(ws) => Holds(e, f[n]) /\ ConfigSaid(e, s, m, f[n])}
<1>4. 0 \in T
  BY <1>3
<1>5. ASSUME NEW n \in Nat, n \in T PROVE n + 1 \in T
  <2> SUFFICES ASSUME n + 1 \in 0..Len(ws) PROVE Holds(e, f[n + 1]) /\ ConfigSaid(e, s, m, f[n + 1])
    OBVIOUS
  <2>1. Holds(e, f[n]) /\ ConfigSaid(e, s, m, f[n])
    BY <1>1, <1>5
  <2>2. n + 1 \in 1..Len(ws) /\ (n + 1) - 1 = n
    BY <1>1
  <2>3. f[n + 1] = Write(f[n], ws[n + 1])
    BY <1>3, <2>2
  <2> QED
    BY <1>2, <2>1, <2>2, <2>3, WriteKeeps
<1>6. Len(ws) \in T
  <2> HIDE DEF T
  <2> QED
    BY <1>1, <1>4, <1>5, Induction
<1> QED
  BY <1>1, <1>3, <1>6

-----------------------------------------------------------------------------
(* What the document says of a location.                                   *)

\* A location that no Check compares with the document or with what Cilium has read.
Unasked(l) == ~Asked(l) /\ l \notin {Pods, Settings}

\* The document does not say otherwise of it, and it is one of K where it says anything.
Right(s, m, K, l, v) == l \notin {Pods, Settings} /\ (Asked(l) => l \in K /\ v = Says(s, m, l))

\* A location that a machine which starts again does not forget.
Lasting(l) == l[1] = "cluster" \/ l[2] \notin {"modules", "swap"}

\* What the document says of the files of a machine.
LEMMA FilesSay ==
    ASSUME NEW h \in Machines, NEW s, NEW m
    PROVE  /\ \A name \in AskedFiles :
                 Asked(<<h, name>>) /\ Says(s, m, <<h, name>>) = FileSays(s, m, h, name)
           /\ \A name : <<h, name>> \notin {Pods, Settings}
           /\ \A name : name \notin AskedFiles => Unasked(<<h, name>>)
<1>1. h # "cluster"
  BY NamesAssumption
<1>2. Pods[1] = "cluster" /\ Settings[1] = "cluster"
  BY DEF Pods, Settings, Object
<1>3. \A name : <<h, name>> \notin {Pods, Settings}
  BY <1>1, <1>2
<1> QED
  BY <1>1, <1>3 DEF Asked, Says, Unasked

\* A file that is as the document says is put right,
LEMMA FileRight ==
    ASSUME NEW h \in Machines, NEW s, NEW m, NEW name \in AskedFiles, NEW v, v = FileSays(s, m, h, name)
    PROVE  /\ Asked(<<h, name>>) /\ v = Says(s, m, <<h, name>>)
           /\ \A K : <<h, name>> \in K => Right(s, m, K, <<h, name>>, v)
  BY FilesSay DEF Right

\* and so is one that no Check asks for.
LEMMA UnaskedRight ==
    ASSUME NEW s, NEW m, NEW l, Unasked(l), NEW v
    PROVE  \A K : Right(s, m, K, l, v)
  BY DEF Unasked, Right

\* Most of what is in the cluster is not compared with anything.
LEMMA ClusterUnasked ==
    ASSUME NEW l, l[1] = "cluster", l[2] \notin AskedObjects \cup {"cilium-pods", "cilium-config"}
    PROVE  Unasked(l) /\ Lasting(l)
<1>1. Pods[2] = "cilium-pods" /\ Settings[2] = "cilium-config"
  BY DEF Pods, Settings, Object
<1> QED
  BY <1>1 DEF Unasked, Asked, Lasting

\* What is of the rest is as the document says, too.
LEMMA ObjectRight ==
    ASSUME NEW s, NEW m, NEW l, l[1] = "cluster", l[2] \in AskedObjects, NEW v, v = ObjectSays(s, m, l)
    PROVE  /\ Asked(l) /\ v = Says(s, m, l)
           /\ \A K : l \in K => Right(s, m, K, l, v)
<1>1. Pods[2] = "cilium-pods" /\ Settings[2] = "cilium-config"
  BY DEF Pods, Settings, Object
<1>2. l \notin {Pods, Settings}
  BY <1>1 DEF AskedObjects
<1> QED
  BY <1>2 DEF Right, Asked, Says

-----------------------------------------------------------------------------
(* The writes that any Check can bear.                                     *)

\* A write that puts what the document says, and reads nothing a Check compares.
PlainWrite(s, m, K, x) ==
    /\ x.drop = {}
    /\ \A l \in DOMAIN x.put : Right(s, m, K, l, x.put[l])
    /\ \A l \in DOMAIN x.read \cup DOMAIN x.keep : Unasked(l)

\* A write that reads Cilium's configuration and pods at once, besides.
Bearable(s, m, K, x) == Faithful(s, m, x) /\ x.drop = {} /\ Calm(x) /\ Seeks(K, x)

\* Every plain write is one.
LEMMA PlainBearable ==
    ASSUME NEW s, NEW m, NEW K, NEW x, PlainWrite(s, m, K, x)
    PROVE  Bearable(s, m, K, x)
  BY DEF PlainWrite, Bearable, Faithful, Calm, Seeks, Right, Unasked

\* The writes that steps are written with.
LEMMA PlainWrites ==
    ASSUME NEW s, NEW m, NEW K
    PROVE  /\ PlainWrite(s, m, K, NoWrite)
           /\ \A f : (\A l \in DOMAIN f : Right(s, m, K, l, f[l])) => PlainWrite(s, m, K, PutAll(f))
           /\ \A f : (\A l \in DOMAIN f : Unasked(l)) => PlainWrite(s, m, K, ReadAll(f))
           /\ \A l, v : Right(s, m, K, l, v) => PlainWrite(s, m, K, Put(l, v))
           /\ \A l, v : Unasked(l) => PlainWrite(s, m, K, Copy(l, v)) /\ PlainWrite(s, m, K, Keep(l, v))
<1>0. /\ NoWrite.put = <<>> /\ NoWrite.read = <<>> /\ NoWrite.keep = <<>> /\ NoWrite.drop = {}
      /\ DOMAIN <<>> = {}
  BY DEF NoWrite
<1>1. PlainWrite(s, m, K, NoWrite)
  BY <1>0 DEF PlainWrite
<1>2. ASSUME NEW f, \A l \in DOMAIN f : Right(s, m, K, l, f[l])
      PROVE  PlainWrite(s, m, K, PutAll(f))
  <2>1. /\ PutAll(f).put = f /\ PutAll(f).read = <<>> /\ PutAll(f).keep = <<>>
        /\ PutAll(f).drop = {}
    BY DEF PutAll, NoWrite
  <2> QED
    BY <1>0, <1>2, <2>1 DEF PlainWrite
<1>3. ASSUME NEW f, \A l \in DOMAIN f : Unasked(l)
      PROVE  PlainWrite(s, m, K, ReadAll(f))
  <2>1. /\ ReadAll(f).put = <<>> /\ ReadAll(f).read = f /\ ReadAll(f).keep = <<>>
        /\ ReadAll(f).drop = {}
    BY DEF ReadAll, NoWrite
  <2> QED
    BY <1>0, <1>3, <2>1 DEF PlainWrite
<1>5. ASSUME NEW l, NEW v, Right(s, m, K, l, v) PROVE PlainWrite(s, m, K, Put(l, v))
  <2>0. DOMAIN Just(l, v) = {l} /\ Just(l, v)[l] = v
    BY JustHas
  <2>1. \A k \in DOMAIN Just(l, v) : Right(s, m, K, k, Just(l, v)[k])
    BY <1>5, <2>0
  <2> QED
    BY <1>2, <2>1 DEF Put
<1>6. ASSUME NEW l, NEW v, Unasked(l) PROVE PlainWrite(s, m, K, Copy(l, v)) /\ PlainWrite(s, m, K, Keep(l, v))
  <2>0. DOMAIN Just(l, v) = {l}
    BY JustHas
  <2>1. \A k \in DOMAIN Just(l, v) : Unasked(k)
    BY <1>6, <2>0
  <2>2. PlainWrite(s, m, K, Copy(l, v))
    BY <1>3, <2>1 DEF Copy
  <2>3. /\ Keep(l, v).put = <<>> /\ Keep(l, v).read = <<>> /\ Keep(l, v).keep = Just(l, v)
        /\ Keep(l, v).drop = {}
    BY DEF Keep, NoWrite
  <2>4. PlainWrite(s, m, K, Keep(l, v))
    BY <1>0, <2>1, <2>3 DEF PlainWrite
  <2> QED
    BY <2>2, <2>4
<1> QED
  BY <1>1, <1>2, <1>3, <1>5, <1>6

\* What two writes put, read and keep, they do together.
LEMMA TogetherHas ==
    ASSUME NEW x, NEW y, NEW l
    PROVE  LET t == Together(x, y) IN
           /\ t.drop = x.drop \cup y.drop
           /\ l \in DOMAIN t.put <=> l \in DOMAIN x.put \/ l \in DOMAIN y.put
           /\ l \in DOMAIN x.put => t.put[l] = x.put[l]
           /\ l \notin DOMAIN x.put /\ l \in DOMAIN y.put => t.put[l] = y.put[l]
           /\ l \in DOMAIN t.read <=> l \in DOMAIN x.read \/ l \in DOMAIN y.read
           /\ l \in DOMAIN x.read => t.read[l] = x.read[l]
           /\ l \notin DOMAIN x.read /\ l \in DOMAIN y.read => t.read[l] = y.read[l]
           /\ l \in DOMAIN t.keep <=> l \in DOMAIN x.keep \/ l \in DOMAIN y.keep
<1> DEFINE t == Together(x, y)
           a == x.put
           b == y.put
           c == x.read
           d == y.read
           f == x.keep
           g == y.keep
<1>1. t.put = a ++ b /\ t.read = c ++ d /\ t.keep = f ++ g /\ t.drop = x.drop \cup y.drop
  BY DEF Together
<1> HIDE DEF t, a, b, c, d, f, g
<1>2. /\ l \in DOMAIN t.put <=> l \in DOMAIN a \/ l \in DOMAIN b
      /\ l \in DOMAIN a => t.put[l] = a[l]
      /\ l \notin DOMAIN a /\ l \in DOMAIN b => t.put[l] = b[l]
  BY <1>1, MergeAt
<1>3. /\ l \in DOMAIN t.read <=> l \in DOMAIN c \/ l \in DOMAIN d
      /\ l \in DOMAIN c => t.read[l] = c[l]
      /\ l \notin DOMAIN c /\ l \in DOMAIN d => t.read[l] = d[l]
  BY <1>1, MergeAt
<1>4. l \in DOMAIN t.keep <=> l \in DOMAIN f \/ l \in DOMAIN g
  BY <1>1, MergeAt
<1> QED
  BY <1>1, <1>2, <1>3, <1>4 DEF t, a, b, c, d, f, g

\* Two writes that any Check can bear, done together.
LEMMA PlainTogether ==
    ASSUME NEW s, NEW m, NEW K, NEW x, NEW y
    PROVE  /\ PlainWrite(s, m, K, x) /\ PlainWrite(s, m, K, y) => PlainWrite(s, m, K, Together(x, y))
           /\ PlainWrite(s, m, K, x) /\ Bearable(s, m, K, y) => Bearable(s, m, K, Together(x, y))
           /\ Bearable(s, m, K, x) /\ PlainWrite(s, m, K, y) => Bearable(s, m, K, Together(x, y))
<1> DEFINE t == Together(x, y)
<1>1. \A l : /\ t.drop = x.drop \cup y.drop
             /\ l \in DOMAIN t.put <=> l \in DOMAIN x.put \/ l \in DOMAIN y.put
             /\ l \in DOMAIN x.put => t.put[l] = x.put[l]
             /\ l \notin DOMAIN x.put /\ l \in DOMAIN y.put => t.put[l] = y.put[l]
             /\ l \in DOMAIN t.read <=> l \in DOMAIN x.read \/ l \in DOMAIN y.read
             /\ l \in DOMAIN x.read => t.read[l] = x.read[l]
             /\ l \notin DOMAIN x.read /\ l \in DOMAIN y.read => t.read[l] = y.read[l]
             /\ l \in DOMAIN t.keep <=> l \in DOMAIN x.keep \/ l \in DOMAIN y.keep
  BY TogetherHas
<1> HIDE DEF t
<1>2. ASSUME PlainWrite(s, m, K, x), PlainWrite(s, m, K, y) PROVE PlainWrite(s, m, K, t)
  <2>1. t.drop = {}
    BY <1>1, <1>2 DEF PlainWrite
  <2>2. ASSUME NEW l \in DOMAIN t.put PROVE Right(s, m, K, l, t.put[l])
    BY <1>1, <1>2 DEF PlainWrite
  <2>3. ASSUME NEW l \in DOMAIN t.read \cup DOMAIN t.keep PROVE Unasked(l)
    BY <1>1, <1>2 DEF PlainWrite
  <2> QED
    BY <2>1, <2>2, <2>3 DEF PlainWrite
<1>3. ASSUME Faithful(s, m, x), Faithful(s, m, y) PROVE Faithful(s, m, t)
  BY <1>1, <1>3 DEF Faithful
<1>4. ASSUME PlainWrite(s, m, K, x) \/ PlainWrite(s, m, K, y), Calm(x), Calm(y) PROVE Calm(t)
  <2>1. {Pods, Settings} \cap (DOMAIN t.put \cup DOMAIN t.keep) = {}
    BY <1>1, <1>4 DEF Calm
  <2>2. \/ Pods \notin DOMAIN x.read /\ Settings \notin DOMAIN x.read
        \/ Pods \notin DOMAIN y.read /\ Settings \notin DOMAIN y.read
    BY <1>4 DEF PlainWrite, Unasked
  <2>3. /\ Pods \in DOMAIN t.read <=> Pods \in DOMAIN x.read \/ Pods \in DOMAIN y.read
        /\ Pods \in DOMAIN x.read => t.read[Pods] = x.read[Pods]
        /\ Pods \notin DOMAIN x.read /\ Pods \in DOMAIN y.read => t.read[Pods] = y.read[Pods]
        /\ Settings \in DOMAIN t.read <=> Settings \in DOMAIN x.read \/ Settings \in DOMAIN y.read
        /\ Settings \in DOMAIN x.read => t.read[Settings] = x.read[Settings]
        /\ Settings \notin DOMAIN x.read /\ Settings \in DOMAIN y.read => t.read[Settings] = y.read[Settings]
    BY <1>1
  <2>4. /\ Settings \in DOMAIN t.read => Pods \in DOMAIN t.read /\ t.read[Pods] = t.read[Settings]
        /\ Pods \in DOMAIN t.read /\ Settings \notin DOMAIN t.read => t.read[Pods] = Settings
    BY <1>4, <2>2, <2>3 DEF Calm
  <2> QED
    BY <2>1, <2>4 DEF Calm
<1>5. ASSUME Bearable(s, m, K, x), Bearable(s, m, K, y), PlainWrite(s, m, K, x) \/ PlainWrite(s, m, K, y)
      PROVE  Bearable(s, m, K, t)
  <2>1. Seeks(K, t)
    BY <1>1, <1>5 DEF Bearable, Seeks
  <2> QED
    BY <1>1, <1>3, <1>4, <1>5, <2>1 DEF Bearable
<1> QED
  BY <1>2, <1>5, PlainBearable DEF t

-----------------------------------------------------------------------------
(* The steps that look for what the document says, and write it.           *)

\* Writes that any Check can bear.
PlainAll(s, m, K, ws) == IsSequence(ws) /\ \A x \in ToSet(ws) : PlainWrite(s, m, K, x)

\* A step that compares what is somewhere with the document only, and whose writes any
\* Check can bear.
PlainStep(e, s, m) ==
    /\ e.host \in Machines
    /\ \A p \in e.finds : Asked(p[1]) /\ p[2] = Says(s, m, p[1])
    /\ e.agrees = {} /\ e.carries = {}
    /\ Survives(e)
    /\ PlainAll(s, m, Sought(e), e.writes)

\* How plain writes come one after the other.
LEMMA PlainSequences ==
    ASSUME NEW s, NEW m, NEW K
    PROVE  /\ PlainAll(s, m, K, <<>>)
           /\ \A a : PlainWrite(s, m, K, a) => PlainAll(s, m, K, <<a>>)
           /\ \A a, b : PlainWrite(s, m, K, a) /\ PlainWrite(s, m, K, b) => PlainAll(s, m, K, <<a, b>>)
           /\ \A a, b, c : PlainWrite(s, m, K, a) /\ PlainWrite(s, m, K, b) /\ PlainWrite(s, m, K, c)
                           => PlainAll(s, m, K, <<a, b, c>>)
           /\ \A x, y : PlainAll(s, m, K, x) /\ PlainAll(s, m, K, y) => PlainAll(s, m, K, x \o y)
<1>1. \A x, y : PlainAll(s, m, K, x) /\ PlainAll(s, m, K, y) => PlainAll(s, m, K, x \o y)
  BY ConcatHolds DEF PlainAll
<1>2. /\ PlainAll(s, m, K, <<>>)
      /\ \A a : PlainWrite(s, m, K, a) => PlainAll(s, m, K, <<a>>)
      /\ \A a, b : PlainWrite(s, m, K, a) /\ PlainWrite(s, m, K, b) => PlainAll(s, m, K, <<a, b>>)
  BY TupleHolds DEF PlainAll
<1>3. \A a, b, c : PlainWrite(s, m, K, a) /\ PlainWrite(s, m, K, b) /\ PlainWrite(s, m, K, c)
                   => PlainAll(s, m, K, <<a, b, c>>)
  BY TupleHolds DEF PlainAll
<1> QED
  BY <1>1, <1>2, <1>3

\* What makes a step plain, where a machine that starts again forgets nothing it looks at.
LEMMA PlainBy ==
    ASSUME NEW s, NEW m, NEW e, e.host \in Machines, e.agrees = {}, e.carries = {},
           \A p \in e.finds : Asked(p[1]) /\ p[2] = Says(s, m, p[1]) /\ Lasting(p[1]),
           \A l \in e.present : Lasting(l),
           PlainAll(s, m, Sought(e), e.writes)
    PROVE  PlainStep(e, s, m)
<1>1. \A h \in Machines : ~Lasting(<<h, "modules">>) /\ ~Lasting(<<h, "swap">>)
  BY NamesAssumption DEF Lasting
<1>2. \A l \in Looked(e) : Lasting(l)
  BY DEF Looked
<1>3. Survives(e)
  BY <1>1, <1>2 DEF Survives
<1> QED
  BY <1>3 DEF PlainStep

\* A step that needs something else is as plain.
LEMMA SamePlain ==
    ASSUME NEW s, NEW m, NEW a, NEW e, PlainStep(e, s, m), a.host = e.host, a.finds = e.finds,
           a.carries = e.carries, a.agrees = e.agrees, a.present = e.present, a.writes = e.writes
    PROVE  PlainStep(a, s, m)
  BY DEF PlainStep, Survives, Looked, Sought

\* A step that was built to fail writes nothing.
LEMMA FailedPlain ==
    ASSUME NEW h \in Machines, NEW s, NEW m, NEW id
    PROVE  PlainStep(FailedStep(id, h), s, m) /\ PlainStep(Step(id, h), s, m)
<1>1. /\ FailedStep(id, h).host = h /\ FailedStep(id, h).finds = {} /\ FailedStep(id, h).agrees = {} /\ FailedStep(id, h).carries = {}
      /\ FailedStep(id, h).present = {<<h, "never">>} /\ FailedStep(id, h).writes = <<>>
  BY DEF FailedStep, Step
<1>2. /\ Step(id, h).host = h /\ Step(id, h).finds = {} /\ Step(id, h).agrees = {} /\ Step(id, h).carries = {}
      /\ Step(id, h).present = {} /\ Step(id, h).writes = <<>>
  BY DEF Step
<1>3. Lasting(<<h, "never">>) /\ \A K : PlainAll(s, m, K, <<>>)
  BY PlainSequences DEF Lasting
<1>4. PlainStep(FailedStep(id, h), s, m)
  BY <1>1, <1>3, PlainBy
<1> QED
  BY <1>2, <1>3, <1>4, PlainBy

\* A file that is compared and written (FileStep), and one in RKE2's directory.
LEMMA FilePlain ==
    ASSUME NEW h \in Machines, NEW s, NEW m, NEW id, NEW name \in AskedFiles \ {"modules", "swap"},
           NEW body, body = FileSays(s, m, h, name)
    PROVE  /\ PlainStep(FileStep(id, h, name, body), s, m)
           /\ PlainStep(ConfigDirFile(FileStep(id, h, name, body)), s, m)
<1> DEFINE step == FileStep(id, h, name, body)
           e == ConfigDirFile(step)
           l == <<h, name>>
           dir == <<h, "/etc/rancher/rke2">>
<1>1. /\ step.host = h /\ step.finds = {<<l, body>>} /\ step.agrees = {} /\ step.carries = {} /\ step.present = {}
      /\ step.writes = <<Put(l, body)>>
  BY DEF FileStep, Step
<1>2. /\ e.host = h /\ e.finds = {<<l, body>>} /\ e.agrees = {} /\ e.carries = {} /\ e.present = {}
      /\ e.writes = <<Put(dir, "made")>> \o <<Put(l, body)>>
  BY DEF ConfigDirFile, FileStep, Step
<1>3. /\ Asked(l) /\ body = Says(s, m, l)
      /\ \A K : l \in K => Right(s, m, K, l, body)
  BY FileRight
<1>4. Lasting(l)
  BY DEF Lasting
<1>5. Unasked(dir)
  BY FilesSay DEF AskedFiles
<1> DEFINE K == {l, Object("storageclass")}
<1> HIDE DEF l, dir, step, e
<1>6. PlainWrite(s, m, K, Put(l, body))
  BY <1>3, PlainWrites
<1>7. PlainWrite(s, m, K, Put(dir, "made"))
  BY <1>5, UnaskedRight, PlainWrites
<1> HIDE DEF K
<1>8. PlainAll(s, m, K, <<Put(l, body)>>) /\ PlainAll(s, m, K, <<Put(dir, "made")>>)
  BY <1>6, <1>7, PlainSequences
<1>9. PlainAll(s, m, K, <<Put(dir, "made")>> \o <<Put(l, body)>>)
  BY <1>8, PlainSequences
<1>10. \A p \in {<<l, body>>} : Asked(p[1]) /\ p[2] = Says(s, m, p[1]) /\ Lasting(p[1])
  BY <1>3, <1>4
<1>0. Sought(step) = K /\ Sought(e) = K
  BY <1>1, <1>2 DEF Sought, K
<1>11. PlainStep(step, s, m)
  BY <1>0, <1>1, <1>8, <1>10, PlainBy
<1>12. PlainStep(e, s, m)
  BY <1>0, <1>2, <1>9, <1>10, PlainBy
<1> QED
  BY <1>11, <1>12 DEF step, e, l

\* What is in the cluster and compared with nothing.
Aside(l) == l[1] = "cluster" /\ l[2] \notin AskedObjects \cup {"cilium-pods", "cilium-config"}

\* A wait for what somebody else does (WaitStep).
LEMMA WaitPlain ==
    ASSUME NEW h \in Machines, NEW s, NEW m, NEW id, NEW loc, Aside(loc), NEW needs
    PROVE  PlainStep(WaitStep(id, h, loc, needs), s, m)
<1> DEFINE e == WaitStep(id, h, loc, needs)
<1>1. /\ e.host = h /\ e.finds = {} /\ e.agrees = {} /\ e.carries = {} /\ e.present = {loc}
      /\ e.writes = <<Put(loc, "ready")>>
  BY DEF WaitStep, Step
<1> HIDE DEF e
<1>2. Unasked(loc) /\ Lasting(loc)
  BY ClusterUnasked DEF Aside
<1>3. \A K : PlainWrite(s, m, K, Put(loc, "ready"))
  BY <1>2, UnaskedRight, PlainWrites
<1>4. \A K : PlainAll(s, m, K, <<Put(loc, "ready")>>)
  BY <1>3, PlainSequences
<1>5. PlainStep(e, s, m)
  BY <1>1, <1>2, <1>4, PlainBy
<1> QED
  BY <1>5 DEF e

\* The write that keeps objects in a file and applies them.
LEMMA ManifestWritesPlain ==
    ASSUME NEW h \in Machines, NEW s, NEW m, NEW name \in AskedFiles,
           NEW body, body = FileSays(s, m, h, name), NEW objects, \A o \in objects : Aside(o),
           NEW K, <<h, name>> \in K
    PROVE  PlainWrite(s, m, K, Together(Put(<<h, name>>, body), PutAll([o \in objects |-> "applied"])))
<1> DEFINE file == Put(<<h, name>>, body)
           f == [o \in objects |-> "applied"]
<1>1. PlainWrite(s, m, K, file)
  BY FileRight, PlainWrites
<1>2. \A l \in DOMAIN f : Right(s, m, K, l, f[l])
  BY ClusterUnasked, UnaskedRight DEF Aside
<1> HIDE DEF f, file
<1>3. PlainWrite(s, m, K, PutAll(f))
  BY <1>2, PlainWrites
<1>4. PlainWrite(s, m, K, Together(file, PutAll(f)))
  BY <1>1, <1>3, PlainTogether
<1> QED
  BY <1>4 DEF f, file

\* Objects of the cluster, kept in a file (ManifestsStep).
LEMMA ManifestsPlain ==
    ASSUME NEW h \in Machines, NEW s, NEW m, NEW id \in AskedFiles \ {"modules", "swap"},
           NEW body, body = FileSays(s, m, h, id), NEW resource, resource[1] = "cluster",
           NEW objects, \A o \in objects : Aside(o)
    PROVE  PlainStep(ManifestsStep(id, h, body, resource, objects), s, m)
<1> DEFINE e == ManifestsStep(id, h, body, resource, objects)
           l == <<h, id>>
           x == Together(Put(l, body), PutAll([o \in objects |-> "applied"]))
<1>1. /\ e.host = h /\ e.finds = {<<l, body>>} /\ e.agrees = {} /\ e.carries = {} /\ e.present = {resource}
      /\ e.writes = <<x>>
  BY DEF ManifestsStep, Step
<1>2. Asked(l) /\ body = Says(s, m, l)
  BY FileRight
<1>3. Lasting(l) /\ Lasting(resource)
  BY DEF Lasting
<1>0. l \in Sought(e)
  BY <1>1 DEF Sought
<1> DEFINE K == Sought(e)
<1> HIDE DEF e
<1>4. PlainWrite(s, m, K, x)
  BY <1>0, ManifestWritesPlain
<1> HIDE DEF l, x
<1>5. PlainAll(s, m, K, <<x>>)
  BY <1>4, PlainSequences
<1>6. \A p \in {<<l, body>>} : Asked(p[1]) /\ p[2] = Says(s, m, p[1]) /\ Lasting(p[1])
  BY <1>2, <1>3
<1>7. PlainStep(e, s, m)
  BY <1>1, <1>3, <1>5, <1>6, PlainBy
<1> QED
  BY <1>7 DEF e

\* One object, kept in a file (ManifestStep).
LEMMA ManifestPlain ==
    ASSUME NEW h \in Machines, NEW s, NEW m, NEW id \in AskedFiles \ {"modules", "swap"},
           NEW body, body = FileSays(s, m, h, id), NEW object, Aside(object)
    PROVE  PlainStep(ManifestStep(id, h, body, object), s, m)
<1>1. (\A o \in {object} : Aside(o)) /\ object[1] = "cluster"
  BY DEF Aside
<1> QED
  BY <1>1, ManifestsPlain DEF ManifestStep

\* The objects of those names.
LEMMA ObjectsAside ==
    /\ \A name : name \notin AskedObjects \cup {"cilium-pods", "cilium-config"} => Aside(Object(name))
    /\ \A name : Object(name)[1] = "cluster" /\ Object(name)[2] = name
  BY DEF Aside, Object

\* A value of the cluster that is compared and put.
LEMMA ObjectPut ==
    ASSUME NEW s, NEW m, NEW l, l[1] = "cluster", l[2] \in AskedObjects, NEW v, v = ObjectSays(s, m, l)
    PROVE  /\ \A K : l \in K => PlainWrite(s, m, K, Put(l, v))
           /\ Asked(l) /\ v = Says(s, m, l) /\ Lasting(l)
           /\ \A p \in {<<l, v>>} : Asked(p[1]) /\ p[2] = Says(s, m, p[1]) /\ Lasting(p[1])
<1>1. /\ Asked(l) /\ v = Says(s, m, l)
      /\ \A K : l \in K => Right(s, m, K, l, v)
  BY ObjectRight
<1>2. Lasting(l)
  BY DEF Lasting
<1>3. \A K : l \in K => PlainWrite(s, m, K, Put(l, v))
  BY <1>1, PlainWrites
<1>4. \A p \in {<<l, v>>} : p[1] = l /\ p[2] = v
  OBVIOUS
<1>5. \A p \in {<<l, v>>} : Asked(p[1]) /\ p[2] = Says(s, m, p[1]) /\ Lasting(p[1])
  BY <1>1, <1>2, <1>4
<1> QED
  BY <1>1, <1>2, <1>3, <1>5

\* One that is not compared.
LEMMA AsidePut ==
    ASSUME NEW s, NEW m, NEW l, Aside(l), NEW v
    PROVE  (\A K : PlainWrite(s, m, K, Put(l, v)) /\ PlainWrite(s, m, K, Copy(l, v))) /\ Lasting(l)
<1>1. Unasked(l) /\ Lasting(l)
  BY ClusterUnasked DEF Aside
<1> QED
  BY <1>1, UnaskedRight, PlainWrites

\* A file of any other name.
LEMMA OtherFilePut ==
    ASSUME NEW h \in Machines, NEW s, NEW m, NEW name, name \notin AskedFiles, NEW v
    PROVE  (\A K : PlainWrite(s, m, K, Put(<<h, name>>, v))) /\ Lasting(<<h, name>>)
<1>1. Unasked(<<h, name>>)
  BY FilesSay
<1>2. Lasting(<<h, name>>)
  BY DEF Lasting, AskedFiles
<1> QED
  BY <1>1, <1>2, UnaskedRight, PlainWrites

\* A file that is compared.
LEMMA AskedFilePut ==
    ASSUME NEW h \in Machines, NEW s, NEW m, NEW name \in AskedFiles, NEW v, v = FileSays(s, m, h, name)
    PROVE  /\ \A K : <<h, name>> \in K => PlainWrite(s, m, K, Put(<<h, name>>, v))
           /\ Asked(<<h, name>>) /\ v = Says(s, m, <<h, name>>)
  BY FileRight, PlainWrites

-----------------------------------------------------------------------------
(* The preparation of a node, and the steps of RKE2.                       *)

\* Plain steps.
PlainSteps(x, s, m) == IsSequence(x) /\ \A e \in ToSet(x) : PlainStep(e, s, m)

\* How plain steps are put together.
LEMMA PlainStepsTogether ==
    ASSUME NEW s, NEW m
    PROVE  /\ PlainSteps(<<>>, s, m)
           /\ \A a : PlainStep(a, s, m) => PlainSteps(<<a>>, s, m)
           /\ \A a, b : PlainStep(a, s, m) /\ PlainStep(b, s, m) => PlainSteps(<<a, b>>, s, m)
           /\ \A a, b, c : PlainStep(a, s, m) /\ PlainStep(b, s, m) /\ PlainStep(c, s, m)
                           => PlainSteps(<<a, b, c>>, s, m)
           /\ \A x, y : PlainSteps(x, s, m) /\ PlainSteps(y, s, m) => PlainSteps(x \o y, s, m)
           /\ \A x, c : (c => PlainSteps(x, s, m)) => PlainSteps(When(c, x), s, m)
<1>1. \A x, y : PlainSteps(x, s, m) /\ PlainSteps(y, s, m) => PlainSteps(x \o y, s, m)
  BY ConcatHolds DEF PlainSteps
<1>2. /\ PlainSteps(<<>>, s, m)
      /\ \A a : PlainStep(a, s, m) => PlainSteps(<<a>>, s, m)
      /\ \A a, b : PlainStep(a, s, m) /\ PlainStep(b, s, m) => PlainSteps(<<a, b>>, s, m)
  BY TupleHolds DEF PlainSteps
<1>3. \A a, b, c : PlainStep(a, s, m) /\ PlainStep(b, s, m) /\ PlainStep(c, s, m)
                   => PlainSteps(<<a, b, c>>, s, m)
  BY TupleHolds DEF PlainSteps
<1>4. \A x, c : (c => PlainSteps(x, s, m)) => PlainSteps(When(c, x), s, m)
  BY <1>2 DEF When
<1> QED
  BY <1>1, <1>2, <1>3, <1>4

\* Plain steps, node after node.
LEMMA PlainFlattened ==
    ASSUME NEW s, NEW m, NEW seqs, IsSequence(seqs), \A q \in ToSet(seqs) : PlainSteps(q, s, m)
    PROVE  PlainSteps(FlattenSeq(seqs), s, m)
  BY FlattenedHolds DEF PlainSteps

\* The modules of the kernel, and the swap, are looked for in the files they come from.
LEMMA RestoredPlain ==
    ASSUME NEW h \in Machines, NEW s, NEW m
    PROVE  PlainStep(ModulesStep(h), s, m) /\ PlainStep(SwapStep(h), s, m)
<1> DEFINE e == ModulesStep(h)
           f == SwapStep(h)
<1>1. /\ e.host = h /\ e.finds = {<<<<h, "modules">>, modules>>} /\ e.agrees = {} /\ e.carries = {}
      /\ e.present = {<<h, "modules-load.d">>}
      /\ e.writes = <<Put(<<h, "modules-load.d">>, modules), Put(<<h, "modules">>, modules)>>
  BY DEF ModulesStep, Step
<1>2. /\ f.host = h /\ f.finds = {<<<<h, "swap">>, "off">>, <<<<h, "fstab">>, "off">>} /\ f.agrees = {} /\ f.carries = {}
      /\ f.present = {}
      /\ f.writes = <<Put(<<h, "swap">>, "off"), Put(<<h, "fstab">>, "off")>>
  BY DEF SwapStep, Step
<1> HIDE DEF e, f
<1>3. /\ "modules" \in AskedFiles /\ "swap" \in AskedFiles /\ "fstab" \in AskedFiles
      /\ "modules-load.d" \notin AskedFiles
  BY DEF AskedFiles
<1>4. modules = FileSays(s, m, h, "modules")
  BY DEF FileSays
<1>5. "off" = FileSays(s, m, h, "swap") /\ "off" = FileSays(s, m, h, "fstab")
  BY DEF FileSays
<1>0. <<h, "modules">> \in Sought(e) /\ <<h, "swap">> \in Sought(f) /\ <<h, "fstab">> \in Sought(f)
  BY <1>1, <1>2 DEF Sought
<1> DEFINE K == Sought(e)
           L == Sought(f)
<1> HIDE DEF K, L
<1>6. /\ PlainWrite(s, m, K, Put(<<h, "modules">>, modules))
      /\ Asked(<<h, "modules">>) /\ modules = Says(s, m, <<h, "modules">>)
  BY <1>0, <1>3, <1>4, AskedFilePut DEF K
<1>7. /\ PlainWrite(s, m, L, Put(<<h, "swap">>, "off")) /\ PlainWrite(s, m, L, Put(<<h, "fstab">>, "off"))
      /\ Asked(<<h, "swap">>) /\ "off" = Says(s, m, <<h, "swap">>)
      /\ Asked(<<h, "fstab">>) /\ "off" = Says(s, m, <<h, "fstab">>)
  BY <1>0, <1>3, <1>5, AskedFilePut DEF L
<1>8. PlainWrite(s, m, K, Put(<<h, "modules-load.d">>, modules))
  BY <1>3, OtherFilePut
<1>9. PlainAll(s, m, K, e.writes) /\ PlainAll(s, m, L, f.writes)
  <2> DEFINE w1 == Put(<<h, "modules-load.d">>, modules)
             w2 == Put(<<h, "modules">>, modules)
             w3 == Put(<<h, "swap">>, "off")
             w4 == Put(<<h, "fstab">>, "off")
  <2>1. PlainWrite(s, m, K, w1) /\ PlainWrite(s, m, K, w2) /\ PlainWrite(s, m, L, w3) /\ PlainWrite(s, m, L, w4)
    BY <1>6, <1>7, <1>8
  <2>2. e.writes = <<w1, w2>> /\ f.writes = <<w3, w4>>
    BY <1>1, <1>2
  <2> HIDE DEF w1, w2, w3, w4
  <2>3. PlainAll(s, m, K, <<w1, w2>>) /\ PlainAll(s, m, L, <<w3, w4>>)
    BY <2>1, PlainSequences
  <2> QED
    BY <2>2, <2>3
<1>10. Looked(e) = {<<h, "modules">>, <<h, "modules-load.d">>}
  BY <1>1 DEF Looked
<1>11. Looked(f) = {<<h, "swap">>, <<h, "fstab">>}
  BY <1>2 DEF Looked
<1>12. Survives(e) /\ Survives(f)
  BY <1>10, <1>11 DEF Survives
<1>13. PlainStep(e, s, m)
  BY <1>1, <1>6, <1>9, <1>12 DEF PlainStep, K
<1>14. PlainStep(f, s, m)
  BY <1>2, <1>7, <1>9, <1>12 DEF PlainStep, L
<1> QED
  BY <1>13, <1>14 DEF e, f

\* The preparation of a node (nodeprep).
LEMMA NodePrepPlain ==
    ASSUME NEW h \in Machines, NEW s, NEW m
    PROVE  PlainSteps(NodePrepSteps(h, s, m.trust), s, m)
<1> DEFINE t == m.trust
<1>1. PlainStep(ModulesStep(h), s, m) /\ PlainStep(SwapStep(h), s, m)
  BY RestoredPlain
<1>2. PlainStep(SysctlStep(h), s, m)
  <2> DEFINE e == SysctlStep(h)
             l == <<h, "sysctls">>
  <2>1. /\ e.host = h /\ e.finds = {<<l, checkedSysctls>>} /\ e.agrees = {} /\ e.carries = {}
        /\ e.present = {<<h, "sysctl.d">>}
        /\ e.writes = <<Put(<<h, "sysctl.d">>, sysctls), Put(l, checkedSysctls),
                        Put(<<h, "bridge-sysctls">>, sysctls \ checkedSysctls)>>
    BY DEF SysctlStep, Step
  <2>2. "sysctls" \in AskedFiles /\ "sysctl.d" \notin AskedFiles /\ "bridge-sysctls" \notin AskedFiles
    BY DEF AskedFiles
  <2>3. checkedSysctls = FileSays(s, m, h, "sysctls")
    BY DEF FileSays
  <2> DEFINE K == Sought(e)
  <2>0. l \in K
    BY <2>1 DEF Sought
  <2> HIDE DEF K
  <2>4. PlainWrite(s, m, K, Put(l, checkedSysctls)) /\ Asked(l) /\ checkedSysctls = Says(s, m, l)
    BY <2>0, <2>2, <2>3, AskedFilePut
  <2>5. /\ PlainWrite(s, m, K, Put(<<h, "sysctl.d">>, sysctls)) /\ Lasting(<<h, "sysctl.d">>)
        /\ PlainWrite(s, m, K, Put(<<h, "bridge-sysctls">>, sysctls \ checkedSysctls))
    BY <2>2, OtherFilePut
  <2>6. Lasting(l)
    BY DEF Lasting
  <2> HIDE DEF e, l
  <2>7. PlainAll(s, m, K, e.writes)
    <3> DEFINE w1 == Put(<<h, "sysctl.d">>, sysctls)
               w2 == Put(l, checkedSysctls)
               w3 == Put(<<h, "bridge-sysctls">>, sysctls \ checkedSysctls)
    <3>1. PlainWrite(s, m, K, w1) /\ PlainWrite(s, m, K, w2) /\ PlainWrite(s, m, K, w3)
      BY <2>4, <2>5
    <3>2. e.writes = <<w1, w2, w3>>
      BY <2>1
    <3> HIDE DEF w1, w2, w3
    <3>3. PlainAll(s, m, K, <<w1, w2, w3>>)
      BY <3>1, PlainSequences
    <3> QED
      BY <3>2, <3>3
  <2>8. \A p \in e.finds : Asked(p[1]) /\ p[2] = Says(s, m, p[1]) /\ Lasting(p[1])
    BY <2>1, <2>4, <2>6
  <2>9. PlainStep(e, s, m)
    BY <2>1, <2>5, <2>7, <2>8, PlainBy DEF K
  <2> QED
    BY <2>9 DEF e
<1>3. PlainStep(DataDirStep(h), s, m)
  <2> DEFINE e == DataDirStep(h)
             l == <<h, "/var/lib/rancher">>
  <2>1. /\ e.host = h /\ e.finds = {} /\ e.agrees = {} /\ e.carries = {} /\ e.present = {l}
        /\ e.writes = <<Put(l, "made")>>
    BY DEF DataDirStep, Step
  <2>2. "/var/lib/rancher" \notin AskedFiles
    BY DEF AskedFiles
  <2>3. (\A K : PlainWrite(s, m, K, Put(l, "made"))) /\ Lasting(l)
    BY <2>2, OtherFilePut
  <2> HIDE DEF e, l
  <2>4. PlainAll(s, m, Sought(e), e.writes)
    BY <2>1, <2>3, PlainSequences
  <2>5. PlainStep(e, s, m)
    BY <2>1, <2>3, <2>4, PlainBy
  <2> QED
    BY <2>5 DEF e
<1>4. PlainStep(TrustStep(h, t), s, m)
  <2> DEFINE e == TrustStep(h, t)
             l == <<h, "ca-file">>
  <2>1. /\ e.host = h /\ e.finds = {<<l, t.ca>>} /\ e.agrees = {} /\ e.carries = {} /\ e.present = {}
        /\ e.writes = <<Put(l, t.ca), Put(<<h, "ca-store">>, t.ca)>>
    BY DEF TrustStep, Step
  <2>2. "ca-file" \in AskedFiles /\ "ca-store" \notin AskedFiles
    BY DEF AskedFiles
  <2>3. t.ca = FileSays(s, m, h, "ca-file")
    BY DEF FileSays
  <2> DEFINE K == Sought(e)
  <2>0. l \in K
    BY <2>1 DEF Sought
  <2> HIDE DEF K
  <2>4. PlainWrite(s, m, K, Put(l, t.ca)) /\ Asked(l) /\ t.ca = Says(s, m, l)
    BY <2>0, <2>2, <2>3, AskedFilePut
  <2>5. PlainWrite(s, m, K, Put(<<h, "ca-store">>, t.ca))
    BY <2>2, OtherFilePut
  <2>6. Lasting(l)
    BY DEF Lasting
  <2> HIDE DEF e, l
  <2>7. PlainAll(s, m, K, e.writes)
    BY <2>1, <2>4, <2>5, PlainSequences
  <2>8. \A p \in e.finds : Asked(p[1]) /\ p[2] = Says(s, m, p[1]) /\ Lasting(p[1])
    BY <2>1, <2>4, <2>6
  <2>9. PlainStep(e, s, m)
    BY <2>1, <2>7, <2>8, PlainBy DEF K
  <2> QED
    BY <2>9 DEF e
<1>5. PlainStep(RegistriesStep(h, s, t), s, m)
  <2>1. "registries.yaml" \in AskedFiles \ {"modules", "swap"}
    BY DEF AskedFiles
  <2>2. RegistriesYAML(s, t) = FileSays(s, m, h, "registries.yaml")
    BY DEF FileSays
  <2> QED
    BY <2>1, <2>2, FilePlain DEF RegistriesStep
<1>6. /\ PlainSteps(<<ModulesStep(h), SysctlStep(h)>>, s, m)
      /\ PlainSteps(<<SwapStep(h)>>, s, m) /\ PlainSteps(<<DataDirStep(h)>>, s, m)
      /\ PlainSteps(<<TrustStep(h, t)>>, s, m) /\ PlainSteps(<<RegistriesStep(h, s, t)>>, s, m)
  BY <1>1, <1>2, <1>3, <1>4, <1>5, PlainStepsTogether
<1>7. \A x, c : PlainSteps(x, s, m) => PlainSteps(When(c, x), s, m)
  BY PlainStepsTogether
<1>8. \A x, y : PlainSteps(x, s, m) /\ PlainSteps(y, s, m) => PlainSteps(x \o y, s, m)
  BY PlainStepsTogether
<1> QED
  BY <1>6, <1>7, <1>8, Zenon DEF NodePrepSteps

\* RKE2's installation and its configuration (install.go, config.go).
LEMMA InstallPlain ==
    ASSUME NEW h \in Machines, NEW s, NEW m
    PROVE  /\ PlainStep(InstallStep(h, s), s, m)
           /\ InstallStep(h, s).id = "install" /\ InstallStep(h, s).host = h
<1> DEFINE e == InstallStep(h, s)
           v == s.kubernetes.version
           l == <<h, "rke2">>
           x == Put(l, v)
<1>1. /\ e.host = h /\ e.id = "install" /\ e.agrees = {} /\ e.carries = {} /\ e.present = {l}
      /\ e.finds = IF v = "latest" THEN {} ELSE {<<l, v>>}
      /\ e.writes = <<x>>
  BY DEF InstallStep, Step
<1>2. "rke2" \in AskedFiles
  BY DEF AskedFiles
<1>3. v = FileSays(s, m, h, "rke2")
  BY DEF FileSays
<1> DEFINE K == Sought(e)
<1>0. l \in K
  BY <1>1 DEF Sought
<1> HIDE DEF K
<1>4. PlainWrite(s, m, K, x) /\ Asked(l) /\ v = Says(s, m, l)
  BY <1>0, <1>2, <1>3, AskedFilePut
<1>5. Lasting(l)
  BY DEF Lasting
<1> HIDE DEF e, v, l, x
<1>6. PlainAll(s, m, K, <<x>>) /\ e.writes = <<x>>
  BY <1>1, <1>4, PlainSequences
<1>7. \A p \in e.finds : Asked(p[1]) /\ p[2] = Says(s, m, p[1]) /\ Lasting(p[1])
  BY <1>1, <1>4, <1>5
<1>8. PlainStep(e, s, m)
  BY <1>1, <1>5, <1>6, <1>7, PlainBy DEF K
<1> QED
  BY <1>1, <1>8 DEF e

\* The configuration is what its step looks for.
LEMMA ConfigPlain ==
    ASSUME NEW h \in Machines, NEW s, NEW m, NEW body, body = ConfigOf(s, h)
    PROVE  /\ PlainStep(ConfigStep(h, body), s, m)
           /\ ConfigStep(h, body).id = "config" /\ ConfigStep(h, body).host = h
           /\ <<<<h, "config.yaml">>, Says(s, m, <<h, "config.yaml">>)>> \in ConfigStep(h, body).finds
<1>1. /\ ConfigStep(h, body).id = "config" /\ ConfigStep(h, body).host = h
      /\ ConfigStep(h, body).finds = {<<<<h, "config.yaml">>, body>>}
  BY DEF ConfigStep, ConfigDirFile, FileStep, Step
<1>2. "config.yaml" \in AskedFiles \ {"modules", "swap"}
  BY DEF AskedFiles
<1>3. body = FileSays(s, m, h, "config.yaml")
  BY DEF FileSays
<1>4. PlainStep(ConfigStep(h, body), s, m)
  BY <1>2, <1>3, FilePlain DEF ConfigStep
<1>5. body = Says(s, m, <<h, "config.yaml">>)
  BY <1>2, <1>3, FileRight
<1> QED
  BY <1>1, <1>4, <1>5

\* The operator's copy of the credentials (bootstrap.go).
LEMMA KubeconfigPlain ==
    ASSUME NEW n, n.host \in Machines, NEW s, NEW m
    PROVE  PlainStep(KubeconfigStep(n, s), s, m) /\ KubeconfigStep(n, s).id = "kubeconfig"
<1> DEFINE body == IF OperatorServer(s) = "" THEN "127.0.0.1" ELSE OperatorServer(s)
           file == FileStep("kubeconfig", n.host, "kubeconfig", body)
           copy == [file EXCEPT !.needs = {<<n.host, "rke2.yaml">>}]
<1>1. "kubeconfig" \in AskedFiles \ {"modules", "swap"}
  BY DEF AskedFiles
<1>2. body = FileSays(s, m, n.host, "kubeconfig")
  BY DEF FileSays, Or
<1>3. PlainStep(file, s, m)
  BY <1>1, <1>2, FilePlain
<1>4. PlainStep(Step("kubeconfig", n.host), s, m) /\ Step("kubeconfig", n.host).id = "kubeconfig"
  BY FailedPlain DEF Step
<1>5. /\ copy.writes = file.writes /\ copy.id = "kubeconfig" /\ copy.host = file.host
      /\ copy.finds = file.finds /\ copy.agrees = file.agrees
      /\ copy.carries = file.carries /\ copy.present = file.present
  BY DEF FileStep, Step
<1>6. KubeconfigStep(n, s) = IF n.user = "root" THEN Step("kubeconfig", n.host) ELSE copy
  BY DEF KubeconfigStep
<1> HIDE DEF file, copy
<1>7. PlainStep(copy, s, m)
  BY <1>3, <1>5, SamePlain
<1> QED
  BY <1>4, <1>5, <1>6, <1>7

\* The operator's tools (opstools.go).
LEMMA OpsToolsPlain ==
    ASSUME NEW h \in Machines, NEW s, NEW m, NEW online
    PROVE  PlainStep(OpsToolsStep(h, online), s, m) /\ OpsToolsStep(h, online).id = "operator-tools"
<1> DEFINE tools == IF online THEN <<"kubectl", "k9s", "helm">> ELSE <<"kubectl">>
           e == OpsToolsStep(h, online)
           Of(i) == Put(<<h, tools[i]>>, "installed")
           ws == [i \in DOMAIN tools |-> Of(i)]
<1>1. /\ e.host = h /\ e.id = "operator-tools" /\ e.finds = {} /\ e.agrees = {} /\ e.carries = {}
      /\ e.present = {<<h, t>> : t \in ToSet(tools)} /\ e.writes = ws
  BY DEF OpsToolsStep, Step
<1>2. tools \in Seq({"kubectl", "k9s", "helm"})
  <2>1. <<"kubectl", "k9s", "helm">> \in Seq({"kubectl", "k9s", "helm"})
    OBVIOUS
  <2>2. <<"kubectl">> \in Seq({"kubectl", "k9s", "helm"})
    OBVIOUS
  <2> QED
    BY <2>1, <2>2
<1> HIDE DEF tools, e
<1>3. \A t \in {"kubectl", "k9s", "helm"} : t \notin AskedFiles
  BY DEF AskedFiles
<1> DEFINE K == Sought(e)
<1> HIDE DEF K
<1>4. \A i \in DOMAIN tools : PlainWrite(s, m, K, Of(i))
  <2> TAKE i \in DOMAIN tools
  <2>1. tools[i] \in {"kubectl", "k9s", "helm"}
    BY <1>2
  <2> QED
    BY <1>3, <2>1, OtherFilePut
<1>5. \A l \in e.present : Lasting(l)
  <2> SUFFICES ASSUME NEW t \in ToSet(tools) PROVE Lasting(<<h, t>>)
    BY <1>1
  <2>1. t \in {"kubectl", "k9s", "helm"}
    BY <1>2 DEF ToSet
  <2> QED
    BY <1>3, <2>1, OtherFilePut
<1> HIDE DEF Of
<1>6. ws \in Seq({Of(i) : i \in DOMAIN tools})
  BY <1>2
<1>7. \A x \in ToSet(ws) : PlainWrite(s, m, K, x)
  BY <1>4 DEF ToSet
<1> HIDE DEF ws
<1>8. PlainAll(s, m, K, ws)
  BY <1>6, <1>7 DEF PlainAll, IsSequence
<1>9. PlainStep(e, s, m)
  BY <1>1, <1>5, <1>8, PlainBy DEF K
<1> QED
  BY <1>1, <1>9 DEF e

\* The wait for a node that joined to register, and the token it joined with (join.go).
LEMMA RegisteredPlain ==
    ASSUME NEW n, n.host \in Machines, NEW s, NEW m, NEW first
    PROVE  /\ PlainStep(RegisteredStep(n, s), s, m) /\ RegisteredStep(n, s).id = "registered"
           /\ PlainStep(tokenStep(first, n.host), s, m) /\ tokenStep(first, n.host).id = "token"
<1> DEFINE wait == WaitStep("registered", n.host, <<"cluster", "node", n.host>>, {<<n.host, "process.config">>})
           e == RegisteredStep(n, s)
           t == tokenStep(first, n.host)
<1>1. /\ e.writes = wait.writes /\ e.id = "registered" /\ e.host = wait.host /\ e.finds = wait.finds
      /\ e.agrees = wait.agrees /\ e.carries = wait.carries /\ e.present = wait.present
  BY DEF RegisteredStep, WaitStep, Step
<1>2. Aside(<<"cluster", "node", n.host>>)
  BY DEF Aside, AskedObjects
<1>3. PlainStep(wait, s, m)
  BY <1>2, WaitPlain
<1>4. /\ t.host = n.host /\ t.id = "token" /\ t.finds = {} /\ t.agrees = {} /\ t.carries = {} /\ t.writes = <<>>
      /\ t.present = {<<first, "token">>}
  BY DEF tokenStep, Step
<1>5. Lasting(<<first, "token">>) /\ \A K : PlainAll(s, m, K, <<>>)
  BY PlainSequences DEF Lasting
<1> HIDE DEF wait, e, t
<1>6. PlainStep(e, s, m)
  BY <1>1, <1>3, SamePlain
<1>7. PlainStep(t, s, m)
  BY <1>4, <1>5, PlainBy
<1> QED
  BY <1>1, <1>4, <1>6, <1>7 DEF e, t

\* The address of the control plane (kubevip.go).
LEMMA VIPPlain ==
    ASSUME NEW s, NEW m, NEW h \in Machines, h = s.topology.servers[1].host
    PROVE  /\ PlainSteps(vipSteps(h, s), s, m)
           /\ \A step \in ToSet(vipSteps(h, s)) : step.id # "config"
<1>1. PlainSteps(VIPSteps(h, s, InterfaceOf(s)), s, m)
  <2> DEFINE iface == InterfaceOf(s)
             a == KubeVIPStep(h, s, iface)
             b == VIPAnswersStep(h, s)
  <2>1. PlainStep(a, s, m)
    <3>1. "kube-vip-manifest" \in AskedFiles \ {"modules", "swap"}
      BY DEF AskedFiles
    <3>2. KubeVIPManifestBody(s, iface) = FileSays(s, m, h, "kube-vip-manifest")
      BY DEF FileSays
    <3> QED
      BY <3>1, <3>2, FilePlain DEF KubeVIPStep
  <2>2. PlainStep(b, s, m)
    <3>1. Aside(Address(VIPAddress(s)))
      BY DEF Aside, Address, AskedObjects
    <3> QED
      BY <3>1, WaitPlain DEF VIPAnswersStep
  <2> HIDE DEF a, b
  <2>3. PlainSteps(<<a, b>>, s, m) /\ PlainSteps(<<>>, s, m)
    BY <2>1, <2>2, PlainStepsTogether
  <2> QED
    BY <2>3, Zenon DEF VIPSteps, a, b
<1>2. PlainSteps(<<vipFailure(h)>>, s, m) /\ PlainSteps(<<>>, s, m)
  BY FailedPlain, PlainStepsTogether DEF vipFailure
<1> DEFINE named == (CHOOSE v \in s.topology.vip : TRUE).interface
           chosen == CHOOSE i \in ResolveVIPInterface(h) : TRUE
<1>3. IF named \notin {"", "auto"} THEN InterfaceOf(s) = named ELSE InterfaceOf(s) = chosen
  BY DEF InterfaceOf
<1>4. vipSteps(h, s) = IF VIPAddress(s) = "" THEN <<>>
                       ELSE IF named \notin {"", "auto"} THEN VIPSteps(h, s, named)
                       ELSE IF Cardinality(ResolveVIPInterface(h)) # 1 THEN <<vipFailure(h)>>
                       ELSE VIPSteps(h, s, chosen)
  BY DEF vipSteps
<1> HIDE DEF named, chosen
<1>5. PlainSteps(vipSteps(h, s), s, m)
  BY <1>1, <1>2, <1>3, <1>4
<1> QED
  BY <1>5, VIPFits

-----------------------------------------------------------------------------
(* The add-ons.                                                            *)

\* A step whose waits or objects are of the cluster.
LEMMA ObjectPlain ==
    ASSUME NEW h \in Machines, NEW s, NEW m, NEW name,
           name \notin AskedObjects \cup {"cilium-pods", "cilium-config"}
    PROVE  /\ \A id, needs : PlainStep(WaitStep(id, h, Object(name), needs), s, m)
           /\ \A id, needs : PlainStep(AcceptsStep(id, h, name, needs), s, m)
           /\ \A id \in AskedFiles \ {"modules", "swap"} : \A body :
                 body = FileSays(s, m, h, id) => PlainStep(ManifestStep(id, h, body, Object(name)), s, m)
<1>1. Aside(Object(name))
  BY ObjectsAside
<1>2. \A id, needs : PlainStep(WaitStep(id, h, Object(name), needs), s, m)
  BY <1>1, WaitPlain
<1>3. \A id \in AskedFiles \ {"modules", "swap"} : \A body :
         body = FileSays(s, m, h, id) => PlainStep(ManifestStep(id, h, body, Object(name)), s, m)
  BY <1>1, ManifestPlain
<1> QED
  BY <1>2, <1>3 DEF AcceptsStep

\* A chart (ChartStep).
LEMMA ChartPlain ==
    ASSUME NEW h \in Machines, NEW s, NEW m, NEW id \in AskedFiles \ {"modules", "swap"},
           NEW chart, NEW values, [chart |-> chart, values |-> values] = FileSays(s, m, h, id)
    PROVE  PlainStep(ChartStep(id, h, chart, values), s, m)
<1>1. Aside(HelmChart(id))
  BY DEF Aside, HelmChart, AskedObjects
<1> QED
  BY <1>1, ManifestPlain DEF ChartStep

\* A value that is compared and what stands for it, put at once.
LEMMA PairPlain ==
    ASSUME NEW s, NEW m, NEW l, Aside(l), NEW v,
           NEW k, k[1] = "cluster", k[2] \in AskedObjects, NEW u, u = ObjectSays(s, m, k)
    PROVE  \A K : k \in K => PlainWrite(s, m, K, PutAll(Just(l, v) ++ Just(k, u)))
<1> DEFINE a == Just(l, v)
           b == Just(k, u)
<1>1. DOMAIN a = {l} /\ DOMAIN b = {k} /\ b[k] = u
  BY JustHas
<1>2. \A K : (k \in K => Right(s, m, K, k, u)) /\ Right(s, m, K, l, a[l])
  BY ObjectRight, ClusterUnasked, UnaskedRight DEF Aside
<1>3. k # l
  BY DEF Aside
<1> HIDE DEF a, b
<1>4. \A j : /\ j \in DOMAIN (a ++ b) <=> j \in DOMAIN a \/ j \in DOMAIN b
             /\ j \in DOMAIN a => (a ++ b)[j] = a[j]
             /\ j \notin DOMAIN a /\ j \in DOMAIN b => (a ++ b)[j] = b[j]
  BY MergeAt
<1> DEFINE f == a ++ b
<1> HIDE DEF f
<1>5. \A K : k \in K => \A j \in DOMAIN f : Right(s, m, K, j, f[j])
  BY <1>1, <1>2, <1>3, <1>4 DEF f
<1>6. \A K : k \in K => PlainWrite(s, m, K, PutAll(f))
  BY <1>5, PlainWrites
<1> QED
  BY <1>6 DEF f, a, b

\* The default storage class (storage.go).
LEMMA StoragePlain ==
    ASSUME NEW h \in Machines, NEW s, NEW m
    PROVE  PlainSteps(StorageSteps(h, s), s, m)
<1> DEFINE class == Object("storageclass")
<1>0. class[1] = "cluster" /\ class[2] = "storageclass" /\ "storageclass" \in AskedObjects
  BY DEF Object, AskedObjects
<1>00. IsDefaultClass(s) = ObjectSays(s, m, class)
  BY <1>0 DEF ObjectSays
<1>1. PlainStep(ProvisionerStep(h, s), s, m)
  <2> DEFINE e == ProvisionerStep(h, s)
             l == <<h, "provisioner">>
             body == StorageManifest(s)
             objects == {Object("local-path-provisioner")}
             one == Together(Put(l, body), PutAll([o \in objects |-> "applied"]))
             put == Put(class, IsDefaultClass(s))
  <2>1. /\ e.host = h /\ e.finds = {<<l, body>>} /\ e.agrees = {} /\ e.carries = {}
        /\ e.present = {Object("local-path-provisioner")} /\ e.writes = <<Together(one, put)>>
    BY DEF ProvisionerStep, ManifestStep, ManifestsStep, Step
  <2>2. "provisioner" \in AskedFiles /\ body = FileSays(s, m, h, "provisioner")
    BY DEF AskedFiles, FileSays
  <2>3. Aside(Object("local-path-provisioner"))
    BY ObjectsAside DEF AskedObjects
  <2> DEFINE K == Sought(e)
  <2>0. l \in K /\ class \in K
    BY <2>1 DEF Sought
  <2> HIDE DEF K
  <2>4. PlainWrite(s, m, K, one)
    BY <2>0, <2>2, <2>3, ManifestWritesPlain
  <2>5. PlainWrite(s, m, K, put)
    BY <1>0, <1>00, <2>0, ObjectPut
  <2>6. Asked(l) /\ body = Says(s, m, l)
    BY <2>2, FileRight
  <2>7. Lasting(l) /\ Lasting(Object("local-path-provisioner"))
    BY DEF Lasting, Object
  <2> HIDE DEF e, l, body, one, put
  <2>8. PlainWrite(s, m, K, Together(one, put))
    BY <2>4, <2>5, PlainTogether
  <2>9. PlainAll(s, m, K, <<Together(one, put)>>)
    BY <2>8, PlainSequences
  <2>10. \A p \in {<<l, body>>} : Asked(p[1]) /\ p[2] = Says(s, m, p[1]) /\ Lasting(p[1])
    BY <2>6, <2>7
  <2>11. PlainStep(e, s, m)
    BY <2>1, <2>7, <2>9, <2>10, PlainBy DEF K
  <2> QED
    BY <2>11 DEF e
<1>2. PlainStep(StorageReadyStep(h, s), s, m)
  <2> DEFINE e == StorageReadyStep(h, s)
             loc == Object("provisioner-ready")
             yes == TRUE
  <2>1. /\ e.host = h /\ e.agrees = {} /\ e.carries = {} /\ e.present = {loc} \cup {class}
        /\ e.finds = IF IsDefaultClass(s) THEN {<<class, yes>>} ELSE {}
        /\ e.writes = <<Put(loc, "ready")>>
    BY DEF StorageReadyStep, WaitStep, Step
  <2>2. Aside(loc)
    BY ObjectsAside DEF AskedObjects
  <2>3. (\A K : PlainWrite(s, m, K, Put(loc, "ready"))) /\ Lasting(loc)
    BY <2>2, AsidePut
  <2>4. Lasting(class) /\ Asked(class) /\ IsDefaultClass(s) = Says(s, m, class)
    BY <1>0, <1>00, ObjectPut
  <2> HIDE DEF e, loc, class
  <2>5. PlainAll(s, m, Sought(e), <<Put(loc, "ready")>>)
    BY <2>3, PlainSequences
  <2>6. \A p \in e.finds : Asked(p[1]) /\ p[2] = Says(s, m, p[1]) /\ Lasting(p[1])
    <3>1. CASE ~IsDefaultClass(s)
      BY <2>1, <3>1
    <3>2. CASE IsDefaultClass(s)
      <4>1. Says(s, m, class) = yes
        BY <2>4, <3>2
      <4> HIDE DEF yes
      <4>2. \A p \in e.finds : p[1] = class /\ p[2] = yes
        BY <2>1, <3>2
      <4> QED
        BY <2>4, <4>1, <4>2
    <3> QED
      BY <3>1, <3>2
  <2>7. PlainStep(e, s, m)
    BY <2>1, <2>3, <2>4, <2>5, <2>6, PlainBy
  <2> QED
    BY <2>7 DEF e
<1>3. PlainStep(ByoStep(h), s, m)
  <2> DEFINE e == ByoStep(h)
  <2>1. /\ e.host = h /\ e.finds = {} /\ e.agrees = {} /\ e.carries = {} /\ e.present = {class} /\ e.writes = <<>>
    BY DEF ByoStep, Step
  <2>2. Lasting(class) /\ \A K : PlainAll(s, m, K, <<>>)
    BY <1>0, PlainSequences DEF Lasting
  <2> HIDE DEF e, class
  <2>3. PlainStep(e, s, m)
    BY <2>1, <2>2, PlainBy
  <2> QED
    BY <2>3 DEF e
<1>4. PlainStep(UnimplementedStep(h, s), s, m)
  BY FailedPlain DEF UnimplementedStep
<1>5. /\ PlainSteps(<<>>, s, m) /\ PlainSteps(<<ProvisionerStep(h, s), StorageReadyStep(h, s)>>, s, m)
      /\ PlainSteps(<<ByoStep(h)>>, s, m) /\ PlainSteps(<<UnimplementedStep(h, s)>>, s, m)
  BY <1>1, <1>2, <1>3, <1>4, PlainStepsTogether
<1> QED
  BY <1>5 DEF StorageSteps

\* The issuers and the bundle of trust (pki.go).
LEMMA PkiPlain ==
    ASSUME NEW h \in Machines, NEW s, NEW m
    PROVE  PlainSteps(PkiSteps(h, s, m.pki, m.charts), s, m)
<1> DEFINE k == m.pki
           charts == m.charts
<1>0. {"cert-manager", "trust-manager", "issuer", "trust-bundle"} \subseteq AskedFiles \ {"modules", "swap"}
  BY DEF AskedFiles
<1>1. /\ PlainStep(CertManagerStep(h, s, charts), s, m) /\ PlainStep(TrustManagerStep(h, s, charts), s, m)
  <2>1. [chart |-> Chart(s, charts, "cert-manager"), values |-> <<s.pki.mode = "acme-http01", SystemRegistry(s)>>]
           = FileSays(s, m, h, "cert-manager")
    BY DEF FileSays, ChartOf
  <2>2. [chart |-> Chart(s, charts, "trust-manager"), values |-> <<>>] = FileSays(s, m, h, "trust-manager")
    BY DEF FileSays, ChartOf
  <2> QED
    BY <1>0, <2>1, <2>2, ChartPlain DEF CertManagerStep, TrustManagerStep
<1> DEFINE certReady == AcceptsStep("cert-manager-ready", h, "cert-manager",
                                    ServingNeeds(s, charts, "cert-manager", "cert-manager"))
           trustReady == AcceptsStep("trust-manager-ready", h, "trust-manager",
                                     ServingNeeds(s, charts, "trust-manager", "trust-manager"))
           made == ManifestStep("issuer", h, IssuerManifest(s), Object("issuer"))
           spread == ManifestStep("trust-bundle", h, TrustBundle, Object("trust-bundle"))
<1>2. PlainStep(certReady, s, m) /\ PlainStep(trustReady, s, m)
  BY ObjectPlain DEF AskedObjects
<1>3. PlainStep(made, s, m) /\ PlainStep(spread, s, m) /\ PlainStep(IssuerReadyStep(h, s, k), s, m)
  <2>1. IssuerManifest(s) = FileSays(s, m, h, "issuer")
    BY DEF FileSays
  <2>2. TrustBundle = FileSays(s, m, h, "trust-bundle")
    BY DEF FileSays
  <2>3. \A name \in {"issuer", "trust-bundle", "issuer-ready"} :
           name \notin AskedObjects \cup {"cilium-pods", "cilium-config"}
    BY DEF AskedObjects
  <2>4. PlainStep(made, s, m) /\ PlainStep(spread, s, m)
    BY <1>0, <2>1, <2>2, <2>3, ObjectPlain
  <2>5. PlainStep(IssuerReadyStep(h, s, k), s, m)
    BY <2>3, ObjectPlain DEF IssuerReadyStep
  <2> QED
    BY <2>4, <2>5
<1>4. PlainStep(CASecretStep(h, k), s, m)
  <2> DEFINE e == CASecretStep(h, k)
             l == Object("ca-fingerprint")
             x == PutAll(Just(Object("ca-secret"), <<k.cert, k.key>>) ++ Just(l, k.cert))
  <2>1. /\ e.host = h /\ e.finds = {<<l, k.cert>>} /\ e.agrees = {} /\ e.carries = {} /\ e.present = {} /\ e.writes = <<x>>
    BY DEF CASecretStep, Step
  <2>2. l[1] = "cluster" /\ l[2] = "ca-fingerprint" /\ "ca-fingerprint" \in AskedObjects
    BY DEF Object, AskedObjects
  <2>3. k.cert = ObjectSays(s, m, l)
    BY <2>2 DEF ObjectSays
  <2>4. Aside(Object("ca-secret"))
    BY ObjectsAside DEF AskedObjects
  <2> DEFINE K == Sought(e)
  <2>0. l \in K
    BY <2>1 DEF Sought
  <2> HIDE DEF K
  <2>5. PlainWrite(s, m, K, x)
    BY <2>0, <2>2, <2>3, <2>4, PairPlain
  <2>6. \A p \in {<<l, k.cert>>} : Asked(p[1]) /\ p[2] = Says(s, m, p[1]) /\ Lasting(p[1])
    BY <2>2, <2>3, ObjectPut
  <2> HIDE DEF e, l, x, k
  <2>7. PlainAll(s, m, K, <<x>>)
    BY <2>5, PlainSequences
  <2>8. PlainStep(e, s, m)
    BY <2>1, <2>6, <2>7, PlainBy DEF K
  <2> QED
    BY <2>8 DEF e
<1>5. PlainStep(ACMETokenStep(h, s, k), s, m)
  <2> DEFINE e == ACMETokenStep(h, s, k)
             l == acmeSecretName(s)
             x == Put(l, k.acme)
  <2>1. /\ e.host = h /\ e.finds = {} /\ e.agrees = {} /\ e.carries = {} /\ e.present = {l} /\ e.writes = <<x>>
    BY DEF ACMETokenStep, Step
  <2>2. Aside(l)
    BY DEF Aside, acmeSecretName, AskedObjects
  <2>3. (\A K : PlainWrite(s, m, K, x)) /\ Lasting(l)
    BY <2>2, AsidePut
  <2> HIDE DEF e, l, x
  <2>4. PlainAll(s, m, Sought(e), <<x>>)
    BY <2>3, PlainSequences
  <2>5. PlainStep(e, s, m)
    BY <2>1, <2>3, <2>4, PlainBy
  <2> QED
    BY <2>5 DEF e
<1>6. PlainStep(FailedStep("material", h), s, m)
  BY FailedPlain
<1> DEFINE chart == <<CertManagerStep(h, s, charts), certReady>>
           issuer == <<made, IssuerReadyStep(h, s, k)>>
           bundle == <<TrustManagerStep(h, s, charts), trustReady, spread>>
<1>8. PlainSteps(chart, s, m) /\ PlainSteps(issuer, s, m) /\ PlainSteps(bundle, s, m)
  <2> HIDE DEF certReady, trustReady, made, spread
  <2> QED
    BY <1>1, <1>2, <1>3, PlainStepsTogether
<1>9. PlainSteps(chart \o <<FailedStep("material", h)>>, s, m)
  BY <1>6, <1>8, PlainStepsTogether
<1>10. Append(chart, FailedStep("material", h)) = chart \o <<FailedStep("material", h)>>
  <2> DEFINE a == CertManagerStep(h, s, charts)
             f == FailedStep("material", h)
  <2> HIDE DEF a, certReady, f
  <2>1. Append(<<a, certReady>>, f) = <<a, certReady>> \o <<f>>
    OBVIOUS
  <2> QED
    BY <2>1 DEF a, f
<1>11. PlainSteps(<<CASecretStep(h, k)>>, s, m) /\ PlainSteps(<<ACMETokenStep(h, s, k)>>, s, m)
       /\ PlainSteps(<<>>, s, m)
  BY <1>4, <1>5, PlainStepsTogether
<1>12. \A x, c : PlainSteps(x, s, m) => PlainSteps(When(c, x), s, m)
  BY PlainStepsTogether
<1>13. \A x, y : PlainSteps(x, s, m) /\ PlainSteps(y, s, m) => PlainSteps(x \o y, s, m)
  BY PlainStepsTogether
<1>14. PlainSteps(chart \o When(s.pki.mode = "private-ca", <<CASecretStep(h, k)>>)
                  \o When(s.pki.mode = "acme-dns01" /\ k.acme # "", <<ACMETokenStep(h, s, k)>>)
                  \o issuer \o When(WantsTrustBundle(s), bundle), s, m)
  <2> HIDE DEF chart, issuer, bundle, k
  <2> QED
    BY <1>8, <1>11, <1>12, <1>13, Zenon
<1>15. PlainSteps(Append(chart, FailedStep("material", h)), s, m)
  BY <1>9, <1>10
<1>16. PkiSteps(h, s, k, charts) =
          IF ~WantsCertManager(s) THEN <<>>
          ELSE IF s.pki.mode = "private-ca" /\ (k.cert = "" \/ k.key = "")
               THEN Append(chart, FailedStep("material", h))
          ELSE chart
               \o When(s.pki.mode = "private-ca", <<CASecretStep(h, k)>>)
               \o When(s.pki.mode = "acme-dns01" /\ k.acme # "", <<ACMETokenStep(h, s, k)>>)
               \o issuer
               \o When(WantsTrustBundle(s), bundle)
  BY DEF PkiSteps
<1> HIDE DEF chart, issuer, bundle
<1> QED
  BY <1>11, <1>14, <1>15, <1>16

\* The metrics (observability.go).
LEMMA ObservabilityPlain ==
    ASSUME NEW h \in Machines, NEW s, NEW m
    PROVE  PlainSteps(ObservabilitySteps(h, s, m.charts), s, m)
<1> DEFINE charts == m.charts
           chart == ChartStep("metrics-stack", h, Chart(s, charts, "victoria-metrics-k8s-stack"), StackChart(s))
<1>1. PlainStep(FailedStep("stack", h), s, m)
  BY FailedPlain
<1>2. PlainStep(chart, s, m)
  <2>1. "metrics-stack" \in AskedFiles \ {"modules", "swap"}
    BY DEF AskedFiles
  <2>2. [chart |-> Chart(s, charts, "victoria-metrics-k8s-stack"), values |-> StackChart(s)]
           = FileSays(s, m, h, "metrics-stack")
    BY DEF FileSays, ChartOf
  <2> QED
    BY <2>1, <2>2, ChartPlain
<1>3. PlainStep(DatabaseReadyStep(h, s, charts), s, m)
  BY ObjectPlain DEF DatabaseReadyStep, AskedObjects
<1> HIDE DEF chart
<1>4. /\ PlainSteps(<<>>, s, m) /\ PlainSteps(<<FailedStep("stack", h)>>, s, m)
      /\ PlainSteps(<<chart, DatabaseReadyStep(h, s, charts)>>, s, m)
  BY <1>1, <1>2, <1>3, PlainStepsTogether
<1> QED
  BY <1>4 DEF ObservabilitySteps, chart

\* Argo CD and the applications it starts from (platform.go).
LEMMA PlatformPlain ==
    ASSUME NEW h \in Machines, NEW s, NEW m
    PROVE  PlainSteps(PlatformSteps(h, s, m.trust, m.charts), s, m)
<1> DEFINE t == m.trust
           charts == m.charts
           chart == ChartStep("argocd", h, Chart(s, charts, "argo-cd"), SystemRegistry(s))
           accepts == AcceptsStep("argocd-ready", h, "argocd", ServingNeeds(s, charts, "argocd", "argo-cd"))
           apps == ManifestStep("bootstrap-apps", h, Applications(s), Object("applications"))
<1>0. {"argocd", "bootstrap-apps"} \subseteq AskedFiles \ {"modules", "swap"}
  BY DEF AskedFiles
<1>1. PlainStep(FailedStep("bootstrap-apps", h), s, m)
  BY FailedPlain
<1>2. PlainStep(chart, s, m)
  <2>1. [chart |-> Chart(s, charts, "argo-cd"), values |-> SystemRegistry(s)] = FileSays(s, m, h, "argocd")
    BY DEF FileSays, ChartOf
  <2> QED
    BY <1>0, <2>1, ChartPlain
<1>3. \A name \in {"argocd", "applications", "argocd-available", "synced", "repository"} :
         name \notin AskedObjects \cup {"cilium-pods", "cilium-config"}
  BY DEF AskedObjects
<1>4. PlainStep(accepts, s, m) /\ PlainStep(AvailableStep(h), s, m) /\ PlainStep(SyncedStep(h, s), s, m)
  BY <1>3, ObjectPlain DEF AvailableStep, SyncedStep
<1>5. PlainStep(apps, s, m)
  <2>1. Applications(s) = FileSays(s, m, h, "bootstrap-apps")
    BY DEF FileSays
  <2> QED
    BY <1>0, <1>3, <2>1, ObjectPlain
<1>6. PlainStep(RepoSecretStep(h, s, t), s, m)
  <2> DEFINE e == RepoSecretStep(h, s, t)
             l == Object("repository-credential")
             v == credentialsFor(repoURL(s), t)
             x == PutAll(Just(Object("repository"), repoURL(s)) ++ Just(l, v))
  <2>1. /\ e.host = h /\ e.finds = {<<l, v>>} /\ e.agrees = {} /\ e.carries = {} /\ e.present = {} /\ e.writes = <<x>>
    BY DEF RepoSecretStep, Step
  <2>2. l[1] = "cluster" /\ l[2] = "repository-credential" /\ "repository-credential" \in AskedObjects
    BY DEF Object, AskedObjects
  <2>3. v = ObjectSays(s, m, l)
    BY <2>2 DEF ObjectSays
  <2>4. Aside(Object("repository"))
    BY <1>3, ObjectsAside
  <2> DEFINE K == Sought(e)
  <2>0. l \in K
    BY <2>1 DEF Sought
  <2> HIDE DEF K
  <2>5. PlainWrite(s, m, K, x)
    BY <2>0, <2>2, <2>3, <2>4, PairPlain
  <2>6. \A p \in {<<l, v>>} : Asked(p[1]) /\ p[2] = Says(s, m, p[1]) /\ Lasting(p[1])
    BY <2>2, <2>3, ObjectPut
  <2> HIDE DEF e, l, x, v
  <2>7. PlainAll(s, m, K, <<x>>)
    BY <2>5, PlainSequences
  <2>8. PlainStep(e, s, m)
    BY <2>1, <2>6, <2>7, PlainBy DEF K
  <2> QED
    BY <2>8 DEF e
<1> HIDE DEF chart, accepts, apps
<1>7. /\ PlainSteps(<<>>, s, m) /\ PlainSteps(<<FailedStep("bootstrap-apps", h)>>, s, m)
      /\ PlainSteps(<<chart, accepts, AvailableStep(h)>>, s, m)
  BY <1>1, <1>2, <1>4, PlainStepsTogether
<1>8. /\ PlainSteps(<<RepoSecretStep(h, s, t)>>, s, m) /\ PlainSteps(<<apps, SyncedStep(h, s)>>, s, m)
  BY <1>4, <1>5, <1>6, PlainStepsTogether
<1>9. \A x, c : PlainSteps(x, s, m) => PlainSteps(When(c, x), s, m)
  BY PlainStepsTogether
<1>10. \A x, y : PlainSteps(x, s, m) /\ PlainSteps(y, s, m) => PlainSteps(x \o y, s, m)
  BY PlainStepsTogether
<1>11. PlainSteps(<<chart, accepts, AvailableStep(h)>>
                  \o When(repoURL(s) # "", <<RepoSecretStep(h, s, t)>>)
                  \o When(Applications(s) # {}, <<apps, SyncedStep(h, s)>>), s, m)
  BY <1>7, <1>8, <1>9, <1>10, Zenon
<1> QED
  BY <1>7, <1>11 DEF PlatformSteps, chart, accepts, apps

-----------------------------------------------------------------------------
(* The gateways.                                                           *)

\* A secret with the bundle that was brought (gateway.go).
LEMMA SecretPlain ==
    ASSUME NEW h \in Machines, NEW s, NEW m, NEW ns, NEW ref
    PROVE  PlainStep(SecretStep(h, ns, ref, m.bundles[ref]), s, m)
<1> DEFINE bundle == m.bundles[ref]
           e == SecretStep(h, ns, ref, bundle)
           l == <<"cluster", "fingerprint", ns, ref>>
           v == bundle.fingerprint
           made == Put(Namespace(ns), "applied")
           x == PutAll(Just(TLSSecret(ns, ref), bundle) ++ Just(l, v))
<1>1. /\ e.host = h /\ e.finds = {<<l, v>>} /\ e.agrees = {} /\ e.carries = {} /\ e.present = {} /\ e.writes = <<made, x>>
  BY DEF SecretStep, Step
<1>2. l[1] = "cluster" /\ l[2] = "fingerprint" /\ l[4] = ref /\ "fingerprint" \in AskedObjects
  BY DEF AskedObjects
<1>3. v = ObjectSays(s, m, l)
  BY <1>2 DEF ObjectSays
<1>4. Aside(TLSSecret(ns, ref)) /\ Aside(Namespace(ns))
  BY DEF Aside, TLSSecret, Namespace, AskedObjects
<1> HIDE DEF bundle
<1> DEFINE K == Sought(e)
<1>0. l \in K
  BY <1>1 DEF Sought
<1> HIDE DEF K
<1>5. PlainWrite(s, m, K, x)
  BY <1>0, <1>2, <1>3, <1>4, PairPlain
<1>6. PlainWrite(s, m, K, made)
  BY <1>4, AsidePut
<1>7. \A p \in {<<l, v>>} : Asked(p[1]) /\ p[2] = Says(s, m, p[1]) /\ Lasting(p[1])
  BY <1>2, <1>3, ObjectPut
<1> HIDE DEF e, l, v, made, x
<1>8. PlainAll(s, m, K, <<made, x>>)
  BY <1>5, <1>6, PlainSequences
<1>9. PlainStep(e, s, m)
  BY <1>1, <1>7, <1>8, PlainBy DEF K
<1> QED
  BY <1>9 DEF e, bundle

\* What an issuer signs is put one after the other.
LEMMA ReadyPlain ==
    ASSUME NEW h \in Machines, NEW s, NEW m, s.gateway.gateways \in Seq(Gateway)
    PROVE  PlainStep(ListenerCertsReadyStep(h, s), s, m)
<1> DEFINE all == {IssuerWrites(s, c) : c \in IssuedListeners(s)}
           e == ListenerCertsReadyStep(h, s)
<1>1. /\ e.host = h /\ e.finds = {} /\ e.agrees = {} /\ e.carries = {} /\ e.writes = SetToSeq(all)
      /\ e.present = {TLSSecret(c.namespace, c.secret) : c \in IssuedListeners(s)}
  BY DEF ListenerCertsReadyStep, Step
<1>2. IsFiniteSet(all)
  <2> DEFINE f == [c \in IssuedListeners(s) |-> IssuerWrites(s, c)]
  <2>1. IsFiniteSet({f[c] : c \in IssuedListeners(s)})
    BY FiniteListeners, FiniteImage
  <2>2. {f[c] : c \in IssuedListeners(s)} = all
    OBVIOUS
  <2> QED
    BY <2>1, <2>2
<1>3. \A c : Aside(TLSSecret(c.namespace, c.secret))
  BY DEF Aside, TLSSecret, AskedObjects
<1> DEFINE K == Sought(e)
<1> HIDE DEF K
<1>4. \A x \in all : PlainWrite(s, m, K, x)
  <2> SUFFICES ASSUME NEW c \in IssuedListeners(s) PROVE PlainWrite(s, m, K, IssuerWrites(s, c))
    OBVIOUS
  <2> QED
    BY <1>3, AsidePut DEF IssuerWrites
<1>5. \A l \in e.present : Lasting(l)
  BY <1>1, <1>3, AsidePut
<1> HIDE DEF all, e
<1>6. PlainAll(s, m, K, SetToSeq(all))
  BY <1>2, <1>4, SetToSeqHolds DEF PlainAll
<1>7. PlainStep(e, s, m)
  BY <1>1, <1>5, <1>6, PlainBy DEF K
<1> QED
  BY <1>7 DEF e

\* The namespaces, the certificates asked for, the gateways and the contract (gateway.go).
LEMMA GatewayStepsPlain ==
    ASSUME NEW h \in Machines, NEW s, NEW m
    PROVE  /\ PlainStep(NamespacesStep(h, s), s, m)
           /\ PlainStep(ListenerCertsStep(h, s, IssuerOf(s)), s, m)
           /\ PlainStep(GatewaysStep(h, s), s, m)
           /\ PlainStep(ContractStep(h, s), s, m)
           /\ PlainStep(NodeLabelStep(h, s), s, m)
           /\ \A gw : PlainStep(AnswersStep(h, s, gw), s, m) /\ PlainStep(ProgrammedStep(h, s, gw), s, m)
<1>0. {"namespaces", "listener-certs", "gateways", "contract"} \subseteq AskedFiles \ {"modules", "swap"}
  BY DEF AskedFiles
<1>1. PlainStep(NamespacesStep(h, s), s, m)
  <2>1. /\ \A o \in {Namespace(ns) : ns \in NamespaceManifest(s)} : Aside(o)
        /\ Namespace(namespaceOf(s))[1] = "cluster"
    BY DEF Aside, Namespace, AskedObjects
  <2>2. NamespaceManifest(s) = FileSays(s, m, h, "namespaces")
    BY DEF FileSays
  <2> QED
    BY <1>0, <2>1, <2>2, ManifestsPlain DEF NamespacesStep
<1>2. PlainStep(ListenerCertsStep(h, s, IssuerOf(s)), s, m)
  <2> DEFINE certs == ListenerCertificates(s, IssuerOf(s))
             first == CHOOSE c \in certs : TRUE
             objects == {CertificateObject(c) : c \in certs}
             resource == CertificateObject(first)
             step == ManifestsStep("listener-certs", h, certs, resource, objects)
             e == ListenerCertsStep(h, s, IssuerOf(s))
  <2>1. /\ \A o \in objects : Aside(o)
        /\ resource[1] = "cluster"
    BY DEF Aside, CertificateObject, AskedObjects
  <2>2. certs = FileSays(s, m, h, "listener-certs")
    BY DEF FileSays
  <2>3. /\ e.host = step.host /\ e.finds = step.finds /\ e.agrees = step.agrees
        /\ e.carries = step.carries /\ e.present = step.present /\ e.writes = step.writes
    BY DEF ListenerCertsStep, ManifestsStep, Step
  <2> HIDE DEF certs, first, objects, resource, e
  <2>4. PlainStep(step, s, m)
    BY <1>0, <2>1, <2>2, ManifestsPlain
  <2> HIDE DEF step
  <2>5. PlainStep(e, s, m)
    BY <2>3, <2>4, SamePlain
  <2> QED
    BY <2>5 DEF e
<1>3. PlainStep(GatewaysStep(h, s), s, m)
  <2> DEFINE objects == {GatewayObject(namespaceOfGateway(gw), gw.name) : gw \in GatewaysOf(s)}
             resource == GatewayObject(namespaceOf(s), s.gateway.gateways[1].name)
             step == ManifestsStep("gateways", h, GatewayManifest(s), resource, objects)
             e == GatewaysStep(h, s)
  <2>1. /\ \A o \in objects : Aside(o)
        /\ resource[1] = "cluster"
    BY DEF Aside, GatewayObject, AskedObjects
  <2>2. GatewayManifest(s) = FileSays(s, m, h, "gateways")
    BY DEF FileSays
  <2>3. /\ e.host = step.host /\ e.finds = step.finds /\ e.agrees = step.agrees
        /\ e.carries = step.carries /\ e.present = step.present /\ e.writes = step.writes
    BY DEF GatewaysStep, ManifestsStep, Step
  <2> HIDE DEF objects, resource, e
  <2>4. PlainStep(step, s, m)
    BY <1>0, <2>1, <2>2, ManifestsPlain
  <2> HIDE DEF step
  <2>5. PlainStep(e, s, m)
    BY <2>3, <2>4, SamePlain
  <2> QED
    BY <2>5 DEF e
<1>4. PlainStep(ContractStep(h, s), s, m)
  <2> DEFINE object == <<"cluster", "configmap", namespaceOf(s), contractName(s)>>
  <2>1. Aside(object)
    BY DEF Aside, AskedObjects
  <2>2. ContractManifest(s) = FileSays(s, m, h, "contract")
    BY DEF FileSays
  <2> HIDE DEF object
  <2>3. PlainStep(ManifestStep("contract", h, ContractManifest(s), object), s, m)
    BY <1>0, <2>1, <2>2, ManifestPlain
  <2> QED
    BY <2>3 DEF ContractStep, object
<1>5. PlainStep(NodeLabelStep(h, s), s, m)
  <2> DEFINE e == NodeLabelStep(h, s)
             l == Object("gateway-nodes")
             chosen == ChosenNodes(s)
             x == Put(l, chosen)
  <2>1. /\ e.host = h /\ e.finds = {<<l, chosen>>} /\ e.agrees = {} /\ e.carries = {} /\ e.present = {}
        /\ e.writes = <<x>>
    BY DEF NodeLabelStep, FileStep, Step, ChosenNodes
  <2>2. l[1] = "cluster" /\ l[2] = "gateway-nodes" /\ "gateway-nodes" \in AskedObjects
    BY DEF Object, AskedObjects
  <2>3. chosen = ObjectSays(s, m, l)
    BY <2>2 DEF ObjectSays
  <2> DEFINE K == Sought(e)
  <2>0. l \in K
    BY <2>1 DEF Sought
  <2> HIDE DEF K
  <2>4. PlainWrite(s, m, K, x) /\ \A p \in {<<l, chosen>>} : Asked(p[1]) /\ p[2] = Says(s, m, p[1]) /\ Lasting(p[1])
    BY <2>0, <2>2, <2>3, ObjectPut
  <2> HIDE DEF e, l, x, chosen
  <2>5. PlainAll(s, m, K, <<x>>)
    BY <2>4, PlainSequences
  <2>6. PlainStep(e, s, m)
    BY <2>1, <2>4, <2>5, PlainBy DEF K
  <2> QED
    BY <2>6 DEF e
<1>6. ASSUME NEW gw PROVE PlainStep(AnswersStep(h, s, gw), s, m) /\ PlainStep(ProgrammedStep(h, s, gw), s, m)
  <2>1. Aside(Programmed(namespaceOfGateway(gw), gw.name))
    BY DEF Aside, Programmed, AskedObjects
  <2> QED
    BY <2>1, WaitPlain DEF AnswersStep, ProgrammedStep
<1> QED
  BY <1>1, <1>2, <1>3, <1>4, <1>5, <1>6

\* The certificates, the gateways and their record (gateway.go).
LEMMA GatewayPlain ==
    ASSUME NEW h \in Machines, NEW s, NEW m, s.gateway.gateways \in Seq(Gateway),
           IsFiniteSet(DOMAIN m.bundles)
    PROVE  PlainSteps(GatewaySteps(h, s, m.bundles, IssuerOf(s)), s, m)
<1> DEFINE gws == s.gateway.gateways
           issuer == IssuerOf(s)
           bundles == m.bundles
           Labelled(i) == When(/\ gws[i].nodeIPs # {}
                               /\ \A j \in 1..(i - 1) : ~(gws[j].exposure = "node-ips" /\ gws[j].nodeIPs # {}),
                               <<NodeLabelStep(h, s)>>)
           Waits(i) == IF gws[i].exposure = "node-ips"
                       THEN Labelled(i) \o <<AnswersStep(h, s, gws[i])>>
                       ELSE <<ProgrammedStep(h, s, gws[i])>>
           waits == [i \in DOMAIN gws |-> Waits(i)]
           secrets == {SecretStep(h, namespaceOf(s), ref, bundles[ref]) : ref \in DOMAIN bundles}
           certs == <<ListenerCertsStep(h, s, issuer), ListenerCertsReadyStep(h, s)>>
<1>1. PlainSteps(SetToSeq(secrets), s, m)
  <2> DEFINE f == [ref \in DOMAIN bundles |-> SecretStep(h, namespaceOf(s), ref, bundles[ref])]
  <2>1. IsFiniteSet({f[ref] : ref \in DOMAIN bundles})
    BY FiniteImage
  <2>2. {f[ref] : ref \in DOMAIN bundles} = secrets
    OBVIOUS
  <2>3. \A step \in secrets : PlainStep(step, s, m)
    BY SecretPlain
  <2> HIDE DEF f, secrets
  <2> QED
    BY <2>1, <2>2, <2>3, SetToSeqHolds DEF PlainSteps
<1>2. PlainSteps(FlattenSeq(waits), s, m)
  <2>1. ASSUME NEW i PROVE PlainSteps(Waits(i), s, m)
    <3>1. PlainSteps(<<NodeLabelStep(h, s)>>, s, m)
      BY GatewayStepsPlain, PlainStepsTogether
    <3>2. PlainSteps(Labelled(i), s, m)
      BY <3>1, PlainStepsTogether
    <3>3. PlainSteps(<<AnswersStep(h, s, gws[i])>>, s, m) /\ PlainSteps(<<ProgrammedStep(h, s, gws[i])>>, s, m)
      BY GatewayStepsPlain, PlainStepsTogether
    <3> HIDE DEF Labelled
    <3>4. PlainSteps(Labelled(i) \o <<AnswersStep(h, s, gws[i])>>, s, m)
      BY <3>2, <3>3, PlainStepsTogether
    <3> QED
      BY <3>3, <3>4
  <2> HIDE DEF Waits
  <2>2. waits \in Seq({Waits(i) : i \in DOMAIN gws})
    OBVIOUS
  <2>3. \A q \in ToSet(waits) : PlainSteps(q, s, m)
    BY <2>1 DEF ToSet
  <2> HIDE DEF waits
  <2> QED
    BY <2>2, <2>3, PlainFlattened DEF IsSequence
<1>3. PlainSteps(<<NamespacesStep(h, s)>>, s, m)
  BY GatewayStepsPlain, PlainStepsTogether
<1>4. PlainSteps(certs, s, m)
  <2> DEFINE a == ListenerCertsStep(h, s, issuer)
             b == ListenerCertsReadyStep(h, s)
  <2>1. PlainStep(a, s, m) /\ PlainStep(b, s, m)
    BY GatewayStepsPlain, ReadyPlain
  <2> HIDE DEF a, b
  <2>2. PlainSteps(<<a, b>>, s, m)
    BY <2>1, PlainStepsTogether
  <2> QED
    BY <2>2 DEF a, b
<1>5. PlainSteps(When(ListenerCertificates(s, issuer) # {}, certs), s, m)
  BY <1>4, PlainStepsTogether
<1>6. PlainSteps(<<GatewaysStep(h, s), ContractStep(h, s)>>, s, m) /\ PlainSteps(<<>>, s, m)
  BY GatewayStepsPlain, PlainStepsTogether
<1>7. \A x, y : PlainSteps(x, s, m) /\ PlainSteps(y, s, m) => PlainSteps(x \o y, s, m)
  BY PlainStepsTogether
<1>8. PlainSteps(SetToSeq(secrets) \o <<NamespacesStep(h, s)>>
                 \o When(ListenerCertificates(s, issuer) # {}, certs)
                 \o <<GatewaysStep(h, s), ContractStep(h, s)>> \o FlattenSeq(waits), s, m)
  <2> HIDE DEF secrets, waits, certs
  <2> QED
    BY <1>1, <1>2, <1>3, <1>5, <1>6, <1>7, Zenon
<1>9. GatewaySteps(h, s, bundles, issuer) =
         IF gws = <<>> THEN <<>>
         ELSE SetToSeq(secrets) \o <<NamespacesStep(h, s)>>
               \o When(ListenerCertificates(s, issuer) # {}, certs)
               \o <<GatewaysStep(h, s), ContractStep(h, s)>> \o FlattenSeq(waits)
  BY DEF GatewaySteps
<1> HIDE DEF secrets, waits, certs, gws
<1> QED
  BY <1>6, <1>8, <1>9

-----------------------------------------------------------------------------
(* Sequences of steps that tell.                                           *)

\* What the step at i compares with something else comes after the step that brings it.
LedBy(x, c, e) ==
    /\ ProcessPair(e.host) \in e.agrees => \E a \in ToSet(x) : a.host = e.host /\ a.id = "config"
    /\ CiliumPair \in e.agrees => \E a \in ToSet(x) : a.host = c /\ a.id = "cilium-applied"
    /\ e.carries # {} => \E a \in ToSet(x) : a.host = c /\ a.id = "cilium-values"
Backed(x, c, i) ==
    /\ ProcessPair(x[i].host) \in x[i].agrees =>
          \E j \in DOMAIN x : j < i /\ x[j].host = x[i].host /\ x[j].id = "config"
    /\ CiliumPair \in x[i].agrees =>
          \E j \in DOMAIN x : j < i /\ x[j].host = c /\ x[j].id = "cilium-applied"
    /\ x[i].carries # {} => \E j \in DOMAIN x : j < i /\ x[j].host = c /\ x[j].id = "cilium-values"

\* Every step of the sequence looks for what the document says, and what it compares
\* with something else it compares after the step that brings that.
Telling(x, s, m, id, c) ==
    /\ IsSequence(x)
    /\ \A e \in ToSet(x) : Told(e, s, m, id, c)
    /\ \A i \in DOMAIN x : Backed(x, c, i)

\* Steps after others may compare what those bring.
LEMMA TellingOn ==
    ASSUME NEW s, NEW m, NEW id, NEW c, NEW x, Telling(x, s, m, id, c), NEW y, IsSequence(y),
           \A e \in ToSet(y) : Told(e, s, m, id, c),
           \A i \in DOMAIN y : Backed(y, c, i) \/ LedBy(x, c, y[i])
    PROVE  Telling(x \o y, s, m, id, c)
<1> DEFINE z == x \o y
<1>1. PICK S : x \in Seq(S)
  BY DEF Telling, IsSequence
<1>2. PICK T : y \in Seq(T)
  BY DEF IsSequence
<1>3. x \in Seq(S \cup T) /\ y \in Seq(S \cup T)
  BY <1>1, <1>2
<1>4. IsSequence(z) /\ ToSet(z) = ToSet(x) \cup ToSet(y)
  BY ConcatHolds DEF Telling
<1>5. /\ \A i \in DOMAIN x : i \in DOMAIN z /\ z[i] = x[i]
      /\ \A j \in DOMAIN y : Len(x) + j \in DOMAIN z /\ z[Len(x) + j] = y[j]
      /\ \A i \in DOMAIN z : i \in DOMAIN x \/ (i - Len(x) \in DOMAIN y /\ i = Len(x) + (i - Len(x)))
      /\ \A i, j \in DOMAIN y : i < j => Len(x) + i < Len(x) + j
      /\ \A i \in DOMAIN x, j \in DOMAIN y : i < Len(x) + j
  BY <1>3
<1> HIDE DEF z
<1>6. ASSUME NEW i \in DOMAIN x PROVE Backed(z, c, i)
  <2>1. Backed(x, c, i)
    BY DEF Telling
  <2> QED
    BY <1>5, <2>1 DEF Backed
<1>7. ASSUME NEW j \in DOMAIN y PROVE Backed(z, c, Len(x) + j)
  <2>1. CASE Backed(y, c, j)
    BY <1>5, <2>1 DEF Backed
  <2>2. CASE LedBy(x, c, y[j])
    BY <1>5, <2>2 DEF Backed, LedBy, ToSet
  <2> QED
    BY <2>1, <2>2
<1>8. \A i \in DOMAIN z : Backed(z, c, i)
  <2> TAKE i \in DOMAIN z
  <2>1. CASE i \in DOMAIN x
    BY <1>6, <2>1
  <2>2. CASE i - Len(x) \in DOMAIN y /\ i = Len(x) + (i - Len(x))
    <3> DEFINE j == i - Len(x)
    <3>1. j \in DOMAIN y /\ i = Len(x) + j
      BY <2>2
    <3> HIDE DEF j
    <3> QED
      BY <1>7, <3>1
  <2> QED
    BY <1>5, <2>1, <2>2
<1>9. \A e \in ToSet(z) : Told(e, s, m, id, c)
  BY <1>4 DEF Telling
<1> QED
  BY <1>4, <1>8, <1>9 DEF Telling, z

\* Sequences that tell, one after the other.
LEMMA TellingTogether ==
    ASSUME NEW s, NEW m, NEW id, NEW c
    PROVE  /\ Telling(<<>>, s, m, id, c)
           /\ \A x, y : Telling(x, s, m, id, c) /\ Telling(y, s, m, id, c) => Telling(x \o y, s, m, id, c)
<1>1. Telling(<<>>, s, m, id, c)
  BY TupleHolds DEF Telling
<1>2. ASSUME NEW x, NEW y, Telling(x, s, m, id, c), Telling(y, s, m, id, c)
      PROVE  Telling(x \o y, s, m, id, c)
  <2>1. /\ IsSequence(y) /\ \A e \in ToSet(y) : Told(e, s, m, id, c)
        /\ \A i \in DOMAIN y : Backed(y, c, i)
    BY <1>2 DEF Telling
  <2> QED
    BY <1>2, <2>1, TellingOn
<1> QED
  BY <1>1, <1>2

\* Any number of them, laid end to end.
LEMMA FlattenedTelling ==
    ASSUME NEW s, NEW m, NEW id, NEW c, NEW seqs, IsSequence(seqs),
           \A q \in ToSet(seqs) : Telling(q, s, m, id, c)
    PROVE  Telling(FlattenSeq(seqs), s, m, id, c)
<1> DEFINE S == UNION {ToSet(q) : q \in ToSet(seqs)}
           Q == {q \in Seq(S) : Telling(q, s, m, id, c)}
<1>1. \A q \in ToSet(seqs) : q \in Seq(S)
  <2> TAKE q \in ToSet(seqs)
  <2>1. q \in Seq(ToSet(q))
    BY SequenceOfItsOwn DEF Telling
  <2>2. ToSet(q) \subseteq S
    OBVIOUS
  <2> HIDE DEF S
  <2> QED
    BY <2>1, <2>2
<1> HIDE DEF S
<1>2. seqs \in Seq(Q)
  <2>1. seqs \in Seq(ToSet(seqs))
    BY SequenceOfItsOwn
  <2>2. ToSet(seqs) \subseteq Q
    BY <1>1
  <2> HIDE DEF Q
  <2> QED
    BY <2>1, <2>2
<1>3. <<>> \in Q
  <2>1. <<>> \in Seq(S)
    OBVIOUS
  <2> QED
    BY <2>1, TellingTogether
<1>4. \A x, y \in Q : x \o y \in Q
  <2> TAKE x, y \in Q
  <2>1. x \o y \in Seq(S)
    OBVIOUS
  <2>2. Telling(x \o y, s, m, id, c)
    BY TellingTogether
  <2> QED
    BY <2>1, <2>2
<1>5. FlattenSeq(seqs) \in Q
  <2> HIDE DEF Q
  <2> QED
    BY <1>2, <1>3, <1>4, FlattenCloses
<1> QED
  BY <1>5

\* A step that compares with nothing else needs none before it.
LEMMA PlainTold ==
    ASSUME NEW s, NEW m, NEW id, NEW c, NEW e, PlainStep(e, s, m),
           id \in Joining /\ e.id = "config" =>
              <<<<e.host, "config.yaml">>, Says(s, m, <<e.host, "config.yaml">>)>> \in e.finds,
           id = "l2-dataplane" =>
              /\ e.id # "cilium-applied"
              /\ e.id = "cilium-values" => <<Values(e.host), Says(s, m, Values(e.host))>> \in e.finds
    PROVE  Told(e, s, m, id, c) /\ e.agrees = {} /\ e.carries = {}
<1> DEFINE K == Sought(e)
<1>1. IsSequence(e.writes) /\ \A x \in ToSet(e.writes) : PlainWrite(s, m, K, x)
  BY DEF PlainStep, PlainAll
<1> HIDE DEF K
<1>2. \A x \in ToSet(e.writes) : Faithful(s, m, x) /\ x.drop = {} /\ Calm(x) /\ Seeks(K, x)
  <2> TAKE x \in ToSet(e.writes)
  <2>1. Bearable(s, m, K, x)
    BY <1>1, PlainBearable
  <2> QED
    BY <2>1 DEF Bearable
<1>3. Proper(e, s, m, id, c)
  <2>1. e.carries = {}
    BY DEF PlainStep
  <2> QED
    BY <2>1 DEF Proper, ValuesKey, AppliedKey
<1> QED
  BY <1>1, <1>2, <1>3 DEF PlainStep, Told, K

\* Nor do steps that do.
LEMMA PlainTelling ==
    ASSUME NEW s, NEW m, NEW id, NEW c, NEW x, PlainSteps(x, s, m),
           \A e \in ToSet(x) : id \in Joining /\ e.id = "config" =>
              <<<<e.host, "config.yaml">>, Says(s, m, <<e.host, "config.yaml">>)>> \in e.finds,
           id = "l2-dataplane" => \A e \in ToSet(x) :
              /\ e.id # "cilium-applied"
              /\ e.id = "cilium-values" => <<Values(e.host), Says(s, m, Values(e.host))>> \in e.finds
    PROVE  Telling(x, s, m, id, c)
<1>1. IsSequence(x) /\ \A e \in ToSet(x) : PlainStep(e, s, m)
  BY DEF PlainSteps
<1>2. \A e \in ToSet(x) : Told(e, s, m, id, c) /\ e.agrees = {} /\ e.carries = {}
  BY <1>1, PlainTold
<1>3. \A i \in DOMAIN x : x[i] \in ToSet(x)
  BY DEF ToSet
<1>4. \A i \in DOMAIN x : Backed(x, c, i)
  BY <1>2, <1>3 DEF Backed
<1> QED
  BY <1>1, <1>2, <1>4 DEF Telling

\* Steps of a phase in which nobody joins and no network is made.
LEMMA LaterTelling ==
    ASSUME NEW s, NEW m, NEW id, id \notin Joining, id # "l2-dataplane", NEW c, NEW x, PlainSteps(x, s, m)
    PROVE  Telling(x, s, m, id, c)
  BY PlainTelling

\* What makes a step that is not plain one that tells.
LEMMA ToldBy ==
    ASSUME NEW s, NEW m, NEW id, NEW c, NEW e, e.host \in Machines, Proper(e, s, m, id, c),
           \A p \in e.finds : Asked(p[1]) /\ p[2] = Says(s, m, p[1]),
           \A p \in e.agrees : \/ p = ProcessPair(e.host) /\ id \in Joining
                               \/ p = CiliumPair /\ id = "l2-dataplane" /\ e.host = c,
           \A l \in Looked(e) : Lasting(l),
           IsSequence(e.writes),
           \A x \in ToSet(e.writes) : /\ Faithful(s, m, x) /\ x.drop = {} /\ Seeks(Sought(e), x)
                                      /\ Calm(x) \/ <<id, e.host, e.id>> = AppliedKey(c)
    PROVE  Told(e, s, m, id, c)
<1>1. \A h \in Machines : ~Lasting(<<h, "modules">>) /\ ~Lasting(<<h, "swap">>)
  BY NamesAssumption DEF Lasting
<1>2. Survives(e)
  BY <1>1 DEF Survives
<1> QED
  BY <1>2 DEF Told

-----------------------------------------------------------------------------
(* RKE2's start.                                                           *)

\* A start reads what no Check compares with the document.
LEMMA StartPlain ==
    ASSUME NEW h \in Machines, NEW s, NEW m, NEW K
    PROVE  PlainWrite(s, m, K, StartWrites(h))
<1>1. \A name \in {"process.config", "process.registries", "process.rke2"} : name \notin AskedFiles
  BY DEF AskedFiles
<1>2. \A l \in Touched(StartWrites(h)) : Unasked(l)
  <2> TAKE l \in Touched(StartWrites(h))
  <2>1. l \in {<<h, "process.config">>, <<h, "process.registries">>, <<h, "process.rke2">>}
    BY StartFits
  <2> QED
    BY <1>1, <2>1, FilesSay
<1>3. /\ StartWrites(h).put = <<>> /\ StartWrites(h).keep = <<>> /\ StartWrites(h).drop = {}
      /\ DOMAIN <<>> = {}
  BY DEF StartWrites, ReadAll, NoWrite
<1> QED
  BY <1>2, <1>3 DEF PlainWrite, Touched

\* What RKE2 deploys by itself: Cilium's pods and configuration are made at once.
LEMMA BundledBearable ==
    ASSUME NEW h \in Machines, NEW s, h = s.topology.servers[1].host, NEW m, NEW K
    PROVE  Bearable(s, m, K, Bundled(h, s))
<1> DEFINE values == Values(h)
           a == Just(Settings, values)
           b == Just(Pods, values)
           reading == ReadAll(a ++ b)
<1>1. Bearable(s, m, K, reading)
  <2>1. DOMAIN a = {Settings} /\ DOMAIN b = {Pods} /\ a[Settings] = values /\ b[Pods] = values
    BY JustHas
  <2>2. /\ reading.put = <<>> /\ reading.read = a ++ b /\ reading.keep = <<>> /\ reading.drop = {}
        /\ DOMAIN <<>> = {}
    BY DEF ReadAll, NoWrite
  <2>3. ~Asked(Pods) /\ ~Asked(Settings) /\ Pods # Settings
    BY PairPlaces
  <2>9. values = Values(s.topology.servers[1].host)
    OBVIOUS
  <2> HIDE DEF a, b, reading, values
  <2>4. \A l : l \in DOMAIN (a ++ b) <=> l \in DOMAIN a \/ l \in DOMAIN b
    BY MergeAt
  <2>5. (a ++ b)[Settings] = values
    BY <2>1, MergeAt
  <2>6. (a ++ b)[Pods] = values
    BY <2>1, <2>3, MergeAt
  <2>7. Faithful(s, m, reading)
    BY <2>1, <2>2, <2>3, <2>4, <2>5, <2>9 DEF Faithful
  <2>8. Calm(reading)
    BY <2>1, <2>2, <2>4, <2>5, <2>6 DEF Calm
  <2> QED
    BY <2>2, <2>7, <2>8 DEF Bearable, Seeks
<1> DEFINE t == Just(<<h, "token">>, "token")
           d == Just(API, "up")
           e == Just(Object("node"), "Ready")
           f == Just(Object("rke2-coredns"), "applied")
           g == Just(Object(CNI(s)), "ready")
           all == t ++ d ++ e ++ f ++ g
<1>2. PlainWrite(s, m, K, PutAll(all))
  <2>1. /\ DOMAIN t = {<<h, "token">>} /\ DOMAIN d = {API} /\ DOMAIN e = {Object("node")}
        /\ DOMAIN f = {Object("rke2-coredns")} /\ DOMAIN g = {Object(CNI(s))}
    BY JustHas
  <2>2. Unasked(<<h, "token">>)
    <3>1. "token" \notin AskedFiles
      BY DEF AskedFiles
    <3> QED
      BY <3>1, FilesSay
  <2>3. CNI(s) \in {"cilium", "canal"}
    BY DEF CNI
  <2>4. /\ Object("node")[1] = "cluster" /\ Object("node")[2] = "node"
        /\ Object("rke2-coredns")[1] = "cluster" /\ Object("rke2-coredns")[2] = "rke2-coredns"
        /\ API[1] = "cluster" /\ API[2] = "api"
        /\ Object(CNI(s))[1] = "cluster" /\ Object(CNI(s))[2] = CNI(s)
    BY DEF Object, API
  <2>5. \A name \in {"node", "rke2-coredns", "api", "cilium", "canal"} :
           name \notin AskedObjects \cup {"cilium-pods", "cilium-config"}
    BY DEF AskedObjects
  <2>6. Unasked(API) /\ Unasked(Object("node")) /\ Unasked(Object("rke2-coredns")) /\ Unasked(Object(CNI(s)))
    BY <2>3, <2>4, <2>5, ClusterUnasked
  <2> HIDE DEF t, d, e, f, g
  <2>7. \A x, y, l : l \in DOMAIN (x ++ y) => l \in DOMAIN x \/ l \in DOMAIN y
    BY MergeAt
  <2>8. \A l \in DOMAIN all : l \in DOMAIN t \/ l \in DOMAIN d \/ l \in DOMAIN e \/ l \in DOMAIN f \/ l \in DOMAIN g
    BY <2>7
  <2>9. \A l \in DOMAIN all : Unasked(l)
    BY <2>1, <2>2, <2>6, <2>8
  <2> HIDE DEF all
  <2>10. \A l \in DOMAIN all : Right(s, m, K, l, all[l])
    BY <2>9, UnaskedRight
  <2> QED
    BY <2>10, PlainWrites
<1>3. PlainWrite(s, m, K, NoWrite)
  BY PlainWrites
<1> DEFINE reads == IF CNI(s) # "cilium" THEN NoWrite ELSE reading
           puts == PutAll(all)
<1>4. Bundled(h, s) = Together(reads, puts)
  BY DEF Bundled, Settings, Pods, Values
<1>5. Bearable(s, m, K, reads)
  BY <1>1, <1>3, PlainBearable
<1>6. PlainWrite(s, m, K, puts)
  BY <1>2
<1> HIDE DEF reads, puts
<1> QED
  BY <1>4, <1>5, <1>6, PlainTogether

\* What makes a server a member of etcd is asked for by no Check.
LEMMA MemberBearable ==
    ASSUME NEW n, n.host \in Machines, NEW s, NEW m, NEW K, NEW x, Bearable(s, m, K, x)
    PROVE  Bearable(s, m, K, Together(x, Together(Keep(Member(n)[1], Member(n)[2]),
                                               Put(<<n.host, "rke2.yaml">>, n.host))))
<1> DEFINE keep == Keep(Member(n)[1], Member(n)[2])
           put == Put(<<n.host, "rke2.yaml">>, n.host)
           y == Together(keep, put)
<1>1. "etcd-member" \notin AskedFiles /\ "rke2.yaml" \notin AskedFiles
  BY DEF AskedFiles
<1>2. PlainWrite(s, m, K, put)
  BY <1>1, OtherFilePut
<1>3. Member(n)[1] = <<n.host, "etcd-member">>
  BY DEF Member
<1>4. PlainWrite(s, m, K, keep)
  <2>1. Unasked(Member(n)[1])
    BY <1>1, <1>3, FilesSay
  <2> QED
    BY <2>1, PlainWrites
<1> HIDE DEF keep, put
<1>5. PlainWrite(s, m, K, y)
  BY <1>2, <1>4, PlainTogether
<1> HIDE DEF y
<1>6. Bearable(s, m, K, Together(x, y))
  BY <1>5, PlainTogether
<1> QED
  BY <1>6 DEF y, keep, put

\* A step of the phase id that tells, and compares RKE2's process with its configuration.
Runs(e, s, m, id, c, h) ==
    Told(e, s, m, id, c) /\ e.agrees = {ProcessPair(h)} /\ e.carries = {} /\ e.host = h

\* So do those that start RKE2.
LEMMA RunningTold ==
    ASSUME NEW n, n.host \in Machines, NEW s, NEW m, NEW id \in Joining, NEW c
    PROVE  /\ n.host = s.topology.servers[1].host =>
                 Runs(AsMember(ServiceStep(n.host, s), n), s, m, id, c, n.host)
           /\ Runs(AsMember(UnitStep(n.host), n), s, m, id, c, n.host)
           /\ Runs(UnitStep(n.host), s, m, id, c, n.host)
<1> DEFINE h == n.host
           service == ServiceStep(h, s)
           unit == UnitStep(h)
           pair == ProcessPair(h)
           there == {<<h, "rke2.yaml">>, API, Object("node")}
           starts == StartWrites(h)
           brings == Together(starts, Bundled(h, s))
           parts == {"id", "host", "finds", "carries", "agrees", "present", "suits", "writes"}
           isFirst == h = s.topology.servers[1].host
<1>1. /\ service.host = h /\ service.id = "service" /\ service.finds = {} /\ service.agrees = {pair}
      /\ service.carries = {} /\ service.present = there /\ service.writes = <<brings>>
      /\ parts \subseteq DOMAIN service
  BY DEF ServiceStep, Step, ProcessPair
<1>2. /\ unit.host = h /\ unit.id = "service" /\ unit.finds = {} /\ unit.agrees = {pair}
      /\ unit.carries = {} /\ unit.present = {} /\ unit.writes = <<starts>>
      /\ parts \subseteq DOMAIN unit
  BY DEF UnitStep, Step, ProcessPair
<1>3. \A K : PlainWrite(s, m, K, starts)
  BY StartPlain
<1>4. \A K : Bearable(s, m, K, starts)
  BY <1>3, PlainBearable
<1>5. isFirst => \A K : Bearable(s, m, K, brings)
  BY <1>3, BundledBearable, PlainTogether
<1>6. Lasting(pair[1]) /\ Lasting(pair[2]) /\ \A l \in there : Lasting(l)
  <2>1. Lasting(pair[1]) /\ Lasting(pair[2])
    BY DEF Lasting, ProcessPair
  <2>2. Lasting(<<h, "rke2.yaml">>) /\ Lasting(API) /\ Lasting(Object("node"))
    BY DEF Lasting, API, Object
  <2> QED
    BY <2>1, <2>2
<1> DEFINE first == AsMember(service, n)
           other == AsMember(unit, n)
           member == Together(Keep(Member(n)[1], Member(n)[2]), Put(<<n.host, "rke2.yaml">>, n.host))
<1> HIDE DEF starts, brings, service, unit, there
<1>7. /\ first.writes = <<Together(brings, member)>> /\ (isFirst => \A K : Bearable(s, m, K, Together(brings, member)))
      /\ first.host = h /\ first.id = "service" /\ first.finds = {} /\ first.agrees = {pair}
      /\ first.carries = {} /\ first.present = there
  <2>1. isFirst => \A K : Bearable(s, m, K, Together(brings, member))
    BY <1>5, MemberBearable
  <2> HIDE DEF member
  <2> QED
    BY <1>1, <2>1 DEF AsMember, member
<1>8. /\ other.writes = <<Together(starts, member)>> /\ (\A K : Bearable(s, m, K, Together(starts, member)))
      /\ other.host = h /\ other.id = "service" /\ other.finds = {} /\ other.agrees = {pair}
      /\ other.carries = {} /\ other.present = {}
  <2>1. \A K : Bearable(s, m, K, Together(starts, member))
    BY <1>4, MemberBearable
  <2> HIDE DEF member
  <2> QED
    BY <1>2, <2>1 DEF AsMember, member
<1> HIDE DEF member
<1>9. ASSUME NEW e, NEW y, e.writes = <<y>>, \A K : Bearable(s, m, K, y), e.host = h, e.id = "service",
             e.finds = {}, e.carries = {}, e.agrees = {pair}, \A l \in e.present : Lasting(l)
      PROVE  Told(e, s, m, id, c)
  <2>1. IsSequence(e.writes) /\ ToSet(e.writes) = {y}
    BY <1>9, TupleHolds
  <2>2. \A x \in ToSet(e.writes) : Faithful(s, m, x) /\ x.drop = {} /\ Calm(x) /\ Seeks(Sought(e), x)
    BY <1>9, <2>1 DEF Bearable
  <2>3. \A l \in Looked(e) : Lasting(l)
    BY <1>6, <1>9 DEF Looked
  <2>4. \A p \in e.agrees : p = ProcessPair(e.host) /\ id \in Joining
    BY <1>9
  <2>5. e.host \in Machines /\ e.finds = {} /\ Proper(e, s, m, id, c)
    <3>1. id # "l2-dataplane"
      BY DEF Joining
    <3> QED
      BY <1>9, <3>1 DEF Proper, ValuesKey, AppliedKey
  <2> QED
    BY <2>1, <2>2, <2>3, <2>4, <2>5, ToldBy
<1>10. isFirst => Told(first, s, m, id, c)
  BY <1>6, <1>7, <1>9
<1>11. Told(other, s, m, id, c)
  BY <1>8, <1>9
<1>12. Told(unit, s, m, id, c)
  BY <1>2, <1>4, <1>9
<1>13. (isFirst => Runs(first, s, m, id, c, h)) /\ Runs(other, s, m, id, c, h) /\ Runs(unit, s, m, id, c, h)
  BY <1>2, <1>7, <1>8, <1>10, <1>11, <1>12 DEF Runs
<1> QED
  BY <1>13 DEF first, other, service, unit

\* What Cilium compares is compared with nothing else.
LEMMA NoCilium ==
    ASSUME NEW e, NEW h \in Machines, e.agrees = {ProcessPair(h)}
    PROVE  CiliumPair \notin e.agrees
  BY PairPlaces

\* The first server, from its configuration to its address (BootstrapSteps).
LEMMA BootstrapTelling ==
    ASSUME NEW s, NEW m, NEW c, NEW n, n = s.topology.servers[1], n.host \in Machines
    PROVE  LET prestage == When(WantsCilium(s),
                                <<PrestageStep(n.host, "cilium-values", CiliumHelmConfig(s))>>) IN
           Telling(BootstrapSteps(n, s, prestage) \o vipSteps(n.host, s), s, m, "l1-bootstrap", c)
<1> DEFINE h == n.host
           id == "l1-bootstrap"
           install == InstallStep(h, s)
           body == ServerConfig(n, s, "")
           config == ConfigStep(h, body)
           values == PrestageStep(h, "cilium-values", CiliumHelmConfig(s))
           prestage == When(WantsCilium(s), <<values>>)
           service == AsMember(ServiceStep(h, s), n)
           copy == KubeconfigStep(n, s)
           tools == OpsToolsStep(h, s.network.mode = "online")
           vip == vipSteps(h, s)
<1>0. id \in Joining /\ id # "l2-dataplane"
  BY DEF Joining
<1>1. PlainStep(install, s, m) /\ install.id = "install" /\ install.host = h
  BY InstallPlain
<1>2. /\ PlainStep(config, s, m) /\ config.id = "config" /\ config.host = h
      /\ <<<<h, "config.yaml">>, Says(s, m, <<h, "config.yaml">>)>> \in config.finds
  <2>1. body = ConfigOf(s, h)
    BY DEF ConfigOf
  <2> HIDE DEF body
  <2> QED
    BY <2>1, ConfigPlain
<1>3. PlainStep(values, s, m) /\ values.id = "cilium-values"
  <2>1. "cilium-values" \in AskedFiles \ {"modules", "swap"}
    BY DEF AskedFiles
  <2>2. CiliumHelmConfig(s) = FileSays(s, m, h, "cilium-values")
    BY DEF FileSays
  <2>3. values.id = "cilium-values"
    BY DEF PrestageStep, FileStep, Step
  <2> QED
    BY <2>1, <2>2, <2>3, FilePlain DEF PrestageStep
<1>4. Told(service, s, m, id, c) /\ service.agrees = {ProcessPair(h)} /\ service.carries = {} /\ service.host = h
  <2> HIDE DEF id
  <2>1. Runs(AsMember(ServiceStep(n.host, s), n), s, m, id, c, n.host)
    BY <1>0, RunningTold
  <2> QED
    BY <2>1 DEF Runs
<1>5. PlainStep(copy, s, m) /\ copy.id = "kubeconfig" /\ PlainStep(tools, s, m) /\ tools.id = "operator-tools"
  BY KubeconfigPlain, OpsToolsPlain
<1>6. PlainSteps(vip, s, m) /\ \A e \in ToSet(vip) : e.id # "config"
  BY VIPPlain
<1>7. BootstrapSteps(n, s, prestage) = <<install, config>> \o prestage \o <<service, copy, tools>>
  BY DEF BootstrapSteps
<1> HIDE DEF install, config, values, service, copy, tools, vip, id
<1>8. Telling(<<install, config>>, s, m, id, c)
  <2>1. ToSet(<<install, config>>) = {install, config}
    BY TupleHolds
  <2>2. PlainSteps(<<install, config>>, s, m)
    BY <1>1, <1>2, PlainStepsTogether
  <2> QED
    BY <1>0, <1>1, <1>2, <2>1, <2>2, PlainTelling
<1>9. Telling(prestage, s, m, id, c)
  <2>1. ToSet(<<values>>) = {values}
    BY TupleHolds
  <2>2. PlainSteps(<<values>>, s, m)
    BY <1>3, PlainStepsTogether
  <2>3. Telling(<<values>>, s, m, id, c)
    BY <1>0, <1>3, <2>1, <2>2, PlainTelling
  <2> QED
    BY <2>3, TellingTogether DEF When
<1> HIDE DEF prestage
<1> DEFINE x == <<install, config>> \o prestage
<1>10. Telling(x, s, m, id, c) /\ config \in ToSet(x)
  <2>1. ToSet(<<install, config>>) = {install, config}
    BY TupleHolds
  <2>2. ToSet(x) = ToSet(<<install, config>>) \cup ToSet(prestage)
    BY <1>8, <1>9, ConcatHolds DEF Telling
  <2> QED
    BY <1>8, <1>9, <2>1, <2>2, TellingTogether
<1> HIDE DEF x
<1>11. Telling(x \o <<service, copy, tools>>, s, m, id, c)
  <2> DEFINE y == <<service, copy, tools>>
  <2>1. IsSequence(y) /\ ToSet(y) = {service, copy, tools}
    BY TupleHolds
  <2>2. /\ Told(copy, s, m, id, c) /\ copy.agrees = {} /\ copy.carries = {}
        /\ Told(tools, s, m, id, c) /\ tools.agrees = {} /\ tools.carries = {}
    BY <1>0, <1>5, PlainTold
  <2>3. LedBy(x, c, service)
    BY <1>2, <1>4, <1>10, NoCilium DEF LedBy
  <2>4. LedBy(x, c, copy) /\ LedBy(x, c, tools)
    BY <2>2 DEF LedBy
  <2> HIDE DEF y
  <2>5. \A i \in DOMAIN y : y[i] \in ToSet(y)
    BY DEF ToSet
  <2> QED
    BY <1>4, <1>10, <2>1, <2>2, <2>3, <2>4, <2>5, TellingOn DEF y
<1>12. Telling(vip, s, m, id, c)
  BY <1>0, <1>6, PlainTelling
<1> DEFINE boot == x \o <<service, copy, tools>>
<1>13. Telling(boot, s, m, id, c)
  BY <1>11
<1>14. BootstrapSteps(n, s, prestage) = boot
  BY <1>7 DEF x
<1> HIDE DEF boot
<1>15. Telling(boot \o vip, s, m, id, c)
  BY <1>12, <1>13, TellingTogether
<1> QED
  BY <1>14, <1>15 DEF prestage, values, vip, id

\* A node that joins (joinPhase): its configuration comes before its service, too.
LEMMA JoinTelling ==
    ASSUME NEW s, NEW m, NEW c, NEW id \in Joining, NEW n, n.host \in Machines, NEW server \in BOOLEAN,
           NEW first,
           ConfigOf(s, n.host) = IF server THEN JoiningConfig(n, s, "token") ELSE AgentConfig(n, s, "token")
    PROVE  Telling(<<tokenStep(first, n.host)>> \o JoinSteps(n, s, server, "token"), s, m, id, c)
<1> DEFINE h == n.host
           body == IF server THEN JoiningConfig(n, s, "token") ELSE AgentConfig(n, s, "token")
           token == tokenStep(first, h)
           install == InstallStep(h, s)
           config == ConfigStep(h, body)
           unit == IF server THEN AsMember(UnitStep(h), n) ELSE UnitStep(h)
           registered == RegisteredStep(n, s)
           copy == KubeconfigStep(n, s)
<1>0. id # "l2-dataplane"
  BY DEF Joining
<1>1. PlainStep(install, s, m) /\ install.id = "install" /\ install.host = h
  BY InstallPlain
<1>2. /\ PlainStep(config, s, m) /\ config.id = "config" /\ config.host = h
      /\ <<<<h, "config.yaml">>, Says(s, m, <<h, "config.yaml">>)>> \in config.finds
  BY ConfigPlain
<1>3. /\ PlainStep(registered, s, m) /\ registered.id = "registered"
      /\ PlainStep(token, s, m) /\ token.id = "token"
  BY RegisteredPlain
<1>4. Told(unit, s, m, id, c) /\ unit.agrees = {ProcessPair(h)} /\ unit.carries = {} /\ unit.host = h
  BY RunningTold DEF Runs
<1>5. PlainStep(copy, s, m) /\ copy.id = "kubeconfig"
  BY KubeconfigPlain
<1>6. JoinSteps(n, s, server, "token") = <<install, config, unit, registered>> \o When(server, <<copy>>)
  BY DEF JoinSteps
<1> HIDE DEF token, install, config, unit, registered, copy
<1>7. Telling(<<token>>, s, m, id, c)
  <2>1. ToSet(<<token>>) = {token} /\ PlainSteps(<<token>>, s, m)
    BY <1>3, TupleHolds, PlainStepsTogether
  <2> QED
    BY <1>0, <1>3, <2>1, PlainTelling
<1>8. Telling(<<install, config>>, s, m, id, c) /\ ToSet(<<install, config>>) = {install, config}
  <2>1. ToSet(<<install, config>>) = {install, config}
    BY TupleHolds
  <2>2. PlainSteps(<<install, config>>, s, m)
    BY <1>1, <1>2, PlainStepsTogether
  <2> QED
    BY <1>0, <1>1, <1>2, <2>1, <2>2, PlainTelling
<1> DEFINE x == <<install, config>>
<1> HIDE DEF x
<1>9. Telling(x \o <<unit, registered>>, s, m, id, c)
  <2> DEFINE y == <<unit, registered>>
  <2>1. IsSequence(y) /\ ToSet(y) = {unit, registered}
    BY TupleHolds
  <2>2. Told(registered, s, m, id, c) /\ registered.agrees = {} /\ registered.carries = {}
    BY <1>0, <1>3, PlainTold
  <2>3. LedBy(x, c, unit)
    BY <1>2, <1>4, <1>8, NoCilium DEF LedBy, x
  <2>4. LedBy(x, c, registered)
    BY <2>2 DEF LedBy
  <2> HIDE DEF y
  <2>5. \A i \in DOMAIN y : y[i] \in ToSet(y)
    BY DEF ToSet
  <2> QED
    BY <1>4, <1>8, <2>1, <2>2, <2>3, <2>4, <2>5, TellingOn DEF x, y
<1>10. <<install, config, unit, registered>> = x \o <<unit, registered>>
  BY DEF x
<1>11. Telling(When(server, <<copy>>), s, m, id, c)
  <2>1. ToSet(<<copy>>) = {copy} /\ PlainSteps(<<copy>>, s, m)
    BY <1>5, TupleHolds, PlainStepsTogether
  <2>2. Telling(<<copy>>, s, m, id, c)
    BY <1>0, <1>5, <2>1, PlainTelling
  <2> QED
    BY <2>2, TellingTogether DEF When
<1> DEFINE y == x \o <<unit, registered>>
           z == When(server, <<copy>>)
<1>12. Telling(y, s, m, id, c) /\ Telling(z, s, m, id, c)
  BY <1>9, <1>11
<1>13. JoinSteps(n, s, server, "token") = y \o z
  BY <1>6, <1>10
<1> HIDE DEF y, z
<1>14. Telling(<<token>> \o (y \o z), s, m, id, c)
  BY <1>7, <1>12, TellingTogether
<1> QED
  BY <1>13, <1>14 DEF token

-----------------------------------------------------------------------------
(* The network.                                                            *)

\* A copy of what no Check compares with the document.
LEMMA CopyFaithful ==
    ASSUME NEW s, NEW m, NEW l, ~Asked(l), NEW from,
           l = Settings => from = Values(s.topology.servers[1].host)
    PROVE  /\ Faithful(s, m, Copy(l, from)) /\ Copy(l, from).drop = {}
           /\ \A K : Seeks(K, Copy(l, from))
           /\ Copy(l, from).put = <<>> /\ DOMAIN Copy(l, from).put = {} /\ DOMAIN Copy(l, from).keep = {}
           /\ DOMAIN Copy(l, from).read = {l} /\ Copy(l, from).read[l] = from
<1> DEFINE x == Copy(l, from)
           f == Just(l, from)
<1>1. DOMAIN f = {l} /\ f[l] = from
  BY JustHas
<1> HIDE DEF f
<1>2. /\ x.put = <<>> /\ x.read = f /\ x.keep = <<>> /\ x.drop = {}
      /\ DOMAIN <<>> = {}
  BY DEF Copy, ReadAll, NoWrite, f
<1> HIDE DEF x
<1>3. Faithful(s, m, x)
  BY <1>1, <1>2 DEF Faithful
<1>4. \A K : Seeks(K, x)
  BY <1>2 DEF Seeks
<1> QED
  BY <1>1, <1>2, <1>3, <1>4 DEF x

\* Cilium's configuration is made again where a part of it is not the document's.
LEMMA AppliedTold ==
    ASSUME NEW h \in Machines, NEW s, h = s.topology.servers[1].host, NEW m
    PROVE  Told(CiliumAppliedStep(h, s), s, m, "l2-dataplane", h)
<1> DEFINE e == CiliumAppliedStep(h, s)
           set == Copy(Settings, Values(h))
           key == <<"l2-dataplane", e.host, e.id>>
<1>1. /\ e.host = h /\ e.id = "cilium-applied" /\ e.finds = {} /\ e.agrees = {} /\ e.present = {}
      /\ e.carries = {<<Settings, CiliumKeys(CiliumHelmConfig(s))>>}
      /\ e.writes = <<set>>
  BY AppliedIs
<1>2. ~Asked(Settings)
  BY PairPlaces
<1>3. Faithful(s, m, set) /\ set.drop = {} /\ \A K : Seeks(K, set)
  BY <1>2, CopyFaithful
<1>4. key = AppliedKey(h) /\ key # ValuesKey(h)
  BY <1>1 DEF AppliedKey, ValuesKey
<1>5. "l2-dataplane" \notin Joining
  BY DEF Joining
<1>6. Proper(e, s, m, "l2-dataplane", h)
  BY <1>4, <1>5 DEF Proper
<1> HIDE DEF e, set
<1>7. IsSequence(e.writes) /\ ToSet(e.writes) = {set}
  BY <1>1, TupleHolds
<1>8. \A x \in ToSet(e.writes) : /\ Faithful(s, m, x) /\ x.drop = {} /\ Seeks(Sought(e), x)
                                 /\ Calm(x) \/ key = AppliedKey(h)
  BY <1>3, <1>4, <1>7
<1>9. \A l \in Looked(e) : Lasting(l)
  <2>1. Lasting(Settings)
    BY DEF Lasting, Settings, Object
  <2> QED
    BY <1>1, <2>1 DEF Looked
<1>10. Told(e, s, m, "l2-dataplane", h)
  BY <1>1, <1>6, <1>7, <1>8, <1>9, ToldBy
<1> QED
  BY <1>10 DEF e

\* The pods are restarted where they are older than the configuration they read.
LEMMA CurrentTold ==
    ASSUME NEW h \in Machines, NEW s, NEW m
    PROVE  /\ Told(CiliumCurrentStep(h), s, m, "l2-dataplane", h)
           /\ CiliumCurrentStep(h).host = h
           /\ CiliumCurrentStep(h).agrees = {CiliumPair} /\ CiliumCurrentStep(h).carries = {}
<1> DEFINE e == CiliumCurrentStep(h)
           operator == Copy(Object("operator"), Object("gateway-api"))
           pods == Copy(Pods, Settings)
<1>1. /\ e.host = h /\ e.id = "cilium-current" /\ e.finds = {} /\ e.agrees = {CiliumPair} /\ e.present = {}
      /\ e.carries = {} /\ e.writes = <<operator, pods>>
  BY DEF CiliumCurrentStep, Step, CiliumPair, Pods, Settings
<1> DEFINE K == Sought(e)
<1> HIDE DEF K
<1>2. Bearable(s, m, K, operator)
  <2>1. Aside(Object("operator"))
    BY ObjectsAside DEF AskedObjects
  <2> QED
    BY <2>1, AsidePut, PlainBearable
<1>3. Bearable(s, m, K, pods)
  <2>1. ~Asked(Pods) /\ Pods # Settings
    BY PairPlaces
  <2>2. /\ Faithful(s, m, pods) /\ pods.drop = {} /\ Seeks(K, pods)
        /\ DOMAIN pods.put = {} /\ DOMAIN pods.keep = {}
        /\ DOMAIN pods.read = {Pods} /\ pods.read[Pods] = Settings
    BY <2>1, CopyFaithful
  <2> HIDE DEF pods
  <2>3. Calm(pods)
    BY <2>1, <2>2 DEF Calm
  <2> QED
    BY <2>2, <2>3 DEF Bearable
<1> HIDE DEF e, operator, pods
<1>4. IsSequence(e.writes) /\ ToSet(e.writes) = {operator, pods}
  BY <1>1, TupleHolds
<1>5. \A x \in ToSet(e.writes) : Faithful(s, m, x) /\ x.drop = {} /\ Calm(x) /\ Seeks(K, x)
  BY <1>2, <1>3, <1>4 DEF Bearable
<1>6. \A l \in Looked(e) : Lasting(l)
  <2>1. CiliumPair[1] = Pods /\ CiliumPair[2] = Settings
    BY PairPlaces
  <2>2. Lasting(Pods) /\ Lasting(Settings)
    BY DEF Lasting, Pods, Settings, Object
  <2> QED
    BY <1>1, <2>1, <2>2 DEF Looked
<1>7. \A p \in e.agrees : p = CiliumPair /\ e.host = h
  BY <1>1
<1>8. \A p \in e.finds : Asked(p[1]) /\ p[2] = Says(s, m, p[1])
  BY <1>1
<1>10. Proper(e, s, m, "l2-dataplane", h)
  <2>1. "l2-dataplane" \notin Joining
    BY DEF Joining
  <2> QED
    BY <1>1, <2>1 DEF Proper, ValuesKey, AppliedKey
<1>9. Told(e, s, m, "l2-dataplane", h)
  BY <1>1, <1>4, <1>5, <1>6, <1>7, <1>8, <1>10, ToldBy DEF K
<1> QED
  BY <1>1, <1>9 DEF e

\* The other steps of l2-dataplane.
LEMMA DataplanePlain ==
    ASSUME NEW h \in Machines, NEW s, NEW m
    PROVE  /\ PlainStep(BundledDataplaneStep(h), s, m)
           /\ PlainStep(GatewayCRDStep(h, s), s, m)
           /\ PlainStep(CiliumValuesStep(h, s), s, m)
           /\ PlainStep(ManifestStep("lb-pool", h, LoadBalancerPool(s), Object("lb-pool")), s, m)
           /\ PlainStep(ManifestStep("l2-announcement", h, "control-plane", Object("l2-policy")), s, m)
           /\ PlainStep(CoreDNSStep(h), s, m)
           /\ PlainStep(GatewayClassStep(h), s, m)
<1>0. \A name : Object(name)[1] = "cluster" /\ Object(name)[2] = name
  BY ObjectsAside
<1>1. PlainStep(BundledDataplaneStep(h), s, m)
  <2> DEFINE e == BundledDataplaneStep(h)
             x == Put(Object("coredns"), "ready")
  <2>1. /\ e.host = h /\ e.finds = {} /\ e.agrees = {} /\ e.carries = {} /\ e.present = {Object("coredns"), Object("canal")}
        /\ e.writes = <<x>>
    BY DEF BundledDataplaneStep, WaitStep, Step
  <2>2. Aside(Object("coredns")) /\ Aside(Object("canal"))
    BY ObjectsAside DEF AskedObjects
  <2>3. (\A K : PlainWrite(s, m, K, x)) /\ Lasting(Object("coredns")) /\ Lasting(Object("canal"))
    BY <2>2, AsidePut
  <2> HIDE DEF e, x
  <2>4. PlainAll(s, m, Sought(e), e.writes)
    BY <2>1, <2>3, PlainSequences
  <2> QED
    BY <2>1, <2>3, <2>4, PlainBy DEF e
<1>2. PlainStep(GatewayCRDStep(h, s), s, m)
  <2> DEFINE e == GatewayCRDStep(h, s)
             l == Object("gateway-api")
             x == Put(Object("gateway-api-channel"), gatewayAPIChannel(s))
             y == Put(l, GatewayAPIVersion)
  <2>1. /\ e.host = h /\ e.finds = {<<l, GatewayAPIVersion>>} /\ e.agrees = {} /\ e.carries = {} /\ e.present = {}
        /\ e.writes = <<x, y>>
    BY DEF GatewayCRDStep, Step
  <2>2. Aside(Object("gateway-api-channel"))
    BY ObjectsAside DEF AskedObjects
  <2> DEFINE K == Sought(e)
  <2>0. l \in K
    BY <2>1 DEF Sought
  <2> HIDE DEF K
  <2>3. PlainWrite(s, m, K, x)
    BY <2>2, AsidePut
  <2>4. l[1] = "cluster" /\ l[2] = "gateway-api" /\ "gateway-api" \in AskedObjects
    BY <1>0 DEF AskedObjects
  <2>5. GatewayAPIVersion = ObjectSays(s, m, l)
    BY <2>4 DEF ObjectSays
  <2> HIDE DEF l
  <2>6. /\ PlainWrite(s, m, K, y)
        /\ \A p \in {<<l, GatewayAPIVersion>>} : Asked(p[1]) /\ p[2] = Says(s, m, p[1]) /\ Lasting(p[1])
    BY <2>0, <2>4, <2>5, ObjectPut
  <2> HIDE DEF e, x, y
  <2>7. PlainAll(s, m, K, e.writes)
    <3>1. PlainAll(s, m, K, <<x, y>>)
      BY <2>3, <2>6, PlainSequences
    <3> QED
      BY <2>1, <3>1
  <2> QED
    BY <2>1, <2>6, <2>7, PlainBy DEF e, K
<1>3. \A name \in {"helmchartconfig", "lb-pool", "l2-policy", "coredns"} :
         name \notin AskedObjects \cup {"cilium-pods", "cilium-config"}
  BY DEF AskedObjects
<1>4. {"cilium-values", "lb-pool", "l2-announcement"} \subseteq AskedFiles \ {"modules", "swap"}
  BY DEF AskedFiles
<1>5. /\ CiliumHelmConfig(s) = FileSays(s, m, h, "cilium-values")
      /\ LoadBalancerPool(s) = FileSays(s, m, h, "lb-pool")
      /\ "control-plane" = FileSays(s, m, h, "l2-announcement")
  BY DEF FileSays
<1>6. PlainStep(CiliumValuesStep(h, s), s, m)
  BY <1>3, <1>4, <1>5, ObjectPlain DEF CiliumValuesStep
<1>7. /\ PlainStep(ManifestStep("lb-pool", h, LoadBalancerPool(s), Object("lb-pool")), s, m)
      /\ PlainStep(ManifestStep("l2-announcement", h, "control-plane", Object("l2-policy")), s, m)
  BY <1>3, <1>4, <1>5, ObjectPlain
<1>8. PlainStep(CoreDNSStep(h), s, m)
  BY <1>3, ObjectPlain DEF CoreDNSStep
<1>9. PlainStep(GatewayClassStep(h), s, m)
  <2> DEFINE e == GatewayClassStep(h)
             l == Object("gatewayclass")
             x == Copy(Object("operator"), Object("gateway-api"))
             y == Put(l, "ready")
  <2>1. /\ e.host = h /\ e.finds = {} /\ e.agrees = {} /\ e.carries = {} /\ e.present = {l}
        /\ e.writes = <<x>> \o <<y>>
    BY DEF GatewayClassStep, WaitStep, Step
  <2>2. Aside(Object("operator")) /\ Aside(l)
    BY ObjectsAside DEF AskedObjects
  <2> DEFINE K == Sought(e)
  <2> HIDE DEF K
  <2>3. PlainWrite(s, m, K, x) /\ PlainWrite(s, m, K, y) /\ Lasting(l)
    BY <2>2, AsidePut
  <2> DEFINE u == <<x>>
             v == <<y>>
  <2> HIDE DEF e, l, x, y
  <2>4. PlainAll(s, m, K, e.writes)
    <3>1. PlainAll(s, m, K, u) /\ PlainAll(s, m, K, v)
      BY <2>3, PlainSequences
    <3>2. e.writes = u \o v
      BY <2>1
    <3> HIDE DEF u, v
    <3> QED
      BY <3>1, <3>2, PlainSequences
  <2> QED
    BY <2>1, <2>3, <2>4, PlainBy DEF e, K
<1> QED
  BY <1>1, <1>2, <1>6, <1>7, <1>8, <1>9

\* What Cilium's pods have read is compared after its configuration is applied.
LEMMA DataplaneTelling ==
    ASSUME NEW h \in Machines, NEW s, h = s.topology.servers[1].host, NEW m
    PROVE  Telling(DataplaneSteps(h, s), s, m, "l2-dataplane", h)
<1> DEFINE id == "l2-dataplane"
           bundled == BundledDataplaneStep(h)
           crd == GatewayCRDStep(h, s)
           values == CiliumValuesStep(h, s)
           applied == CiliumAppliedStep(h, s)
           pool == ManifestStep("lb-pool", h, LoadBalancerPool(s), Object("lb-pool"))
           policy == ManifestStep("l2-announcement", h, "control-plane", Object("l2-policy"))
           current == CiliumCurrentStep(h)
           coredns == CoreDNSStep(h)
           class == GatewayClassStep(h)
<1>1. /\ PlainStep(bundled, s, m) /\ PlainStep(crd, s, m) /\ PlainStep(values, s, m) /\ PlainStep(pool, s, m)
      /\ PlainStep(policy, s, m) /\ PlainStep(coredns, s, m) /\ PlainStep(class, s, m)
  BY DataplanePlain
<1>2. Told(applied, s, m, id, h) /\ applied.host = h /\ applied.id = "cilium-applied" /\ applied.agrees = {}
  BY AppliedTold, AppliedIs
<1>3. /\ Told(current, s, m, id, h) /\ current.host = h /\ current.agrees = {CiliumPair}
      /\ current.carries = {}
  BY CurrentTold
<1>4. id \notin Joining
  BY DEF Joining
<1>18. /\ \A e \in {bundled, crd, pool, policy, coredns, class} : e.id \notin {"cilium-applied", "cilium-values"}
       /\ values.host = h /\ values.id = "cilium-values" /\ <<Values(h), Says(s, m, Values(h))>> \in values.finds
  <2>1. /\ bundled.id = "bundled-dataplane" /\ crd.id = "gateway-api-crds" /\ pool.id = "lb-pool"
        /\ policy.id = "l2-announcement" /\ coredns.id = "coredns" /\ class.id = "gatewayclass"
    BY DEF BundledDataplaneStep, GatewayCRDStep, ManifestStep, ManifestsStep, CoreDNSStep, GatewayClassStep,
           WaitStep, Step
  <2>2. /\ values.host = h /\ values.id = "cilium-values"
        /\ values.finds = {<<<<h, "cilium-values">>, CiliumHelmConfig(s)>>}
    BY DEF CiliumValuesStep, ManifestStep, ManifestsStep, Step
  <2>3. Says(s, m, Values(h)) = CiliumHelmConfig(s)
    BY ValuesSay
  <2>4. \A e \in {bundled, crd, pool, policy, coredns, class} : e.id \notin {"cilium-applied", "cilium-values"}
    BY <2>1
  <2> QED
    BY <2>2, <2>3, <2>4 DEF Values
<1> DEFINE gatewayAPI == WantsGatewayAPI(s)
           first == When(gatewayAPI, <<crd>>)
           second == When(LoadBalancerPool(s) # {}, <<pool>>)
           third == When(L2AnnouncementPolicy(s), <<policy>>)
           last == When(gatewayAPI, <<class>>)
<1>5. DataplaneSteps(h, s) = IF ~isCilium(s) THEN <<bundled>>
                             ELSE first \o <<values, applied>> \o second \o third \o <<current, coredns>> \o last
  BY DEF DataplaneSteps
<1> HIDE DEF id, bundled, crd, values, applied, pool, policy, current, coredns, class, gatewayAPI
<1> HIDE DEF first, second, third, last
<1>7. /\ Telling(<<bundled>>, s, m, id, h) /\ Telling(first, s, m, id, h) /\ Telling(second, s, m, id, h)
      /\ Telling(third, s, m, id, h) /\ Telling(last, s, m, id, h)
  <2>1. ASSUME NEW e \in {bundled, crd, pool, policy, class}, PlainSteps(<<e>>, s, m), NEW cond
        PROVE  Telling(<<e>>, s, m, id, h) /\ Telling(When(cond, <<e>>), s, m, id, h)
    <3>1. ToSet(<<e>>) = {e}
      BY TupleHolds
    <3>2. Telling(<<e>>, s, m, id, h)
      BY <1>4, <1>18, <2>1, <3>1, PlainTelling
    <3> QED
      BY <3>2, TellingTogether DEF When
  <2>2. \A e \in {bundled, crd, pool, policy, class} : PlainSteps(<<e>>, s, m)
    BY <1>1, PlainStepsTogether
  <2> QED
    BY <2>1, <2>2 DEF first, second, third, last
<1>8. /\ Told(values, s, m, id, h) /\ values.agrees = {} /\ values.carries = {}
      /\ Told(coredns, s, m, id, h) /\ coredns.agrees = {} /\ coredns.carries = {}
  BY <1>1, <1>4, <1>18, PlainTold
<1> DEFINE a == first
           pair == <<values, applied>>
           b == a \o pair
           c == b \o second
           d == c \o third
           rest == <<current, coredns>>
           f == d \o rest
<1>9. IsSequence(pair) /\ ToSet(pair) = {values, applied} /\ IsSequence(rest) /\ ToSet(rest) = {current, coredns}
  BY TupleHolds
<1>10. /\ \A i \in DOMAIN pair : pair[i] \in ToSet(pair)
       /\ \A i \in DOMAIN rest : rest[i] \in ToSet(rest)
       /\ DOMAIN pair = {1, 2} /\ pair[1] = values /\ pair[2] = applied
  BY DEF ToSet
<1>11. DataplaneSteps(h, s) = IF ~isCilium(s) THEN <<bundled>> ELSE f \o last
  BY <1>5
<1> HIDE DEF pair, rest
<1>12. Telling(b, s, m, id, h) /\ applied \in ToSet(b)
  <2>1. \A i \in DOMAIN pair : Backed(pair, h, i)
    <3>1. Backed(pair, h, 1)
      BY <1>8, <1>10 DEF Backed
    <3>2. Backed(pair, h, 2)
      BY <1>2, <1>10, <1>18 DEF Backed
    <3> QED
      BY <1>10, <3>1, <3>2
  <2>2. \A e \in ToSet(pair) : Told(e, s, m, id, h)
    BY <1>2, <1>8, <1>9
  <2>3. ToSet(b) = ToSet(a) \cup ToSet(pair)
    BY <1>7, <1>9, ConcatHolds DEF Telling
  <2> QED
    BY <1>7, <1>9, <2>1, <2>2, <2>3, TellingOn
<1> HIDE DEF b
<1>13. Telling(c, s, m, id, h) /\ applied \in ToSet(c)
  <2>1. ToSet(c) = ToSet(b) \cup ToSet(second)
    BY <1>7, <1>12, ConcatHolds DEF Telling
  <2> QED
    BY <1>7, <1>12, <2>1, TellingTogether
<1> HIDE DEF c
<1>14. Telling(d, s, m, id, h) /\ applied \in ToSet(d)
  <2>1. ToSet(d) = ToSet(c) \cup ToSet(third)
    BY <1>7, <1>13, ConcatHolds DEF Telling
  <2> QED
    BY <1>7, <1>13, <2>1, TellingTogether
<1> HIDE DEF d
<1>15. Telling(f, s, m, id, h)
  <2>1. ProcessPair(h) # CiliumPair
    BY PairPlaces
  <2>2. LedBy(d, h, current) /\ LedBy(d, h, coredns)
    BY <1>2, <1>3, <1>8, <1>14, <2>1 DEF LedBy
  <2>3. \A i \in DOMAIN rest : LedBy(d, h, rest[i])
    BY <1>9, <1>10, <2>2
  <2>4. \A e \in ToSet(rest) : Told(e, s, m, id, h)
    BY <1>3, <1>8, <1>9
  <2> QED
    BY <1>9, <1>14, <2>3, <2>4, TellingOn
<1> HIDE DEF f
<1>16. Telling(f \o last, s, m, id, h)
  BY <1>7, <1>15, TellingTogether
<1>17. Telling(DataplaneSteps(h, s), s, m, id, h)
  BY <1>7, <1>11, <1>16
<1> QED
  BY <1>17 DEF id

-----------------------------------------------------------------------------
(* The phases of a document.                                               *)

\* The steps of every phase tell.
TellingPhases(x, s, m, c) == IsSequence(x) /\ \A ph \in ToSet(x) : Telling(ph.steps, s, m, ph.id, c)

\* One phase, none, and some after others.
LEMMA PhasesTelling ==
    ASSUME NEW s, NEW m, NEW c
    PROVE  /\ \A id, grade, steps : Telling(steps, s, m, id, c) => TellingPhases(Once(id, grade, steps), s, m, c)
           /\ \A x, y : TellingPhases(x, s, m, c) /\ TellingPhases(y, s, m, c) => TellingPhases(x \o y, s, m, c)
<1>1. ASSUME NEW id, NEW grade, NEW steps, Telling(steps, s, m, id, c)
      PROVE  TellingPhases(Once(id, grade, steps), s, m, c)
  <2> DEFINE ph == Phase(id, grade, steps)
  <2>1. ph.id = id /\ ph.steps = steps
    BY DEF Phase
  <2>2. Once(id, grade, steps) \in {<<>>, <<ph>>}
    BY DEF Once
  <2> HIDE DEF ph
  <2>3. IsSequence(<<>>) /\ ToSet(<<>>) = {} /\ IsSequence(<<ph>>) /\ ToSet(<<ph>>) = {ph}
    BY TupleHolds
  <2> QED
    BY <1>1, <2>1, <2>2, <2>3 DEF TellingPhases
<1>2. ASSUME NEW x, NEW y, TellingPhases(x, s, m, c), TellingPhases(y, s, m, c)
      PROVE  TellingPhases(x \o y, s, m, c)
  <2>1. IsSequence(x \o y) /\ ToSet(x \o y) = ToSet(x) \cup ToSet(y)
    BY <1>2, ConcatHolds DEF TellingPhases
  <2> QED
    BY <1>2, <2>1 DEF TellingPhases
<1> QED
  BY <1>1, <1>2

\* Phases whose steps tell are those of a document that does.
LEMMA TellingTold ==
    ASSUME NEW s, NEW m, NEW c, NEW x, TellingPhases(x, s, m, c)
    PROVE  AllTold(x, s, m, c)
<1> SUFFICES ASSUME NEW p \in DOMAIN x, NEW i \in DOMAIN x[p].steps
             PROVE  Told(x[p].steps[i], s, m, x[p].id, c) /\ Rests(x, c, p, i)
  BY DEF AllTold
<1> DEFINE ph == x[p]
           e == ph.steps[i]
<1>1. Telling(ph.steps, s, m, ph.id, c)
  BY DEF TellingPhases, ToSet
<1>2. Told(e, s, m, ph.id, c) /\ Backed(ph.steps, c, i)
  BY <1>1 DEF Telling, ToSet
<1>3. e.host \in Machines
  BY <1>2 DEF Told
<1>4. ASSUME ProcessPair(e.host) \in e.agrees PROVE ConfiguredKey(ph.id, e.host) \in Behind(x, p, i)
  <2>1. ph.id \in Joining
    BY <1>2, <1>3, <1>4, PairPlaces DEF Told
  <2>2. PICK j \in DOMAIN ph.steps : j < i /\ ph.steps[j].host = e.host /\ ph.steps[j].id = "config"
    BY <1>2, <1>4 DEF Backed
  <2>3. Precedes(ph, j, i)
    BY <2>1, <2>2 DEF Precedes, Joining
  <2>4. KeyOf(ph, ph.steps[j]) = ConfiguredKey(ph.id, e.host)
    BY <2>2 DEF KeyOf, ConfiguredKey
  <2> HIDE DEF e
  <2> QED
    BY <2>2, <2>3, <2>4 DEF Behind
<1>6. ASSUME e.carries # {} PROVE ValuesKey(c) \in Behind(x, p, i)
  <2>1. ph.id = "l2-dataplane"
    BY <1>2, <1>6 DEF Told, Proper
  <2>2. PICK j \in DOMAIN ph.steps : j < i /\ ph.steps[j].host = c /\ ph.steps[j].id = "cilium-values"
    BY <1>2, <1>6 DEF Backed
  <2>3. Precedes(ph, j, i)
    BY <2>1, <2>2 DEF Precedes
  <2>4. KeyOf(ph, ph.steps[j]) = ValuesKey(c)
    BY <2>1, <2>2 DEF KeyOf, ValuesKey
  <2> HIDE DEF e
  <2> QED
    BY <2>2, <2>3, <2>4 DEF Behind
<1>5. ASSUME CiliumPair \in e.agrees PROVE AppliedKey(c) \in Behind(x, p, i)
  <2>1. ph.id = "l2-dataplane"
    BY <1>2, <1>3, <1>5, PairPlaces DEF Told
  <2>2. PICK j \in DOMAIN ph.steps : j < i /\ ph.steps[j].host = c /\ ph.steps[j].id = "cilium-applied"
    BY <1>2, <1>5 DEF Backed
  <2>3. Precedes(ph, j, i)
    BY <2>1, <2>2 DEF Precedes
  <2>4. KeyOf(ph, ph.steps[j]) = AppliedKey(c)
    BY <2>1, <2>2 DEF KeyOf, AppliedKey
  <2> HIDE DEF e
  <2> QED
    BY <2>2, <2>3, <2>4 DEF Behind
<1> QED
  BY <1>2, <1>4, <1>5, <1>6 DEF Rests

\* The nodes that join: each has a host of its own, and the configuration of its part.
LEMMA NodesConfigured ==
    ASSUME NEW d \in DOMAIN Documents, Loaded[d].refused = {}
    PROVE  LET s == Loaded[d].spec IN
           /\ \A n \in ToSet(s.topology.servers) \cup ToSet(s.topology.agents) : n.host \in Machines
           /\ \A n \in ToSet(Tail(s.topology.servers)) : ConfigOf(s, n.host) = JoiningConfig(n, s, "token")
           /\ \A n \in ToSet(s.topology.agents) : ConfigOf(s, n.host) = AgentConfig(n, s, "token")
<1> DEFINE s == Loaded[d].spec
           S == s.topology.servers
           A == s.topology.agents
           all == AllNodes(s)
<1>1. S \in Seq(NodeSpec) /\ S # <<>> /\ A \in Seq(NodeSpec)
  BY LoadedComesTo
<1>2. \A i, j \in DOMAIN all : i # j => all[i].host # all[j].host
  BY LoadedIsAccepted, HostsDiffer
<1>3. all = S \o A
  BY DEF AllNodes
<1>4. {n.host : n \in ToSet(S)} \cap AgentHosts(s) = {}
  BY ServersAreNotAgents
<1>5. {n.host : n \in NodesOf(s)} \subseteq Machines
  BY ServersAreNotAgents
<1>6. NodesOf(s) = ToSet(all) /\ AgentHosts(s) = {n.host : n \in ToSet(A)}
  BY DEF NodesOf, AgentHosts
<1>8. \A h : ConfigOf(s, h) =
         IF h = S[1].host THEN ServerConfig(S[1], s, "")
         ELSE IF \E n \in ToSet(S) : n.host = h THEN JoiningConfig(CHOOSE n \in ToSet(S) : n.host = h, s, "token")
         ELSE AgentConfig(CHOOSE n \in ToSet(A) : n.host = h, s, "token")
  BY DEF ConfigOf
<1> HIDE DEF S, A, all, s
<1>9. /\ \A i \in DOMAIN S : i \in DOMAIN all /\ all[i] = S[i]
      /\ \A j \in DOMAIN A : Len(S) + j \in DOMAIN all /\ all[Len(S) + j] = A[j]
      /\ \A i, j \in DOMAIN A : i # j => Len(S) + i # Len(S) + j
  BY <1>1, <1>3
<1>10. ASSUME NEW n \in ToSet(S), NEW k \in ToSet(S), n.host = k.host PROVE n = k
  BY <1>2, <1>9, <1>10 DEF ToSet
<1>11. ASSUME NEW n \in ToSet(A), NEW k \in ToSet(A), n.host = k.host PROVE n = k
  <2>1. PICK i \in DOMAIN A : n = A[i]
    BY DEF ToSet
  <2>2. PICK j \in DOMAIN A : k = A[j]
    BY DEF ToSet
  <2> QED
    BY <1>2, <1>9, <1>11, <2>1, <2>2
<1>12. \A n \in ToSet(S) \cup ToSet(A) : n.host \in Machines
  <2>1. ToSet(S) \cup ToSet(A) \subseteq ToSet(all)
    BY <1>9 DEF ToSet
  <2> QED
    BY <1>5, <1>6, <2>1
<1>13. ASSUME NEW n \in ToSet(Tail(S)) PROVE ConfigOf(s, n.host) = JoiningConfig(n, s, "token")
  <2>1. PICK i \in DOMAIN Tail(S) : n = Tail(S)[i]
    BY DEF ToSet
  <2>2. i + 1 \in DOMAIN S /\ n = S[i + 1] /\ i + 1 # 1 /\ 1 \in DOMAIN S
    BY <1>1, <2>1
  <2>3. n.host # S[1].host
    BY <1>2, <1>9, <2>2
  <2>4. n \in ToSet(S)
    BY <2>2 DEF ToSet
  <2>5. (CHOOSE k \in ToSet(S) : k.host = n.host) = n
    BY <1>10, <2>4
  <2> QED
    BY <1>8, <2>3, <2>4, <2>5
<1>14. ASSUME NEW n \in ToSet(A) PROVE ConfigOf(s, n.host) = AgentConfig(n, s, "token")
  <2>1. \A k \in ToSet(S) : k.host # n.host
    BY <1>4, <1>6
  <2>2. S[1] \in ToSet(S)
    BY <1>1 DEF ToSet
  <2>3. (CHOOSE k \in ToSet(A) : k.host = n.host) = n
    BY <1>11
  <2> QED
    BY <1>8, <2>1, <2>2, <2>3
<1> QED
  BY <1>12, <1>13, <1>14 DEF S, A, s

\* A phase in which nodes join (joinPhase).
LEMMA JoinPhaseTelling ==
    ASSUME NEW s, NEW m, NEW c, NEW id \in Joining, NEW nodes, IsSequence(nodes), NEW server \in BOOLEAN,
           \A n \in ToSet(nodes) :
              /\ n.host \in Machines
              /\ ConfigOf(s, n.host) = IF server THEN JoiningConfig(n, s, "token") ELSE AgentConfig(n, s, "token")
    PROVE  TellingPhases(joinPhase(id, nodes, s, server), s, m, c)
<1> DEFINE first == s.topology.servers[1].host
           Of(n) == <<tokenStep(first, n.host)>> \o JoinSteps(n, s, server, "token")
           seqs == [i \in DOMAIN nodes |-> Of(nodes[i])]
<1>1. joinPhase(id, nodes, s, server) = Once(id, "mutating", FlattenSeq(seqs))
  BY DEF joinPhase
<1>2. ASSUME NEW n \in ToSet(nodes) PROVE Telling(Of(n), s, m, id, c)
  BY JoinTelling
<1> HIDE DEF Of, first
<1>3. IsSequence(seqs)
  <2>1. PICK T : nodes \in Seq(T)
    BY DEF IsSequence
  <2>2. seqs \in Seq({Of(nodes[i]) : i \in DOMAIN nodes})
    BY <2>1
  <2> QED
    BY <2>2 DEF IsSequence
<1>4. \A q \in ToSet(seqs) : Telling(q, s, m, id, c)
  <2>1. \A i \in DOMAIN nodes : nodes[i] \in ToSet(nodes)
    BY DEF ToSet
  <2> QED
    BY <1>2, <2>1 DEF ToSet
<1> HIDE DEF seqs
<1>5. Telling(FlattenSeq(seqs), s, m, id, c)
  BY <1>3, <1>4, FlattenedTelling
<1> QED
  BY <1>1, <1>5, PhasesTelling

\* The preparation of the nodes.
LEMMA PrepTelling ==
    ASSUME NEW s, NEW m, NEW c, NEW all, IsSequence(all), \A h \in ToSet(all) : h \in Machines, NEW grade
    PROVE  TellingPhases(Once("l0-node-prep", grade,
                          FlattenSeq([i \in DOMAIN all |-> NodePrepSteps(all[i], s, m.trust)])), s, m, c)
<1> DEFINE id == "l0-node-prep"
           Of(h) == NodePrepSteps(h, s, m.trust)
           seqs == [i \in DOMAIN all |-> Of(all[i])]
<1>1. ASSUME NEW h \in ToSet(all) PROVE Telling(Of(h), s, m, id, c)
  <2>1. PlainSteps(Of(h), s, m) /\ id \notin Joining /\ id # "l2-dataplane"
    BY NodePrepPlain DEF Joining
  <2> HIDE DEF Of, id
  <2> QED
    BY <2>1, LaterTelling
<1> HIDE DEF Of, id
<1>2. IsSequence(seqs)
  <2>1. PICK T : all \in Seq(T)
    BY DEF IsSequence
  <2>2. seqs \in Seq({Of(all[i]) : i \in DOMAIN all})
    BY <2>1
  <2> QED
    BY <2>2 DEF IsSequence
<1>3. \A q \in ToSet(seqs) : Telling(q, s, m, id, c)
  <2>1. \A i \in DOMAIN all : all[i] \in ToSet(all)
    BY DEF ToSet
  <2> QED
    BY <1>1, <2>1 DEF ToSet
<1>4. seqs = [i \in DOMAIN all |-> NodePrepSteps(all[i], s, m.trust)]
  BY DEF Of
<1> HIDE DEF seqs
<1>5. TellingPhases(Once(id, grade, FlattenSeq(seqs)), s, m, c)
  BY <1>2, <1>3, FlattenedTelling, PhasesTelling
<1> QED
  BY <1>4, <1>5 DEF id

\* Every list of phases the program makes of a document: a step that is done looks for
\* what the document says, every other step writes what the document says, and what a
\* step compares with something else comes after the step that brings that
\* (catalog.Phases).
THEOREM PhasesTold ==
    ASSUME NEW d \in DOMAIN Documents, Loaded[d].refused = {}
    PROVE  LET s == Loaded[d].spec IN
           AllTold(Loaded[d].phases, s, resolveMaterial(s), s.topology.servers[1].host)
<1> DEFINE s == Loaded[d].spec
           m == resolveMaterial(s)
           servers == s.topology.servers
           agents == s.topology.agents
           first == servers[1]
           c == first.host
           all == Hosts(servers \o agents)
           prestage == When(WantsCilium(s),
                            <<PrestageStep(c, "cilium-values", CiliumHelmConfig(s))>>)
           issuer == IF Issues(s.pki.mode) THEN "malmok" ELSE ""
           boot == BootstrapSteps(first, s, prestage) \o vipSteps(c, s)
           P1 == Once("l0-node-prep", "mutating",
                      FlattenSeq([i \in DOMAIN all |-> NodePrepSteps(all[i], s, m.trust)]))
           P2 == Once("l1-bootstrap", "mutating", boot)
           P3 == joinPhase("l1-join-server", Tail(servers), s, TRUE)
           P4 == joinPhase("l1-join-agent", agents, s, FALSE)
           P5 == Once("l2-dataplane", "disruptive", DataplaneSteps(c, s))
           P6 == Once("l2-storage", "additive", StorageSteps(c, s))
           P7 == Once("l2-pki", "additive", PkiSteps(c, s, m.pki, m.charts))
           P8 == Once("l2-gateway", "additive", GatewaySteps(c, s, m.bundles, issuer))
           P9 == Once("l2-observability", "additive", ObservabilitySteps(c, s, m.charts))
           P10 == Once("l2-platform", "additive", PlatformSteps(c, s, m.trust, m.charts))
           Tells(x) == TellingPhases(x, s, m, c)
<1>1. /\ Loaded[d].phases = Phases(s, m)
      /\ servers \in Seq(NodeSpec) /\ servers # <<>>
      /\ agents \in Seq(NodeSpec)
      /\ s.gateway.gateways \in Seq(Gateway)
  BY LoadedComesTo
<1>2. Phases(s, m) = P1 \o P2 \o P3 \o P4 \o P5 \o P6 \o P7 \o P8 \o P9 \o P10
  BY Zenon DEF Phases, roles
<1>3. IsFiniteSet(DOMAIN m.bundles)
  BY <1>1, FiniteBundles
<1>4. /\ \A n \in ToSet(servers) \cup ToSet(agents) : n.host \in Machines
      /\ \A n \in ToSet(Tail(servers)) : ConfigOf(s, n.host) = JoiningConfig(n, s, "token")
      /\ \A n \in ToSet(agents) : ConfigOf(s, n.host) = AgentConfig(n, s, "token")
  BY NodesConfigured
<1>5. c \in Machines
  BY <1>1, <1>4 DEF ToSet
<1>6. issuer = IssuerOf(s)
  BY DEF IssuerOf
<1>7. IsSequence(all) /\ \A h \in ToSet(all) : h \in Machines
  <2> DEFINE nodes == servers \o agents
  <2>1. nodes \in Seq(NodeSpec)
    BY <1>1
  <2>2. \A i \in DOMAIN nodes : nodes[i].host \in Machines
    <3>1. IsSequence(servers) /\ IsSequence(agents)
      BY <1>1 DEF IsSequence
    <3>2. ToSet(nodes) = ToSet(servers) \cup ToSet(agents)
      BY <3>1, ConcatHolds
    <3>3. \A i \in DOMAIN nodes : nodes[i] \in ToSet(nodes)
      BY DEF ToSet
    <3> HIDE DEF nodes
    <3> QED
      BY <1>4, <3>2, <3>3
  <2> HIDE DEF nodes
  <2>3. Hosts(nodes) = [i \in DOMAIN nodes |-> nodes[i].host]
    BY DEF Hosts
  <2>4. Hosts(nodes) \in Seq({nodes[i].host : i \in DOMAIN nodes})
    BY <2>1, <2>3
  <2>5. \A h \in ToSet(Hosts(nodes)) : h \in Machines
    BY <2>2, <2>3 DEF ToSet
  <2> QED
    BY <2>4, <2>5 DEF IsSequence, nodes
<1>8. Tells(P1)
  BY <1>7, PrepTelling
<1>9. Telling(boot, s, m, "l1-bootstrap", c)
  BY <1>5, BootstrapTelling
<1>10. /\ IsSequence(Tail(servers)) /\ IsSequence(agents)
       /\ \A n \in ToSet(Tail(servers)) : n \in ToSet(servers)
  <2>1. Tail(servers) \in Seq(NodeSpec)
    BY <1>1
  <2>2. \A i \in DOMAIN Tail(servers) : i + 1 \in DOMAIN servers /\ Tail(servers)[i] = servers[i + 1]
    BY <1>1
  <2> QED
    BY <1>1, <2>1, <2>2 DEF IsSequence, ToSet
<1>11. "l1-join-server" \in Joining /\ "l1-join-agent" \in Joining
  BY DEF Joining
<1>12. Tells(P3)
  <2> DEFINE id == "l1-join-server"
             nodes == Tail(servers)
             server == TRUE
  <2>1. /\ id \in Joining /\ IsSequence(nodes) /\ server \in BOOLEAN
        /\ \A n \in ToSet(nodes) :
              /\ n.host \in Machines
              /\ ConfigOf(s, n.host) = IF server THEN JoiningConfig(n, s, "token") ELSE AgentConfig(n, s, "token")
    BY <1>4, <1>10, <1>11
  <2> HIDE DEF id, nodes, server, m, c, s
  <2>2. TellingPhases(joinPhase(id, nodes, s, server), s, m, c)
    BY <2>1, JoinPhaseTelling
  <2> QED
    BY <2>2 DEF id, nodes, server
<1>13. Tells(P4)
  <2> DEFINE id == "l1-join-agent"
             nodes == agents
             server == FALSE
  <2>1. /\ id \in Joining /\ IsSequence(nodes) /\ server \in BOOLEAN
        /\ \A n \in ToSet(nodes) :
              /\ n.host \in Machines
              /\ ConfigOf(s, n.host) = IF server THEN JoiningConfig(n, s, "token") ELSE AgentConfig(n, s, "token")
    BY <1>4, <1>10, <1>11
  <2> HIDE DEF id, nodes, server, m, c, s
  <2>2. TellingPhases(joinPhase(id, nodes, s, server), s, m, c)
    BY <2>1, JoinPhaseTelling
  <2> QED
    BY <2>2 DEF id, nodes, server
<1>14. Telling(DataplaneSteps(c, s), s, m, "l2-dataplane", c)
  BY <1>5, DataplaneTelling
<1>15. /\ PlainSteps(StorageSteps(c, s), s, m)
       /\ PlainSteps(PkiSteps(c, s, m.pki, m.charts), s, m)
       /\ PlainSteps(ObservabilitySteps(c, s, m.charts), s, m)
       /\ PlainSteps(PlatformSteps(c, s, m.trust, m.charts), s, m)
  BY <1>5, StoragePlain, PkiPlain, ObservabilityPlain, PlatformPlain
<1>16. PlainSteps(GatewaySteps(c, s, m.bundles, issuer), s, m)
  BY <1>1, <1>3, <1>5, <1>6, GatewayPlain
<1>17. \A id \in {"l2-storage", "l2-pki", "l2-gateway", "l2-observability", "l2-platform"} :
          id \notin Joining /\ id # "l2-dataplane"
  BY DEF Joining
<1> HIDE DEF P1, P3, P4, boot, all, prestage, issuer, m, servers, agents, first, c, s
<1>18. Tells(P2) /\ Tells(P5)
  BY <1>9, <1>14, PhasesTelling
<1>19. ASSUME NEW id \in {"l2-storage", "l2-pki", "l2-gateway", "l2-observability", "l2-platform"},
              NEW steps, PlainSteps(steps, s, m)
       PROVE  Tells(Once(id, "additive", steps))
  <2>1. Telling(steps, s, m, id, c)
    BY <1>17, <1>19, LaterTelling
  <2> QED
    BY <2>1, PhasesTelling
<1>20. Tells(P6) /\ Tells(P7) /\ Tells(P8) /\ Tells(P9) /\ Tells(P10)
  BY <1>15, <1>16, <1>19
<1> HIDE DEF P2, P5, P6, P7, P8, P9, P10
<1>21. \A x, y : Tells(x) /\ Tells(y) => Tells(x \o y)
  BY PhasesTelling
<1> DEFINE X3 == P1 \o P2 \o P3
           X6 == X3 \o P4 \o P5 \o P6
           X10 == X6 \o P7 \o P8 \o P9 \o P10
<1> HIDE DEF Tells
<1>22. Tells(X3)
  BY <1>8, <1>12, <1>18, <1>21
<1> HIDE DEF X3
<1>23. Tells(X6)
  BY <1>13, <1>18, <1>20, <1>21, <1>22
<1> HIDE DEF X6
<1>24. Tells(X10)
  BY <1>20, <1>21, <1>23
<1> HIDE DEF X10
<1>25. Loaded[d].phases = X10
  BY <1>1, <1>2, Zenon DEF X3, X6, X10
<1>26. AllTold(X10, s, m, c)
  BY <1>24, TellingTold DEF Tells
<1> QED
  BY <1>25, <1>26 DEF s, m, c, first, servers

-----------------------------------------------------------------------------
(* What stays true of the record.                                          *)

\* What a machine that starts again forgets, where no file restores it.
Forgotten(w) ==
    {<<h, "swap">> : h \in {g \in Machines : <<g, "fstab">> \notin DOMAIN w}}
    \cup {<<h, "modules">> : h \in {g \in Machines : <<g, "modules-load.d">> \notin DOMAIN w}}

\* A write that leaves what the record has as done.
Borne(d, x) ==
    LET s == Loaded[d].spec IN
    /\ Faithful(s, resolveMaterial(s), x)
    /\ Fit(x, Machines)
    /\ x.drop \subseteq Forgotten(world)
    /\ Calm(x) \/ AppliedKey(s.topology.servers[1].host) \notin record \/ rerendered

\* No Check that holds looks at what is forgotten.
LEMMA NotForgotten ==
    ASSUME NEW e, NEW s, NEW m, NEW id, NEW c, Told(e, s, m, id, c), NEW w, Holds(e, w)
    PROVE  Looked(e) \cap Forgotten(w) = {}
<1>1. Looked(e) \subseteq DOMAIN w
  BY DEF Looked, Holds, Is
<1>2. Survives(e)
  BY DEF Told
<1> SUFFICES ASSUME NEW l \in Looked(e), l \in Forgotten(w) PROVE FALSE
  OBVIOUS
<1>3. CASE \E h \in Machines : l = <<h, "swap">> /\ <<h, "fstab">> \notin DOMAIN w
  BY <1>1, <1>2, <1>3 DEF Survives
<1>4. CASE \E h \in Machines : l = <<h, "modules">> /\ <<h, "modules-load.d">> \notin DOMAIN w
  BY <1>1, <1>2, <1>4 DEF Survives
<1> QED
  BY <1>3, <1>4 DEF Forgotten

\* The first steps of two places with one key are one step.
LEMMA SameFirst ==
    ASSUME NEW phases, IsSequence(phases), \A p \in DOMAIN phases : IsSequence(phases[p].steps),
           NEW p \in DOMAIN phases, NEW i \in DOMAIN phases[p].steps, First(phases, p, i),
           NEW q \in DOMAIN phases, NEW j \in DOMAIN phases[q].steps, First(phases, q, j),
           KeyOf(phases[p], phases[p].steps[i]) = KeyOf(phases[q], phases[q].steps[j])
    PROVE  p = q /\ i = j
<1>1. p \in Nat /\ q \in Nat
  <2>1. PICK S : phases \in Seq(S)
    BY DEF IsSequence
  <2> QED
    BY <2>1
<1>2. ASSUME p < q PROVE FALSE
  <2>1. KeyOf(phases[p], phases[p].steps[i]) \in Earlier(phases, q)
    BY <1>2 DEF Earlier, Keys
  <2> QED
    BY <2>1 DEF First, Behind
<1>3. ASSUME q < p PROVE FALSE
  <2>1. KeyOf(phases[q], phases[q].steps[j]) \in Earlier(phases, p)
    BY <1>3 DEF Earlier, Keys
  <2> QED
    BY <2>1 DEF First, Behind
<1>4. p = q
  BY <1>1, <1>2, <1>3
<1> DEFINE ph == phases[p]
<1>5. i \in Nat /\ j \in Nat /\ j \in DOMAIN ph.steps
  <2>1. PICK S : ph.steps \in Seq(S)
    BY DEF IsSequence
  <2>2. i \in DOMAIN ph.steps /\ j \in DOMAIN ph.steps
    BY <1>4
  <2> HIDE DEF ph
  <2> QED
    BY <2>1, <2>2
<1>6. ph.steps[i].host = ph.steps[j].host /\ KeyOf(ph, ph.steps[i]) = KeyOf(ph, ph.steps[j])
  BY <1>4 DEF KeyOf
<1>7. ASSUME i < j PROVE FALSE
  <2>1. Precedes(ph, i, j)
    BY <1>6, <1>7 DEF Precedes
  <2>2. KeyOf(ph, ph.steps[i]) \in Behind(phases, p, j)
    BY <2>1 DEF Behind
  <2> QED
    BY <1>4, <1>6, <2>2 DEF First
<1>8. ASSUME j < i PROVE FALSE
  <2>1. Precedes(ph, j, i)
    BY <1>6, <1>8 DEF Precedes
  <2>2. KeyOf(ph, ph.steps[j]) \in Behind(phases, p, i)
    BY <1>5, <2>1 DEF Behind
  <2> QED
    BY <1>6, <2>2 DEF First
<1> QED
  BY <1>4, <1>5, <1>7, <1>8

\* After writes that leave it, what the record has as done still holds.
LEMMA StillFulfilled ==
    ASSUME NEW d \in DOMAIN Documents, Loaded[d].refused = {}, Fulfilled(d),
           NEW ws, IsSequence(ws), \A x \in ToSet(ws) : Borne(d, x), world' = Through(world, ws)
    PROVE  LET s == Loaded[d].spec
               m == resolveMaterial(s)
               c == s.topology.servers[1].host
               phases == Loaded[d].phases IN
           /\ \A p \in DOMAIN phases : \A i \in DOMAIN phases[p].steps :
                 First(phases, p, i) /\ KeyOf(phases[p], phases[p].steps[i]) \in record =>
                     /\ Holds(phases[p].steps[i], world') \/ (rerendered /\ OfCilium(phases[p].steps[i]))
                     /\ Behind(phases, p, i) \subseteq record
           /\ \A id \in Joining, h \in Machines :
                 ConfiguredKey(id, h) \in record =>
                     Is(world', <<h, "config.yaml">>, Says(s, m, <<h, "config.yaml">>))
           /\ ValuesKey(c) \in record => Is(world', Values(c), Says(s, m, Values(c)))
           /\ AppliedKey(c) \in record =>
                 ValuesKey(c) \in record /\ (rerendered \/ Holds(CiliumAppliedStep(c, s), world'))
<1> DEFINE s == Loaded[d].spec
           m == resolveMaterial(s)
           c == s.topology.servers[1].host
           phases == Loaded[d].phases
<1>1. AllTold(phases, s, m, c) /\ c \in Machines
  BY PhasesTold, PhasesSound
<1>2. \A x \in ToSet(ws) : /\ Faithful(s, m, x) /\ Fit(x, Machines) /\ x.drop \subseteq Forgotten(world)
                           /\ Calm(x) \/ AppliedKey(c) \notin record \/ rerendered
  BY DEF Borne
<1>3. /\ \A p \in DOMAIN phases : \A i \in DOMAIN phases[p].steps :
            First(phases, p, i) /\ KeyOf(phases[p], phases[p].steps[i]) \in record =>
                /\ Holds(phases[p].steps[i], world) \/ (rerendered /\ OfCilium(phases[p].steps[i]))
                /\ Behind(phases, p, i) \subseteq record
      /\ \A id \in Joining, h \in Machines :
            ConfiguredKey(id, h) \in record =>
                Is(world, <<h, "config.yaml">>, Says(s, m, <<h, "config.yaml">>))
      /\ ValuesKey(c) \in record => Is(world, Values(c), Says(s, m, Values(c)))
      /\ AppliedKey(c) \in record =>
            ValuesKey(c) \in record /\ (rerendered \/ Holds(CiliumAppliedStep(c, s), world))
  BY DEF Fulfilled
<1>4. c = s.topology.servers[1].host
  OBVIOUS
<1> HIDE DEF s, m, c, phases
<1>5. \A h : Values(h) \notin Forgotten(world) /\ <<h, "config.yaml">> \notin Forgotten(world)
  BY DEF Values, Forgotten
<1>6. ASSUME NEW e, NEW id, Told(e, s, m, id, c), Holds(e, world), ConfigSaid(e, s, m, world),
             CiliumPair \in e.agrees => AppliedKey(c) \in record /\ ~rerendered
      PROVE  Holds(e, world')
  <2>1. Looked(e) \cap Forgotten(world) = {}
    BY <1>6, NotForgotten
  <2>2. \A x \in ToSet(ws) : Bears(e, s, m, x)
    BY <1>2, <1>5, <1>6, <2>1 DEF Bears
  <2> QED
    BY <1>4, <1>6, <2>2, ThroughKeeps
<1>7. ASSUME NEW p \in DOMAIN phases, NEW i \in DOMAIN phases[p].steps,
             First(phases, p, i), KeyOf(phases[p], phases[p].steps[i]) \in record
      PROVE  /\ Holds(phases[p].steps[i], world') \/ (rerendered /\ OfCilium(phases[p].steps[i]))
             /\ Behind(phases, p, i) \subseteq record
  <2> DEFINE e == phases[p].steps[i]
             id == phases[p].id
  <2>1. /\ Holds(e, world) \/ (rerendered /\ OfCilium(e))
        /\ Behind(phases, p, i) \subseteq record
    BY <1>3, <1>7
  <2>2. Told(e, s, m, id, c) /\ Rests(phases, c, p, i)
    BY <1>1 DEF AllTold
  <2>3. ASSUME ProcessPair(e.host) \in e.agrees
        PROVE  Is(world, <<e.host, "config.yaml">>, Says(s, m, <<e.host, "config.yaml">>))
    <3>1. e.host \in Machines
      BY <2>2 DEF Told
    <3>2. id \in Joining
      BY <2>2, <2>3, <3>1, PairPlaces DEF Told
    <3>3. ConfiguredKey(id, e.host) \in record
      BY <2>1, <2>2, <2>3 DEF Rests
    <3> QED
      BY <1>3, <3>1, <3>2, <3>3
  <2>4. CiliumPair \in e.agrees => AppliedKey(c) \in record
    BY <2>1, <2>2 DEF Rests
  <2>5. ASSUME e.carries # {} PROVE Is(world, Values(e.host), Says(s, m, Values(e.host)))
    <3>1. ValuesKey(c) \in record
      BY <2>1, <2>2, <2>5 DEF Rests
    <3>2. e.host = c
      <4>1. e = CiliumAppliedStep(c, s)
        BY <2>2, <2>5 DEF Told, Proper
      <4> HIDE DEF e
      <4> QED
        BY <4>1, AppliedIs
    <3> QED
      BY <1>3, <3>1, <3>2
  <2>6. ConfigSaid(e, s, m, world)
    BY <2>3, <2>5 DEF ConfigSaid
  <2> HIDE DEF e, id
  <2>7. CASE rerendered /\ OfCilium(e)
    BY <2>1, <2>7 DEF e
  <2>8. CASE ~(rerendered /\ OfCilium(e))
    <3>1. Holds(e, world')
      BY <1>6, <2>1, <2>2, <2>4, <2>6, <2>8 DEF OfCilium
    <3> QED
      BY <2>1, <3>1 DEF e
  <2> QED
    BY <2>7, <2>8
<1>8. ASSUME NEW l, Asked(l), l \notin Forgotten(world), Is(world, l, Says(s, m, l))
      PROVE  Is(world', l, Says(s, m, l))
  <2>1. \A x \in ToSet(ws) : Faithful(s, m, x) /\ l \notin x.drop
    BY <1>2, <1>8
  <2> QED
    BY <1>8, <2>1, ThroughSays
<1>9. ASSUME NEW id \in Joining, NEW h \in Machines, ConfiguredKey(id, h) \in record
      PROVE  Is(world', <<h, "config.yaml">>, Says(s, m, <<h, "config.yaml">>))
  BY <1>3, <1>5, <1>8, <1>9, PairPlaces
<1>10. ASSUME ValuesKey(c) \in record PROVE Is(world', Values(c), Says(s, m, Values(c)))
  BY <1>1, <1>3, <1>5, <1>8, <1>10, ValuesSay
<1>11. ASSUME AppliedKey(c) \in record
       PROVE  ValuesKey(c) \in record /\ (rerendered \/ Holds(CiliumAppliedStep(c, s), world'))
  <2> DEFINE e == CiliumAppliedStep(c, s)
  <2>1. ValuesKey(c) \in record /\ (rerendered \/ Holds(e, world))
    BY <1>3, <1>11
  <2>2. Told(e, s, m, "l2-dataplane", c)
    BY <1>1, <1>4, AppliedTold
  <2>3. e.host = c /\ e.agrees = {}
    BY AppliedIs
  <2> HIDE DEF e
  <2>4. ConfigSaid(e, s, m, world)
    BY <1>3, <2>1, <2>3 DEF ConfigSaid
  <2>5. rerendered \/ Holds(e, world')
    BY <1>6, <2>1, <2>2, <2>3, <2>4
  <2> QED
    BY <2>1, <2>5 DEF e
<1> QED
  BY <1>7, <1>9, <1>10, <1>11 DEF s, m, c, phases

\* So it does when nothing more is recorded,
LEMMA SameRecord ==
    ASSUME NEW d \in DOMAIN Documents, Loaded[d].refused = {}, Fulfilled(d),
           NEW ws, IsSequence(ws), \A x \in ToSet(ws) : Borne(d, x), world' = Through(world, ws),
           record' = record, rerendered' = rerendered
    PROVE  Fulfilled(d)'
  BY StillFulfilled DEF Fulfilled

\* and when the step that is recorded holds.
LEMMA OneMoreRecorded ==
    ASSUME NEW d \in DOMAIN Documents, Loaded[d].refused = {}, Fulfilled(d),
           NEW ws, IsSequence(ws), \A x \in ToSet(ws) : Borne(d, x), world' = Through(world, ws),
           NEW p \in DOMAIN Loaded[d].phases, NEW i \in DOMAIN Loaded[d].phases[p].steps,
           KeyOf(Loaded[d].phases[p], Loaded[d].phases[p].steps[i]) \notin record,
           Behind(Loaded[d].phases, p, i) \subseteq record,
           Holds(Loaded[d].phases[p].steps[i], world'),
           record' = record \cup {KeyOf(Loaded[d].phases[p], Loaded[d].phases[p].steps[i])},
           rerendered' = rerendered
    PROVE  Fulfilled(d)'
<1> DEFINE s == Loaded[d].spec
           m == resolveMaterial(s)
           c == s.topology.servers[1].host
           phases == Loaded[d].phases
           e == phases[p].steps[i]
           key == KeyOf(phases[p], e)
<1>1. Told(e, s, m, phases[p].id, c) /\ Rests(phases, c, p, i)
  BY PhasesTold DEF AllTold
<1>2. IsSequence(phases) /\ \A q \in DOMAIN phases : IsSequence(phases[q].steps)
  BY PhasesSound DEF Sound
<1>3. First(phases, p, i)
  BY DEF First
<1>4. /\ \A q \in DOMAIN phases : \A j \in DOMAIN phases[q].steps :
            First(phases, q, j) /\ KeyOf(phases[q], phases[q].steps[j]) \in record =>
                /\ Holds(phases[q].steps[j], world') \/ (rerendered /\ OfCilium(phases[q].steps[j]))
                /\ Behind(phases, q, j) \subseteq record
      /\ \A id \in Joining, h \in Machines :
            ConfiguredKey(id, h) \in record =>
                Is(world', <<h, "config.yaml">>, Says(s, m, <<h, "config.yaml">>))
      /\ ValuesKey(c) \in record => Is(world', Values(c), Says(s, m, Values(c)))
      /\ AppliedKey(c) \in record =>
            ValuesKey(c) \in record /\ (rerendered \/ Holds(CiliumAppliedStep(c, s), world'))
  BY StillFulfilled
<1>5. /\ key \notin record /\ record' = record \cup {key} /\ Holds(e, world') /\ Behind(phases, p, i) \subseteq record
      /\ p \in DOMAIN phases /\ i \in DOMAIN phases[p].steps
  OBVIOUS
<1>6. key = <<phases[p].id, e.host, e.id>>
  BY DEF KeyOf
<1> HIDE DEF s, m, c, phases, key
<1>7. ASSUME NEW q \in DOMAIN phases, NEW j \in DOMAIN phases[q].steps, First(phases, q, j),
             KeyOf(phases[q], phases[q].steps[j]) \in record'
      PROVE  /\ Holds(phases[q].steps[j], world') \/ (rerendered /\ OfCilium(phases[q].steps[j]))
             /\ Behind(phases, q, j) \subseteq record'
  <2>1. CASE KeyOf(phases[q], phases[q].steps[j]) \in record
    BY <1>4, <1>5, <1>7, <2>1
  <2>2. CASE KeyOf(phases[q], phases[q].steps[j]) = key
    <3>1. p = q /\ i = j
      BY <1>2, <1>3, <1>5, <1>7, <2>2, SameFirst DEF key
    <3> QED
      BY <1>5, <3>1
  <2> QED
    BY <1>5, <1>7, <2>1, <2>2
<1>8. ASSUME NEW id \in Joining, NEW h \in Machines, ConfiguredKey(id, h) \in record'
      PROVE  Is(world', <<h, "config.yaml">>, Says(s, m, <<h, "config.yaml">>))
  <2>1. CASE ConfiguredKey(id, h) \in record
    BY <1>4, <2>1
  <2>2. CASE ConfiguredKey(id, h) = key
    <3>1. phases[p].id = id /\ e.host = h /\ e.id = "config"
      BY <1>6, <2>2 DEF ConfiguredKey
    <3>2. <<<<h, "config.yaml">>, Says(s, m, <<h, "config.yaml">>)>> \in e.finds
      BY <1>1, <3>1 DEF Told, Proper
    <3> HIDE DEF e
    <3> QED
      BY <1>5, <3>2 DEF Holds
  <2> QED
    BY <1>5, <1>8, <2>1, <2>2
<1>9. ASSUME ValuesKey(c) \in record' PROVE Is(world', Values(c), Says(s, m, Values(c)))
  <2>1. CASE ValuesKey(c) \in record
    BY <1>4, <2>1
  <2>2. CASE ValuesKey(c) = key
    <3>1. <<Values(c), Says(s, m, Values(c))>> \in e.finds
      BY <1>1, <1>6, <2>2 DEF Told, Proper
    <3> HIDE DEF e
    <3> QED
      BY <1>5, <3>1 DEF Holds
  <2> QED
    BY <1>5, <1>9, <2>1, <2>2
<1>10. ASSUME AppliedKey(c) \in record'
       PROVE  ValuesKey(c) \in record' /\ (rerendered \/ Holds(CiliumAppliedStep(c, s), world'))
  <2>1. CASE AppliedKey(c) \in record
    BY <1>4, <1>5, <2>1
  <2>2. CASE AppliedKey(c) = key
    <3>1. e = CiliumAppliedStep(c, s)
      BY <1>1, <1>6, <2>2 DEF Told, Proper
    <3>2. e.carries # {}
      <4> DEFINE part == <<Settings, CiliumKeys(CiliumHelmConfig(s))>>
      <4> HIDE DEF e
      <4>1. e.carries = {part}
        BY <3>1, AppliedIs
      <4> HIDE DEF part
      <4> QED
        BY <4>1
    <3>3. ValuesKey(c) \in record
      BY <1>1, <1>5, <3>2 DEF Rests
    <3> HIDE DEF e
    <3> QED
      BY <1>5, <3>1, <3>3
  <2> QED
    BY <1>5, <1>10, <2>1, <2>2
<1> QED
  BY <1>7, <1>8, <1>9, <1>10 DEF Fulfilled, s, m, c, phases

-----------------------------------------------------------------------------
(* What becomes of the record.                                             *)

RecordInv == BuildInv /\ RecordTrue

\* A run of one document has recorded all that its document puts before the step that is
\* worked on.
LEMMA WorkBehind ==
    ASSUME BuildInv, ranWith = {doc}, NEW ph \in Current, NEW i \in Active(ph)
    PROVE  /\ i \in DOMAIN Loaded[doc].phases[phase].steps
           /\ Behind(Loaded[doc].phases, phase, i) \subseteq record
<1> DEFINE phases == Loaded[doc].phases
<1>1. phase \in DOMAIN phases /\ ph = phases[phase] /\ command = "building"
  BY CurrentSound, CurrentPhase
<1>2. /\ Covered(phases, phase)
      /\ \A j \in progress : KeyOf(ph, ph.steps[j]) \in record
  BY <1>1 DEF BuildInv, Course
<1>3. /\ i \in DOMAIN ph.steps
      /\ \A j \in DOMAIN ph.steps : Precedes(ph, j, i) => j \in progress
  BY DEF Active, Left
<1> HIDE DEF phases
<1>4. Earlier(phases, phase) \subseteq record
  BY <1>2 DEF Covered, Earlier
<1>5. Behind(phases, phase, i) \subseteq record
  BY <1>1, <1>2, <1>3, <1>4 DEF Behind
<1> QED
  BY <1>1, <1>3, <1>5 DEF phases

\* What a step writes that does not hold leaves what the record has as done.
LEMMA WorkBorne ==
    ASSUME BuildInv, Fulfilled(doc), NEW ph \in Current, NEW i \in DOMAIN ph.steps,
           ~Holds(ph.steps[i], world)
    PROVE  IsSequence(ph.steps[i].writes) /\ \A x \in ToSet(ph.steps[i].writes) : Borne(doc, x)
<1> DEFINE phases == Loaded[doc].phases
           s == Loaded[doc].spec
           m == resolveMaterial(s)
           c == s.topology.servers[1].host
           e == ph.steps[i]
<1>1. /\ doc \in DOMAIN Documents /\ Loaded[doc].refused = {}
      /\ phase \in DOMAIN phases /\ ph = phases[phase]
      /\ c \in Machines /\ Sound(phases, c)
  BY CurrentSound
<1>2. AllTold(phases, s, m, c)
  BY <1>1, PhasesTold
<1>3. \A x : /\ Faithful(s, m, x) /\ Fit(x, Machines) /\ x.drop \subseteq Forgotten(world)
             /\ Calm(x) \/ AppliedKey(c) \notin record \/ rerendered
             => Borne(doc, x)
  BY DEF Borne
<1>4. AppliedKey(c) \in record => rerendered \/ Holds(CiliumAppliedStep(c, s), world)
  BY DEF Fulfilled
<1> HIDE DEF phases, s, m, c
<1>5. Told(e, s, m, ph.id, c)
  BY <1>1, <1>2 DEF AllTold
<1>6. FitStep(e, Machines)
  <2>1. FitStep(e, {}) \/ FitStep(e, {c})
    BY <1>1 DEF Sound
  <2>2. {} \subseteq Machines /\ {c} \subseteq Machines
    BY <1>1
  <2> QED
    BY <2>1, <2>2, FitMore
<1>7. ~Holds(e, world)
  OBVIOUS
<1> HIDE DEF e
<1>8. <<ph.id, e.host, e.id>> = AppliedKey(c) => AppliedKey(c) \notin record \/ rerendered
  BY <1>4, <1>5, <1>7 DEF Told, Proper
<1>9. IsSequence(e.writes) /\ \A x \in ToSet(e.writes) : Fit(x, Machines)
  BY <1>6 DEF FitStep, FitWrites
<1>10. \A x \in ToSet(e.writes) : /\ Faithful(s, m, x) /\ x.drop = {}
                                  /\ Calm(x) \/ AppliedKey(c) \notin record \/ rerendered
  BY <1>5, <1>8 DEF Told
<1>11. \A x \in ToSet(e.writes) : Borne(doc, x)
  BY <1>3, <1>9, <1>10
<1> QED
  BY <1>9, <1>11 DEF e

\* No writes change nothing.
LEMMA ThroughNothing == ASSUME NEW w PROVE Through(w, <<>>) = w
<1>1. Len(<<>>) = 0
  OBVIOUS
<1>2. PICK f : f[0] = w /\ Through(w, <<>>) = f[Len(<<>>)]
  BY <1>1, ThroughGoesOn
<1> QED
  BY <1>1, <1>2

\* A run that is worked on with one document.
LEMMA OneDocument ==
    ASSUME BuildInv, RecordTrue, command = "building", NEW d \in DOMAIN Documents, ranWith = {d}
    PROVE  d = doc /\ Loaded[d].refused = {} /\ Fulfilled(d)
  BY DEF BuildInv, Types, RecordTrue

\* The first part of what is borne.
LEMMA FewerBorne ==
    ASSUME NEW ws, NEW d, IsSequence(ws), \A x \in ToSet(ws) : Borne(d, x), NEW n \in Nat, n <= Len(ws)
    PROVE  IsSequence(SubSeq(ws, 1, n)) /\ \A x \in ToSet(SubSeq(ws, 1, n)) : Borne(d, x)
<1>1. PICK S : ws \in Seq(S)
  BY DEF IsSequence
<1>2. \A i \in 1..Len(ws) : Borne(d, ws[i])
  BY <1>1 DEF ToSet
<1> DEFINE part == SubSeq(ws, 1, n)
<1>3. /\ part \in Seq(S) /\ Len(part) = n
      /\ \A i \in 1..n : part[i] = ws[i]
  BY <1>1
<1> HIDE DEF part
<1>4. \A i \in DOMAIN part : Borne(d, part[i])
  BY <1>1, <1>2, <1>3
<1> QED
  BY <1>3, <1>4 DEF IsSequence, ToSet, part

\* What is left as it is stays true of the record.
LEMMA UntouchedTrue ==
    ASSUME RecordTrue, world' = world, record' = record, ranWith' = ranWith, rerendered' = rerendered
    PROVE  RecordTrue'
  BY DEF RecordTrue, Fulfilled

\* A step that is settled is recorded, once, and what it wrote is borne.
LEMMA SettledTrue ==
    ASSUME BuildInv, RecordTrue, NEW ph \in Current, NEW i \in Active(ph),
           NEW d, d = doc, ranWith = {doc}, Settle(ph, i),
           NEW ws, IsSequence(ws), \A x \in ToSet(ws) : Borne(d, x), world' = Through(world, ws),
           KeyOf(ph, ph.steps[i]) \in record \/ Holds(ph.steps[i], world')
    PROVE  Fulfilled(d)'
<1> DEFINE phases == Loaded[d].phases
           key == KeyOf(phases[phase], phases[phase].steps[i])
<1>1. /\ d \in DOMAIN Documents /\ Loaded[d].refused = {}
      /\ phase \in DOMAIN phases /\ ph = phases[phase] /\ command = "building"
  BY CurrentSound, CurrentPhase
<1>2. Fulfilled(d)
  BY <1>1, OneDocument
<1>3. i \in DOMAIN phases[phase].steps /\ Behind(phases, phase, i) \subseteq record
  BY WorkBehind
<1>4. record' = record \cup {key} /\ rerendered' = rerendered
  BY <1>1 DEF Settle
<1>5. key \in record \/ Holds(phases[phase].steps[i], world')
  BY <1>1
<1>6. CASE key \in record
  <2>1. record' = record
    BY <1>4, <1>6
  <2> QED
    BY <1>1, <1>2, <1>4, <2>1, SameRecord
<1>7. CASE key \notin record
  BY <1>1, <1>2, <1>3, <1>4, <1>5, <1>7, OneMoreRecorded
<1> QED
  BY <1>6, <1>7

\* A step that is skipped, seen, applied or applied in part leaves the record true.
LEMMA WorkStaysTrue ==
    ASSUME RecordInv, Work
    PROVE  RecordTrue'
<1>0. BuildInv /\ RecordTrue
  BY DEF RecordInv
<1>1. PICK ph \in Current :
          \/ Pass(ph) \/ Leave(ph)
          \/ \E i \in Active(ph) : Skip(ph, i) \/ Observe(ph, i) \/ Apply(ph, i) \/ Fail(ph, i)
  BY DEF Work
<1>2. CASE Pass(ph) \/ Leave(ph)
  <2>1. world' = world /\ record' = record /\ ranWith' = ranWith /\ rerendered' = rerendered
    BY <1>2 DEF Pass, Leave
  <2> QED
    BY <1>0, <2>1, UntouchedTrue
<1>3. ASSUME NEW i \in Active(ph), Skip(ph, i) \/ Observe(ph, i) \/ Apply(ph, i) \/ Fail(ph, i)
      PROVE  RecordTrue'
  <2> DEFINE step == ph.steps[i]
  <2>1. ranWith' = ranWith /\ command = "building"
    BY <1>3, CurrentPhase DEF Skip, Observe, Apply, Fail, Settle
  <2>2. i \in DOMAIN ph.steps
    BY DEF Active, Left
  <2> SUFFICES ASSUME NEW d \in DOMAIN Documents, ranWith' = {d}
               PROVE  Loaded[d].refused = {} /\ Fulfilled(d)'
    BY DEF RecordTrue
  <2>3. d = doc /\ ranWith = {doc} /\ Loaded[d].refused = {} /\ Fulfilled(d)
    BY <1>0, <2>1, OneDocument
  <2>4. ~Holds(step, world) => IsSequence(step.writes) /\ \A x \in ToSet(step.writes) : Borne(d, x)
    BY <1>0, <2>2, <2>3, WorkBorne
  <2>5. CASE Skip(ph, i) \/ Observe(ph, i)
    <3> DEFINE ws == <<>>
    <3>1. /\ world' = world /\ Settle(ph, i)
          /\ KeyOf(ph, ph.steps[i]) \in record \/ Holds(ph.steps[i], world')
      BY <2>5 DEF Skip, Observe, Known
    <3>2. IsSequence(ws) /\ \A x \in ToSet(ws) : Borne(d, x)
      BY TupleHolds
    <3>3. world' = Through(world, ws)
      BY <3>1, ThroughNothing
    <3> HIDE DEF ws
    <3> QED
      BY <1>0, <2>3, <3>1, <3>2, <3>3, SettledTrue
  <2>6. CASE Apply(ph, i)
    <3> DEFINE ws == step.writes
    <3>1. /\ world' = Through(world, ws) /\ Settle(ph, i) /\ ~Holds(step, world)
          /\ Holds(ph.steps[i], world')
      BY <2>6 DEF Apply, Works, Done
    <3>2. IsSequence(ws) /\ \A x \in ToSet(ws) : Borne(d, x)
      BY <2>4, <3>1
    <3> HIDE DEF ws
    <3> QED
      BY <1>0, <2>3, <3>1, <3>2, SettledTrue
  <2>7. CASE Fail(ph, i)
    <3>1. PICK n \in StopsAt(step) : world' = Through(world, SubSeq(step.writes, 1, n))
      BY <2>7 DEF Fail, Partly
    <3>2. record' = record /\ rerendered' = rerendered /\ ~Holds(step, world)
      BY <2>7 DEF Fail
    <3> DEFINE ws == SubSeq(step.writes, 1, n)
    <3>3. IsSequence(ws) /\ \A x \in ToSet(ws) : Borne(d, x)
      <4>1. n \in Nat /\ n <= Len(step.writes)
        BY <2>4, <3>1, <3>2, StopsWithin
      <4> QED
        BY <2>4, <3>2, <4>1, FewerBorne
    <3>4. world' = Through(world, ws)
      BY <3>1
    <3> HIDE DEF ws
    <3> QED
      BY <2>3, <3>2, <3>3, <3>4, SameRecord
  <2> QED
    BY <1>3, <2>3, <2>5, <2>6, <2>7
<1> QED
  BY <1>1, <1>2, <1>3

\* So does a command that is killed (ShellStep.Apply).
LEMMA KillStaysTrue ==
    ASSUME RecordInv, Kill
    PROVE  RecordTrue'
<1>0. BuildInv /\ RecordTrue
  BY DEF RecordInv
<1>1. PICK ph \in Current : \E parts : KilledAt(ph, parts)
  BY <1>0, KilledThrough
<1>2. PICK parts : KilledAt(ph, parts)
  BY <1>1
<1>3. /\ IsSequence(parts) /\ world' = Through(world, FlattenSeq(parts))
      /\ \A q \in ToSet(parts) :
            q = <<>> \/ \E i \in Busy(ph), n \in Nat :
                          /\ n <= Len(WritesOf(ph.steps[i]))
                          /\ q = SubSeq(WritesOf(ph.steps[i]), 1, n)
  BY <1>2 DEF KilledAt
<1>4. ranWith' = ranWith /\ record' = record /\ rerendered' = rerendered
  BY <1>0, KilledThrough
<1>5. command = "building"
  BY <1>1, CurrentPhase
<1> SUFFICES ASSUME NEW d \in DOMAIN Documents, ranWith' = {d}
             PROVE  Loaded[d].refused = {} /\ Fulfilled(d)'
  BY DEF RecordTrue
<1>6. d = doc /\ Loaded[d].refused = {} /\ Fulfilled(d)
  BY <1>0, <1>4, <1>5, OneDocument
<1> DEFINE W(i) == WritesOf(ph.steps[i])
<1>7. ASSUME NEW i \in Busy(ph) PROVE IsSequence(W(i)) /\ \A x \in ToSet(W(i)) : Borne(d, x)
  <2>1. i \in DOMAIN ph.steps
    BY <1>7 DEF Busy, Active, Left
  <2>2. CASE W(i) = <<>>
    BY <2>2, TupleHolds
  <2>3. CASE W(i) = ph.steps[i].writes /\ ~Holds(ph.steps[i], world)
    BY <1>0, <1>1, <1>6, <2>1, <2>3, WorkBorne
  <2> QED
    BY <2>2, <2>3 DEF WritesOf
<1> HIDE DEF W
<1>8. ASSUME NEW q \in ToSet(parts) PROVE IsSequence(q) /\ \A x \in ToSet(q) : Borne(d, x)
  <2>1. CASE q = <<>>
    BY <2>1, TupleHolds
  <2>2. ASSUME NEW i \in Busy(ph), NEW n \in Nat, n <= Len(W(i)), q = SubSeq(W(i), 1, n)
        PROVE  IsSequence(q) /\ \A x \in ToSet(q) : Borne(d, x)
    BY <1>7, <2>2, FewerBorne
  <2> QED
    BY <1>3, <2>1, <2>2 DEF W
<1> DEFINE ws == FlattenSeq(parts)
<1>9. IsSequence(ws) /\ \A x \in ToSet(ws) : Borne(d, x)
  BY <1>3, <1>8, FlattenedHolds
<1>10. world' = Through(world, ws)
  BY <1>3
<1> HIDE DEF ws
<1>11. Fulfilled(d)'
  BY <1>4, <1>6, <1>9, <1>10, SameRecord
<1> QED
  BY <1>6, <1>11

\* Nor does a machine that starts again: what it forgets no Check that holds looks at.
LEMMA RebootStaysTrue ==
    ASSUME RecordInv, NEW h \in Machines, Reboot(h)
    PROVE  RecordTrue'
<1> DEFINE starts == When(<<h, "process.config">> \in DOMAIN world, <<StartWrites(h)>>)
           swap == When(<<h, "fstab">> \notin DOMAIN world, <<Drop(<<h, "swap">>)>>)
           kernel == When(<<h, "modules-load.d">> \notin DOMAIN world, <<Drop(<<h, "modules">>)>>)
           boots == starts \o swap \o kernel
<1>1. /\ world' = Through(world, boots)
      /\ record' = record /\ ranWith' = ranWith /\ rerendered' = rerendered
  BY DEF Reboot
<1>2. ASSUME NEW d \in DOMAIN Documents, ranWith' = {d} PROVE Loaded[d].refused = {} /\ Fulfilled(d)'
  <2>1. Loaded[d].refused = {} /\ Fulfilled(d)
    BY <1>1, <1>2 DEF RecordInv, RecordTrue
  <2> DEFINE All(q) == IsSequence(q) /\ \A x \in ToSet(q) : Borne(d, x)
             s == Loaded[d].spec
             m == resolveMaterial(s)
  <2>2. Borne(d, StartWrites(h))
    <3>1. \A K : PlainWrite(s, m, K, StartWrites(h))
      BY StartPlain
    <3>2. \A K : Bearable(s, m, K, StartWrites(h))
      BY <3>1, PlainBearable
    <3>3. Fit(StartWrites(h), Machines)
      <4>1. Fit(StartWrites(h), {})
        BY StartFits
      <4> QED
        BY <4>1, FitMore
    <3> QED
      BY <3>2, <3>3 DEF Bearable, Borne
  <2>3. ASSUME NEW name, <<h, name>> \in Forgotten(world), name # "config.yaml"
        PROVE  Borne(d, Drop(<<h, name>>))
    <3> DEFINE x == Drop(<<h, name>>)
    <3>1. /\ x.put = <<>> /\ x.read = <<>> /\ x.keep = <<>> /\ x.drop = {<<h, name>>}
          /\ DOMAIN <<>> = {}
      BY DEF Drop, NoWrite
    <3> HIDE DEF x
    <3>2. Faithful(s, m, x) /\ Calm(x) /\ Fit(x, Machines) /\ x.drop \subseteq Forgotten(world)
      BY <2>3, <3>1 DEF Faithful, Calm, Fit, Touched
    <3> QED
      BY <3>2 DEF Borne, x
  <2>4. ASSUME NEW x, Borne(d, x) PROVE All(<<x>>)
    <3>1. IsSequence(<<x>>) /\ ToSet(<<x>>) = {x}
      BY TupleHolds
    <3> QED
      BY <2>4, <3>1
  <2>5. All(<<>>) /\ \A x, y : All(x) /\ All(y) => All(x \o y)
    BY TupleHolds, ConcatHolds
  <2> HIDE DEF All
  <2>6. All(starts)
    BY <2>2, <2>4, <2>5 DEF When
  <2>7. All(swap)
    <3>1. CASE <<h, "fstab">> \notin DOMAIN world
      <4>1. <<h, "swap">> \in Forgotten(world)
        BY <3>1 DEF Forgotten
      <4> QED
        BY <2>3, <2>4, <2>5, <4>1 DEF When
    <3> QED
      BY <2>5, <3>1 DEF When
  <2>8. All(kernel)
    <3>1. CASE <<h, "modules-load.d">> \notin DOMAIN world
      <4>1. <<h, "modules">> \in Forgotten(world)
        BY <3>1 DEF Forgotten
      <4> QED
        BY <2>3, <2>4, <2>5, <4>1 DEF When
    <3> QED
      BY <2>5, <3>1 DEF When
  <2> HIDE DEF starts, swap, kernel
  <2>9. All(boots)
    BY <2>5, <2>6, <2>7, <2>8
  <2> HIDE DEF boots
  <2>10. Fulfilled(d)'
    BY <1>1, <2>1, <2>9, SameRecord DEF All
  <2> QED
    BY <2>1, <2>10
<1> QED
  BY <1>2 DEF RecordTrue

\* Cilium's chart that is run again changes its configuration and nothing else: what is
\* recorded of other steps still holds, and what looked at it is noted.
LEMMA RenderStaysTrue ==
    ASSUME RecordInv, NEW h \in Machines, Render(h)
    PROVE  RecordTrue'
<1> DEFINE x == Rerun(h)
<1>1. /\ world' = Write(world, x)
      /\ record' = record /\ ranWith' = ranWith
      /\ rerendered \/ (\E key \in record : key[3] \in {"cilium-applied", "cilium-current"}) => rerendered'
  BY DEF Render
<1>2. DOMAIN x.put = {} /\ DOMAIN x.read = {Settings} /\ x.drop = {}
  <2>1. x.put = <<>> /\ x.read = Just(Settings, Values(h)) /\ x.drop = {} /\ DOMAIN <<>> = {}
    BY DEF Rerun, Copy, ReadAll, NoWrite, Settings, Values
  <2>2. DOMAIN Just(Settings, Values(h)) = {Settings}
    BY DEF Just
  <2> QED
    BY <2>1, <2>2
<1> HIDE DEF x
<1>3. \A l \in DOMAIN world : l \in DOMAIN world' /\ (l # Settings => world'[l] = world[l])
  BY <1>1, <1>2, WriteValue
<1>4. \A l, v : Asked(l) /\ Is(world, l, v) => Is(world', l, v)
  BY <1>3, PairPlaces DEF Is
<1> SUFFICES ASSUME NEW d \in DOMAIN Documents, ranWith' = {d}
             PROVE  Loaded[d].refused = {} /\ Fulfilled(d)'
  BY DEF RecordTrue
<1>5. Loaded[d].refused = {} /\ Fulfilled(d)
  BY <1>1 DEF RecordInv, RecordTrue
<1> DEFINE s == Loaded[d].spec
           m == resolveMaterial(s)
           c == s.topology.servers[1].host
           phases == Loaded[d].phases
<1>6. AllTold(phases, s, m, c) /\ c \in Machines
  BY <1>5, PhasesTold, PhasesSound
<1>7. /\ \A p \in DOMAIN phases : \A i \in DOMAIN phases[p].steps :
            First(phases, p, i) /\ KeyOf(phases[p], phases[p].steps[i]) \in record =>
                /\ Holds(phases[p].steps[i], world) \/ (rerendered /\ OfCilium(phases[p].steps[i]))
                /\ Behind(phases, p, i) \subseteq record
      /\ \A id \in Joining, g \in Machines :
            ConfiguredKey(id, g) \in record =>
                Is(world, <<g, "config.yaml">>, Says(s, m, <<g, "config.yaml">>))
      /\ ValuesKey(c) \in record => Is(world, Values(c), Says(s, m, Values(c)))
      /\ AppliedKey(c) \in record => ValuesKey(c) \in record
  BY <1>5 DEF Fulfilled
<1> HIDE DEF s, m, c, phases
<1>8. AppliedKey(c) \in record => rerendered'
  <2>1. AppliedKey(c)[3] = "cilium-applied"
    BY DEF AppliedKey
  <2> QED
    BY <1>1, <2>1
<1>9. ASSUME NEW p \in DOMAIN phases, NEW i \in DOMAIN phases[p].steps,
             First(phases, p, i), KeyOf(phases[p], phases[p].steps[i]) \in record
      PROVE  /\ Holds(phases[p].steps[i], world') \/ (rerendered' /\ OfCilium(phases[p].steps[i]))
             /\ Behind(phases, p, i) \subseteq record
  <2> DEFINE e == phases[p].steps[i]
             id == phases[p].id
  <2>1. /\ Holds(e, world) \/ (rerendered /\ OfCilium(e))
        /\ Behind(phases, p, i) \subseteq record
    BY <1>7, <1>9
  <2>2. Told(e, s, m, id, c) /\ Rests(phases, c, p, i)
    BY <1>6 DEF AllTold
  <2>3. ASSUME OfCilium(e) PROVE rerendered'
    <3>1. CASE CiliumPair \in e.agrees
      BY <1>8, <2>1, <2>2, <3>1 DEF Rests
    <3>2. CASE e.carries # {}
      <4>1. e = CiliumAppliedStep(c, s) /\ id = "l2-dataplane"
        BY <2>2, <3>2 DEF Told, Proper
      <4>2. KeyOf(phases[p], e) = <<id, e.host, e.id>>
        BY DEF KeyOf
      <4>3. KeyOf(phases[p], e) \in record
        BY <1>9
      <4> HIDE DEF e, id
      <4>4. <<id, e.host, e.id>> = AppliedKey(c)
        BY <4>1, AppliedIs DEF AppliedKey
      <4> QED
        BY <1>8, <4>2, <4>3, <4>4
    <3> QED
      BY <2>3, <3>1, <3>2 DEF OfCilium
  <2> HIDE DEF e, id
  <2>4. ASSUME ~OfCilium(e) PROVE Holds(e, world')
    <3>1. Holds(e, world) /\ e.carries = {} /\ CiliumPair \notin e.agrees
      BY <2>1, <2>4 DEF OfCilium
    <3>2. \A q \in e.finds : Is(world', q[1], q[2])
      BY <1>4, <2>2, <3>1 DEF Holds, Told
    <3>3. ASSUME NEW q \in e.agrees
          PROVE  q[1] \in DOMAIN world' /\ q[2] \in DOMAIN world' /\ world'[q[1]] = world'[q[2]]
      <4>1. e.host \in Machines /\ q = ProcessPair(e.host)
        BY <2>2, <3>1 DEF Told
      <4>2. q[1] # Settings /\ q[2] # Settings
        <5>1. e.host # "cluster"
          BY <4>1, NamesAssumption
        <5> QED
          BY <4>1, <5>1 DEF ProcessPair, Settings, Object
      <4>3. q[1] \in DOMAIN world /\ q[2] \in DOMAIN world /\ world[q[1]] = world[q[2]]
        BY <3>1 DEF Holds
      <4> QED
        BY <1>3, <4>2, <4>3
    <3>4. e.present \subseteq DOMAIN world'
      BY <1>3, <3>1 DEF Holds
    <3> QED
      BY <3>1, <3>2, <3>3, <3>4 DEF Holds
  <2> QED
    BY <2>1, <2>3, <2>4 DEF e
<1>10. ASSUME NEW id \in Joining, NEW g \in Machines, ConfiguredKey(id, g) \in record
       PROVE  Is(world', <<g, "config.yaml">>, Says(s, m, <<g, "config.yaml">>))
  BY <1>4, <1>7, <1>10, PairPlaces
<1>11. ASSUME ValuesKey(c) \in record PROVE Is(world', Values(c), Says(s, m, Values(c)))
  BY <1>4, <1>6, <1>7, <1>11, ValuesSay
<1>12. Fulfilled(d)'
  BY <1>1, <1>7, <1>8, <1>9, <1>10, <1>11 DEF Fulfilled, s, m, c, phases
<1> QED
  BY <1>5, <1>12

\* A command that begins has its own record, or the one of the run it goes on with.
LEMMA BeginStaysTrue ==
    ASSUME RecordInv, NEW resume \in BOOLEAN, Begin(resume)
    PROVE  RecordTrue'
<1>1. PICK verdict \in {Verdict(Loaded[doc], world, TRUE)} : verdict.stops = {}
  BY DEF Begin
<1>2. doc \in DOMAIN Documents /\ rerendered \in BOOLEAN
  BY DEF RecordInv, BuildInv, Types
<1>3. Loaded[doc].refused = {}
  <2> DEFINE v == Verdict(Loaded[doc], world, TRUE)
             refused == Loaded[doc].refused
             Stopped == [plan |-> NoPlan, stops |-> refused]
  <2>1. v.stops = {}
    BY <1>1
  <2>2. refused # {} => v = Stopped
    BY DEF Verdict
  <2>3. Stopped.stops = refused
    OBVIOUS
  <2> HIDE DEF v, refused, Stopped
  <2>4. refused = {}
    BY <2>1, <2>2, <2>3
  <2> QED
    BY <2>4 DEF refused
<1>4. /\ world' = world
      /\ record' = IF resume THEN record ELSE {}
      /\ ranWith' = (IF resume THEN ranWith ELSE {}) \cup {doc}
      /\ resume => ranWith # {} /\ rerendered' = rerendered
  BY <1>2 DEF Begin
<1>5. ASSUME NEW d \in DOMAIN Documents, ranWith' = {d} PROVE Loaded[d].refused = {} /\ Fulfilled(d)'
  <2>1. d = doc
    BY <1>4, <1>5
  <2>2. CASE resume
    <3>1. ranWith = {d}
      BY <1>4, <1>5, <2>2
    <3>2. Fulfilled(d)
      BY <3>1 DEF RecordInv, RecordTrue
    <3>3. Fulfilled(d)'
      BY <1>4, <2>2, <3>2 DEF Fulfilled
    <3> QED
      BY <1>3, <2>1, <3>3
  <2>3. CASE ~resume
    <3>1. record' = {}
      BY <1>4, <2>3
    <3>2. Fulfilled(d)'
      BY <3>1 DEF Fulfilled
    <3> QED
      BY <1>3, <2>1, <3>2
  <2> QED
    BY <2>2, <2>3
<1> QED
  BY <1>5 DEF RecordTrue

\* At first nothing is recorded.
LEMMA RecordInit == Init => RecordInv
  BY BuildInit DEF Init, RecordInv, RecordTrue

\* Every step keeps the invariant.
LEMMA RecordStep == RecordInv /\ [Next]_vars => RecordInv'
<1> SUFFICES ASSUME RecordInv, [Next]_vars PROVE RecordInv'
  OBVIOUS
<1>0. BuildInv /\ RecordTrue
  BY DEF RecordInv
<1>1. BuildInv'
  BY <1>0, BuildStep
<1> SUFFICES RecordTrue'
  BY <1>1 DEF RecordInv
<1>2. ASSUME NEW approve \in BOOLEAN, Refuse(approve) PROVE RecordTrue'
  <2>1. world' = world /\ record' = record /\ ranWith' = ranWith /\ rerendered' = rerendered
    BY <1>2 DEF Refuse
  <2> QED
    BY <1>0, <2>1, UntouchedTrue
<1>3. ASSUME NEW resume \in BOOLEAN, Begin(resume) PROVE RecordTrue'
  BY <1>3, BeginStaysTrue
<1>4. CASE Work
  BY <1>4, WorkStaysTrue
<1>5. CASE Finish
  <2>1. world' = world /\ record' = record /\ ranWith' = ranWith /\ rerendered' = rerendered
    BY <1>5 DEF Finish
  <2> QED
    BY <1>0, <2>1, UntouchedTrue
<1>6. CASE Kill
  BY <1>6, KillStaysTrue
<1>7. ASSUME NEW h \in Machines, Reboot(h) PROVE RecordTrue'
  BY <1>7, RebootStaysTrue
<1>8. ASSUME NEW h \in Machines, Render(h) PROVE RecordTrue'
  BY <1>8, RenderStaysTrue
<1>9. ASSUME NEW d \in DOMAIN Documents, Edit(d) PROVE RecordTrue'
  <2>1. world' = world /\ record' = record /\ ranWith' = ranWith /\ rerendered' = rerendered
    BY <1>9 DEF Edit
  <2> QED
    BY <1>0, <2>1, UntouchedTrue
<1>10. CASE UNCHANGED vars
  <2>1. world' = world /\ record' = record /\ ranWith' = ranWith /\ rerendered' = rerendered
    BY <1>10 DEF vars
  <2> QED
    BY <1>0, <2>1, UntouchedTrue
<1> QED
  BY <1>2, <1>3, <1>4, <1>5, <1>6, <1>7, <1>8, <1>9, <1>10 DEF Next

\* The inductive invariant of the record (state.Record, ShellStep.Check): besides the
\* order of the build, what a run with one document has recorded holds on the machines,
\* but for what looks at Cilium's configuration once the cluster has made it anew.
THEOREM RecordInductive == Spec => []RecordInv
  BY RecordInit, RecordStep, PTL DEF Spec

\* The record does not lie by the program's own doing: whatever a run did after a step of
\* its document was recorded, however often it was killed and machines restarted, that
\* step's Check still succeeds, so that --resume, which looks at the record and not at
\* the machines, skips no work.  Two Checks are excepted, the ones that look at what the
\* cluster makes of Cilium's values (cilium-applied and cilium-current), and only when
\* the cluster ran Cilium's chart again after one of them was recorded.
THEOREM RecordHolds == Spec => []RecordTrue
<1>1. RecordInv => RecordTrue
  BY DEF RecordInv
<1> QED
  BY <1>1, RecordInductive, PTL

-----------------------------------------------------------------------------
(* Applying a document again, where no two of its steps share a key: two   *)
(* gateways of one name, in two namespaces say, have steps of the same.    *)

\* Then every step is the first of its key.
LEMMA KeysAreFirst ==
    ASSUME KeysDiffer, NEW d \in DOMAIN Documents, Loaded[d].refused = {},
           NEW p \in DOMAIN Loaded[d].phases, NEW i \in DOMAIN Loaded[d].phases[p].steps
    PROVE  First(Loaded[d].phases, p, i)
<1> DEFINE phases == Loaded[d].phases
           key == KeyOf(phases[p], phases[p].steps[i])
<1>1. p \in Nat /\ i \in Nat
  <2>1. IsSequence(phases) /\ IsSequence(phases[p].steps)
    BY PhasesSound DEF Sound
  <2>2. PICK S : phases \in Seq(S)
    BY <2>1 DEF IsSequence
  <2>3. PICK T : phases[p].steps \in Seq(T)
    BY <2>1 DEF IsSequence
  <2> QED
    BY <2>2, <2>3
<1>2. \A q \in DOMAIN phases : \A j \in DOMAIN phases[q].steps :
          KeyOf(phases[q], phases[q].steps[j]) = key => q = p /\ j = i
  BY DEF KeysDiffer
<1> HIDE DEF phases
<1>3. key \notin Earlier(phases, p)
  BY <1>1, <1>2 DEF Earlier, Keys
<1>4. ASSUME NEW j \in DOMAIN phases[p].steps, Precedes(phases[p], j, i) PROVE KeyOf(phases[p], phases[p].steps[j]) # key
  BY <1>1, <1>2, <1>4 DEF Precedes, phases
<1>5. key \notin Behind(phases, p, i)
  BY <1>3, <1>4 DEF Behind
<1> QED
  BY <1>5 DEF First, phases

\* What is left as it is stays quiet.
LEMMA StaysQuiet ==
    ASSUME Quiet, world' = world, doc' = doc, settled' = settled,
           settled => ranWith' = {doc} /\ ~rerendered'
    PROVE  Quiet'
  BY DEF Quiet

\* After a build no step is left to be applied,
LEMMA WorkIsQuiet ==
    ASSUME BuildInv, Quiet, Work
    PROVE  Quiet' /\ (settled => world' = world)
<1>1. PICK ph \in Current :
          \/ Pass(ph) \/ Leave(ph)
          \/ \E i \in Active(ph) : Skip(ph, i) \/ Observe(ph, i) \/ Apply(ph, i) \/ Fail(ph, i)
  BY DEF Work
<1>2. ph = Loaded[doc].phases[phase] /\ phase \in DOMAIN Loaded[doc].phases
  BY CurrentPhase
<1>3. doc' = doc /\ settled' = settled /\ ranWith' = ranWith /\ rerendered' = rerendered
  BY <1>1 DEF Pass, Leave, Skip, Observe, Apply, Fail, Settle
<1>4. settled => world' = world
  <2> SUFFICES ASSUME settled PROVE world' = world
    OBVIOUS
  <2>1. ASSUME NEW i \in Active(ph) PROVE ~Apply(ph, i) /\ ~Fail(ph, i)
    <3>1. i \in DOMAIN ph.steps
      BY DEF Active, Left
    <3>2. Holds(ph.steps[i], world)
      BY <1>2, <3>1 DEF Quiet
    <3> QED
      BY <3>2 DEF Apply, Fail
  <2> QED
    BY <1>1, <2>1 DEF Pass, Leave, Skip, Observe
<1>5. Quiet'
  <2>1. CASE settled
    BY <1>3, <1>4, <2>1, StaysQuiet DEF Quiet
  <2>2. CASE ~settled
    BY <1>3, <2>2 DEF Quiet
  <2> QED
    BY <2>1, <2>2
<1> QED
  BY <1>4, <1>5

\* nor to be killed in.
LEMMA KillIsQuiet ==
    ASSUME BuildInv, Quiet, Kill
    PROVE  Quiet' /\ (settled => world' = world)
<1>1. PICK ph \in Current : \E parts : KilledAt(ph, parts)
  BY KilledThrough
<1>2. PICK parts : KilledAt(ph, parts)
  BY <1>1
<1>3. doc' = doc /\ settled' = settled /\ ranWith' = ranWith /\ rerendered' = rerendered
  BY KilledThrough
<1>4. ph = Loaded[doc].phases[phase] /\ phase \in DOMAIN Loaded[doc].phases
  BY CurrentPhase
<1>5. ASSUME settled PROVE world' = world
  <2>1. ASSUME NEW i \in Busy(ph) PROVE WritesOf(ph.steps[i]) = <<>>
    <3>1. i \in DOMAIN ph.steps
      BY <2>1 DEF Busy, Active, Left
    <3>2. Holds(ph.steps[i], world)
      BY <1>4, <1>5, <3>1 DEF Quiet
    <3> QED
      BY <3>2 DEF WritesOf
  <2>2. ASSUME NEW q \in ToSet(parts) PROVE q = <<>>
    <3> SUFFICES ASSUME NEW i \in Busy(ph), NEW n \in Nat, n <= Len(WritesOf(ph.steps[i])),
                        q = SubSeq(WritesOf(ph.steps[i]), 1, n)
                 PROVE  q = <<>>
      BY <1>2, <2>2 DEF KilledAt
    <3>1. Len(<<>>) = 0 /\ SubSeq(<<>>, 1, 0) = <<>>
      OBVIOUS
    <3>2. n = 0
      BY <2>1, <3>1
    <3> QED
      BY <2>1, <3>1, <3>2
  <2>3. IsSequence(parts) /\ world' = Through(world, FlattenSeq(parts))
    BY <1>2 DEF KilledAt
  <2> DEFINE Q == {<<>>}
  <2>4. parts \in Seq(Q)
    <3>1. parts \in Seq(ToSet(parts)) /\ ToSet(parts) \subseteq Q
      BY <2>2, <2>3, SequenceOfItsOwn
    <3> DEFINE T == ToSet(parts)
    <3>2. T \subseteq Q => Seq(T) \subseteq Seq(Q)
      <4> HIDE DEF T, Q
      <4> QED
        OBVIOUS
    <3> QED
      BY <3>1, <3>2
  <2>5. <<>> \in Q /\ \A x, y \in Q : x \o y \in Q
    <3>1. <<>> \o <<>> = <<>>
      OBVIOUS
    <3> QED
      BY <3>1
  <2> HIDE DEF Q
  <2>6. FlattenSeq(parts) \in Q
    BY <2>4, <2>5, FlattenCloses
  <2> QED
    BY <2>3, <2>6, ThroughNothing DEF Q
<1>6. Quiet'
  <2>1. CASE settled
    BY <1>3, <1>5, <2>1, StaysQuiet DEF Quiet
  <2>2. CASE ~settled
    BY <1>3, <2>2 DEF Quiet
  <2> QED
    BY <2>1, <2>2
<1> QED
  BY <1>5, <1>6

\* A command of one document that comes to its end has every step on its record.
LEMMA FinishIsQuiet ==
    ASSUME KeysDiffer, RecordInv, Finish
    PROVE  Quiet'
<1>0. BuildInv /\ RecordTrue
  BY DEF RecordInv
<1>1. /\ command = "building" /\ Current = {}
      /\ world' = world /\ doc' = doc /\ ranWith' = ranWith /\ rerendered' = rerendered
      /\ settled' => ranWith = {doc} /\ ~rerendered
  BY DEF Finish
<1> SUFFICES ASSUME settled' PROVE Quiet'
  BY DEF Quiet
<1> DEFINE phases == Loaded[doc].phases
<1>2. doc \in DOMAIN Documents /\ Loaded[doc].refused = {} /\ Fulfilled(doc)
  BY <1>0, <1>1 DEF BuildInv, Types, RecordTrue
<1>3. \A p \in DOMAIN phases : p < phase
  BY <1>0, <1>1, NoPhaseLeft DEF BuildInv
<1>4. Covered(phases, phase)
  BY <1>0, <1>1 DEF BuildInv, Course
<1>5. \A p \in DOMAIN phases : \A i \in DOMAIN phases[p].steps :
         First(phases, p, i) /\ KeyOf(phases[p], phases[p].steps[i]) \in record =>
             Holds(phases[p].steps[i], world)
  BY <1>1, <1>2 DEF Fulfilled
<1>6. \A p \in DOMAIN phases : \A i \in DOMAIN phases[p].steps : First(phases, p, i)
  BY <1>2, KeysAreFirst
<1> HIDE DEF phases
<1>7. \A p \in DOMAIN phases : \A i \in DOMAIN phases[p].steps :
         KeyOf(phases[p], phases[p].steps[i]) \in record
  BY <1>1, <1>3, <1>4 DEF Covered, Keys
<1>8. \A p \in DOMAIN phases : \A i \in DOMAIN phases[p].steps : Holds(phases[p].steps[i], world)
  BY <1>5, <1>6, <1>7
<1> QED
  BY <1>1, <1>8 DEF Quiet, phases

\* None of a build that stays settled changes anything.
LEMMA QuietStep ==
    ASSUME KeysDiffer
    PROVE  RecordInv /\ Quiet /\ [Next]_vars => Quiet' /\ (settled /\ settled' => world' = world)
<1> SUFFICES ASSUME RecordInv, Quiet, [Next]_vars
             PROVE  Quiet' /\ (settled /\ settled' => world' = world)
  OBVIOUS
<1>0. BuildInv
  BY DEF RecordInv
<1> DEFINE Goal == Quiet' /\ (settled /\ settled' => world' = world)
<1> SUFFICES Goal
  OBVIOUS
<1>1. ASSUME NEW approve \in BOOLEAN, Refuse(approve) PROVE Goal
  <2>1. /\ world' = world /\ ranWith' = ranWith /\ doc' = doc /\ settled' = settled
        /\ rerendered' = rerendered
    BY <1>1 DEF Refuse
  <2> QED
    BY <2>1, StaysQuiet DEF Quiet
<1>2. ASSUME NEW resume \in BOOLEAN, Begin(resume) PROVE Goal
  <2>1. /\ world' = world /\ doc' = doc /\ settled' = settled
        /\ ranWith' = (IF resume THEN ranWith ELSE {}) \cup {doc}
        /\ rerendered' = (resume /\ rerendered)
    BY <1>2 DEF Begin
  <2>2. settled => ranWith' = {doc} /\ ~rerendered'
    BY <2>1 DEF Quiet
  <2> QED
    BY <2>1, <2>2, StaysQuiet
<1>3. CASE Work
  BY <1>0, <1>3, WorkIsQuiet
<1>4. CASE Finish
  <2>1. world' = world
    BY <1>4 DEF Finish
  <2> QED
    BY <1>4, <2>1, FinishIsQuiet
<1>5. CASE Kill
  BY <1>0, <1>5, KillIsQuiet
<1>6. ASSUME NEW h \in Machines, Reboot(h) \/ Render(h) PROVE Goal
  BY <1>6 DEF Reboot, Render, Quiet
<1>7. ASSUME NEW d \in DOMAIN Documents, Edit(d) PROVE Goal
  BY <1>7 DEF Edit, Quiet
<1>8. CASE UNCHANGED vars
  <2>1. /\ world' = world /\ ranWith' = ranWith /\ doc' = doc /\ settled' = settled
        /\ rerendered' = rerendered
    BY <1>8 DEF vars
  <2> QED
    BY <2>1, StaysQuiet DEF Quiet
<1> HIDE DEF Goal
<1> QED
  BY <1>1, <1>2, <1>3, <1>4, <1>5, <1>6, <1>7, <1>8 DEF Next

\* After a build that came to its end, and until the operator edits, a machine restarts
\* or the cluster makes Cilium's configuration anew, every Check of its document succeeds.
LEMMA StaysBuilt ==
    ASSUME KeysDiffer
    PROVE  Spec => []Quiet
<1>1. Init => Quiet
  BY DEF Init, Quiet
<1>2. RecordInv /\ Quiet /\ [Next]_vars => Quiet'
  BY QuietStep
<1> QED
  BY <1>1, <1>2, RecordInductive, PTL DEF Spec

\* Applying a document once more to what was built with it changes nothing, neither by
\* the steps that are looked at again nor by a command that is killed in one - for as
\* long as the cluster does not run Cilium's chart again after the run had looked at what
\* came of it, which the code does not wait for when the change is outside the four keys
\* it compares (then the build is not settled).
THEOREM SecondApplyQuiet ==
    ASSUME KeysDiffer
    PROVE  Spec => SecondApplyIsQuiet
<1>1. RecordInv /\ Quiet /\ [Next]_vars => [settled /\ settled' => world' = world]_vars
  BY QuietStep
<1> QED
  BY <1>1, RecordInductive, StaysBuilt, PTL DEF Spec, SecondApplyIsQuiet

-----------------------------------------------------------------------------
(* What a build leaves as the document says.                               *)

\* What no write has to do with is as it was.
LEMMA ThroughSpares ==
    ASSUME NEW w, NEW ws, IsSequence(ws), NEW l \in DOMAIN w,
           \A x \in ToSet(ws) : l \notin Touched(x) \cup x.drop
    PROVE  l \in DOMAIN Through(w, ws) /\ Through(w, ws)[l] = w[l]
<1>1. PICK S : ws \in Seq(S)
  BY DEF IsSequence
<1>2. \A n \in 1..Len(ws) : l \notin Touched(ws[n]) \cup ws[n].drop
  BY <1>1 DEF ToSet
<1>3. PICK f : /\ f[0] = w
               /\ \A n \in 1..Len(ws) : f[n] = Write(f[n - 1], ws[n])
               /\ Through(w, ws) = f[Len(ws)]
  BY <1>1, ThroughGoesOn
<1> DEFINE T == {n \in Nat : n \in 0..Len(ws) => l \in DOMAIN f[n] /\ f[n][l] = w[l]}
<1>4. 0 \in T
  BY <1>3
<1>5. ASSUME NEW n \in Nat, n \in T PROVE n + 1 \in T
  <2> SUFFICES ASSUME n + 1 \in 0..Len(ws) PROVE l \in DOMAIN f[n + 1] /\ f[n + 1][l] = w[l]
    OBVIOUS
  <2>1. l \in DOMAIN f[n] /\ f[n][l] = w[l]
    BY <1>1, <1>5
  <2>2. n + 1 \in 1..Len(ws) /\ (n + 1) - 1 = n
    BY <1>1
  <2>3. f[n + 1] = Write(f[n], ws[n + 1])
    BY <1>3, <2>2
  <2>4. l \notin ws[n + 1].drop /\ l \notin DOMAIN ws[n + 1].put /\ l \notin DOMAIN ws[n + 1].read
    BY <1>2, <2>2 DEF Touched
  <2> QED
    BY <2>1, <2>3, <2>4, WriteValue
<1>6. Len(ws) \in T
  <2> HIDE DEF T
  <2> QED
    BY <1>1, <1>4, <1>5, Induction
<1> QED
  BY <1>1, <1>3, <1>6

\* Where the step would still put another value than there is, its Check compares none.
Overlooks(e, w) ==
    \A l \in Unmet(e, w) :
        Asked(l) => /\ l \in e.present \cup {Object("storageclass")}
                    /\ \A p \in e.finds : p[1] # l

\* A step whose Check succeeds has nothing left to put where it compares.
LEMMA HoldingMeets ==
    ASSUME NEW e, NEW s, NEW m, NEW id, NEW c, Told(e, s, m, id, c), NEW w, Holds(e, w)
    PROVE  Overlooks(e, w)
<1> SUFFICES ASSUME NEW l \in Unmet(e, w), Asked(l)
             PROVE  /\ l \in e.present \cup {Object("storageclass")}
                    /\ \A p \in e.finds : p[1] # l
  BY DEF Overlooks
<1>1. /\ IsSequence(e.writes)
      /\ \A x \in ToSet(e.writes) : Faithful(s, m, x) /\ x.drop = {} /\ Seeks(Sought(e), x)
  BY DEF Told
<1> DEFINE after == Through(w, e.writes)
<1>2. l \in DOMAIN after /\ ~Is(w, l, after[l])
  BY DEF Unmet, Done
<1>3. ASSUME NEW p \in e.finds, p[1] = l PROVE FALSE
  <2>1. Is(w, l, Says(s, m, l))
    BY <1>3 DEF Holds, Told
  <2>2. Is(after, l, Says(s, m, l))
    BY <1>1, <2>1, ThroughSays
  <2> QED
    BY <1>2, <2>1, <2>2 DEF Is
<1>4. ASSUME l \notin Sought(e) PROVE FALSE
  <2>1. \A x \in ToSet(e.writes) : l \notin Touched(x) \cup x.drop
    BY <1>1, <1>4 DEF Seeks, Faithful, Touched
  <2>2. l \in DOMAIN w
    BY <1>1, <1>2, <2>1, ThroughLeaves
  <2>3. after[l] = w[l]
    BY <1>1, <2>1, <2>2, ThroughSpares
  <2> QED
    BY <1>2, <2>2, <2>3 DEF Is
<1> QED
  BY <1>3, <1>4 DEF Sought

\* After a build, that is so of every step that is looked at.
BuiltAsSaid ==
    settled =>
        LET phases == Loaded[doc].phases IN
        \A p \in DOMAIN phases : \A i \in DOMAIN phases[p].steps :
            Overlooks(phases[p].steps[i], world)

\* What a build leaves says what its document says wherever a Check compares a value:
\* of such places, a step can find something to change only where its own Check asks for
\* presence and no more, or in the default storage class, which the next step asks for.
\* What else CompletedMeetsDocument speaks of is a value that no Check compares.
THEOREM BuiltIsAsSaid ==
    ASSUME KeysDiffer
    PROVE  Spec => []BuiltAsSaid
<1>1. ASSUME RecordInv, Quiet PROVE BuiltAsSaid
  <2> DEFINE phases == Loaded[doc].phases
             s == Loaded[doc].spec
             m == resolveMaterial(s)
             c == s.topology.servers[1].host
  <2> SUFFICES ASSUME settled, NEW p \in DOMAIN phases, NEW i \in DOMAIN phases[p].steps
               PROVE  Overlooks(phases[p].steps[i], world)
    BY DEF BuiltAsSaid
  <2>1. doc \in DOMAIN Documents
    BY <1>1 DEF RecordInv, BuildInv, Types
  <2>2. Loaded[doc].refused = {}
    BY <1>1, <2>1 DEF RecordInv, RecordTrue, Quiet
  <2>3. AllTold(phases, s, m, c)
    BY <2>1, <2>2, PhasesTold
  <2>4. Holds(phases[p].steps[i], world)
    BY <1>1 DEF Quiet
  <2> HIDE DEF phases, s, m, c
  <2>5. Told(phases[p].steps[i], s, m, phases[p].id, c)
    BY <2>3 DEF AllTold
  <2> QED
    BY <2>4, <2>5, HoldingMeets
<1> QED
  BY <1>1, RecordInductive, StaysBuilt, PTL

=============================================================================
