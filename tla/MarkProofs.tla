----------------------------- MODULE MarkProofs -----------------------------
(***************************************************************************)
(* Further proofs about ClusterBuild: a build is never refused as          *)
(* somebody else's cluster.  From what each step writes to the phases (a   *)
(* step comes after the configuration it needs), from there to the         *)
(* actions (what is worked on, killed or rebooted leaves the machines      *)
(* marked), and from the marks to the checks that look for them.           *)
(***************************************************************************)
EXTENDS StepProofs

-----------------------------------------------------------------------------
(* What a document comes to.                                               *)

\* What a document that is not refused comes to.
LEMMA LoadedComesTo ==
    ASSUME NEW d \in DOMAIN Documents, Loaded[d].refused = {}
    PROVE  LET s == Loaded[d].spec IN
           /\ Loaded[d].phases = Phases(s, resolveMaterial(s))
           /\ s.topology.servers \in Seq(NodeSpec) /\ s.topology.servers # <<>>
           /\ s.topology.agents \in Seq(NodeSpec)
           /\ s.gateway.gateways \in Seq(Gateway)
<1> DEFINE s == Loaded[d].spec
<1>1. /\ s.topology = Documents[d].topology
      /\ s.gateway = Documents[d].gateway
      /\ TopologyErrors(s) = {}
      /\ Loaded[d].phases = Phases(s, resolveMaterial(s))
  BY LoadedIsAccepted
<1>2. /\ Documents[d].topology.servers \in Seq(NodeSpec)
      /\ Documents[d].topology.agents \in Seq(NodeSpec)
      /\ Documents[d].gateway.gateways \in Seq(Gateway)
  BY DocumentsAssumption DEF ClusterSpec, TopologySpec, GatewaySpec
<1> HIDE DEF s
<1>3. s.topology.servers # <<>>
  <2> DEFINE t == s.topology
  <2> DEFINE rules == {
        <<"registration", t.registrationAddress = "">>,
        <<"servers", t.servers = <<>> >>,
        <<"own-address", /\ ~t.acceptNodeRegistration
                         /\ \E n \in NodesOf(s) : RegistersThrough(t, n)>>,
        <<"own-address-beside-vip", /\ t.acceptNodeRegistration /\ VIPAddress(s) # ""
                                    /\ \E n \in NodesOf(s) : RegistersThrough(t, n)>>,
        <<"vip-provider", \E v \in t.vip : v.provider \notin {"kube-vip", "none", "byo"}>>,
        <<"vip-address", \E v \in t.vip : v.provider = "kube-vip" /\ v.address \notin IPs>>}
  <2>1. TopologyErrors(s) = Broken(NodeRules(s)) \cup Broken(rules)
    BY Zenon DEF TopologyErrors
  <2>2. <<"servers", t.servers = <<>> >> \in rules
    BY Zenon
  <2>3. (t.servers = <<>>) \in BOOLEAN
    OBVIOUS
  <2> HIDE DEF rules, t
  <2>4. Broken(rules) = {}
    BY <1>1, <2>1
  <2>5. ~(t.servers = <<>>)
    BY <2>2, <2>3, <2>4, Reported
  <2> QED
    BY <2>5 DEF t
<1> QED
  BY <1>1, <1>2, <1>3 DEF s

\* The bundles of a document are as many as the secrets its listeners name.
LEMMA FiniteBundles ==
    ASSUME NEW s, s.gateway.gateways \in Seq(Gateway)
    PROVE  IsFiniteSet(DOMAIN resolveMaterial(s).bundles)
<1>1. resolveMaterial(s).bundles = assembleBundles(s)
  BY DEF resolveMaterial
<1>2. DOMAIN assembleBundles(s) = Brought(s)
  BY DEF assembleBundles
<1>3. Brought(s) \subseteq GatewaySecretRefs(s)
  BY DEF Brought
<1> QED
  BY <1>1, <1>2, <1>3, FiniteListeners, FS_Subset

-----------------------------------------------------------------------------
(* The phases.                                                             *)

\* The step that writes RKE2's configuration on the first server.
ConfigKey(h) == <<"l1-bootstrap", h, "config">>

\* What is recorded before the step at i of the phase at p is begun.
Behind(phases, p, i) ==
    Earlier(phases, p)
    \cup {KeyOf(phases[p], phases[p].steps[j]) :
          j \in {k \in DOMAIN phases[p].steps : Precedes(phases[p], k, i)}}

\* A step of that name looks at the configuration of its machine.
Looks(ph, step) ==
    ph.id = "l1-bootstrap" /\ step.id = "config" =>
        \E body : <<<<step.host, "config.yaml">>, body>> \in step.finds

\* Every step leaves the machines marked, whichever are - or the first server has
\* its configuration before the step is begun, and that is enough.
Sound(phases, c) ==
    /\ IsSequence(phases)
    /\ \A p \in DOMAIN phases : IsSequence(phases[p].steps)
    /\ \A p \in DOMAIN phases : \A i \in DOMAIN phases[p].steps :
          /\ \/ FitStep(phases[p].steps[i], {})
             \/ FitStep(phases[p].steps[i], {c}) /\ ConfigKey(c) \in Behind(phases, p, i)
          /\ Looks(phases[p], phases[p].steps[i])

\* Some phase has the step that configures that machine.
Configures(phases, c) == \E q \in DOMAIN phases : ConfigKey(c) \in Keys(phases[q])

\* One more phase.
LEMMA PhaseAdded ==
    ASSUME NEW c, NEW x, Sound(x, c), NEW ph, IsSequence(ph.steps),
           \A i \in DOMAIN ph.steps :
              /\ \/ FitStep(ph.steps[i], {})
                 \/ /\ FitStep(ph.steps[i], {c})
                    /\ \/ Configures(x, c)
                       \/ \E j \in DOMAIN ph.steps : Precedes(ph, j, i) /\ KeyOf(ph, ph.steps[j]) = ConfigKey(c)
              /\ Looks(ph, ph.steps[i])
    PROVE  /\ Sound(x \o <<ph>>, c)
           /\ Configures(x, c) \/ ConfigKey(c) \in Keys(ph) => Configures(x \o <<ph>>, c)
<1> DEFINE y == x \o <<ph>>
           key == ConfigKey(c)
<1>1. PICK S : x \in Seq(S)
  BY DEF Sound, IsSequence
<1>2. /\ DOMAIN y = DOMAIN x \cup {Len(x) + 1}
      /\ DOMAIN x = 1..Len(x) /\ Len(x) \in Nat
      /\ \A p \in DOMAIN x : y[p] = x[p]
      /\ y[Len(x) + 1] = ph
  BY <1>1
<1>3. IsSequence(y)
  <2>1. x \in Seq(S \cup {ph}) /\ <<ph>> \in Seq(S \cup {ph})
    BY <1>1
  <2> QED
    BY <2>1 DEF IsSequence
<1> HIDE DEF y, key
<1>4. ASSUME NEW p \in DOMAIN x PROVE Earlier(x, p) \subseteq Earlier(y, p)
  <2> SUFFICES ASSUME NEW q \in DOMAIN x, q < p PROVE Keys(x[q]) \subseteq Earlier(y, p)
    BY DEF Earlier
  <2>1. q \in DOMAIN y /\ y[q] = x[q]
    BY <1>2
  <2> QED
    BY <2>1 DEF Earlier
<1>5. ASSUME NEW p \in DOMAIN x, NEW i PROVE Behind(x, p, i) \subseteq Behind(y, p, i)
  BY <1>2, <1>4 DEF Behind
<1>6. ASSUME Configures(x, c) PROVE key \in Earlier(y, Len(x) + 1)
  <2>1. PICK q \in DOMAIN x : key \in Keys(x[q])
    BY <1>6 DEF Configures, key
  <2>2. q \in DOMAIN y /\ y[q] = x[q] /\ q < Len(x) + 1
    BY <1>2
  <2> QED
    BY <2>1, <2>2 DEF Earlier
<1>7. ASSUME NEW p \in DOMAIN y, NEW i \in DOMAIN y[p].steps
      PROVE  /\ \/ FitStep(y[p].steps[i], {})
                \/ FitStep(y[p].steps[i], {c}) /\ key \in Behind(y, p, i)
             /\ Looks(y[p], y[p].steps[i])
  <2>1. CASE p \in DOMAIN x
    <3>1. y[p] = x[p]
      BY <1>2, <2>1
    <3>2. Behind(x, p, i) \subseteq Behind(y, p, i)
      BY <1>5, <2>1
    <3> QED
      BY <2>1, <3>1, <3>2 DEF Sound, key
  <2>2. CASE p = Len(x) + 1
    <3>1. y[p] = ph
      BY <1>2, <2>2
    <3>2. CASE Configures(x, c)
      <4>1. key \in Behind(y, p, i)
        BY <1>6, <3>2, <2>2 DEF Behind
      <4> QED
        BY <3>1, <4>1
    <3>3. ASSUME NEW j \in DOMAIN ph.steps, Precedes(ph, j, i), KeyOf(ph, ph.steps[j]) = key
          PROVE  key \in Behind(y, p, i)
      BY <3>1, <3>3 DEF Behind
    <3> QED
      BY <3>1, <3>2, <3>3 DEF key
  <2> QED
    BY <1>2, <2>1, <2>2
<1>8. Sound(y, c)
  <2>1. \A p \in DOMAIN y : IsSequence(y[p].steps)
    BY <1>2 DEF Sound
  <2> QED
    BY <1>3, <1>7, <2>1 DEF Sound, key
<1>9. ASSUME Configures(x, c) PROVE Configures(y, c)
  BY <1>2, <1>9 DEF Configures
<1>10. ASSUME key \in Keys(ph) PROVE Configures(y, c)
  BY <1>2, <1>10 DEF Configures, key
<1> QED
  BY <1>8, <1>9, <1>10 DEF y, key

\* A phase after the first server has its configuration.
LEMMA LaterPhaseAdded ==
    ASSUME NEW c, NEW x, Sound(x, c), Configures(x, c), NEW id, id # "l1-bootstrap", NEW grade,
           NEW steps, FitSteps(steps, {c})
    PROVE  Sound(x \o Once(id, grade, steps), c) /\ Configures(x \o Once(id, grade, steps), c)
<1> DEFINE ph == Phase(id, grade, steps)
<1>1. CASE steps = <<>>
  <2>1. Once(id, grade, steps) = <<>>
    BY <1>1 DEF Once
  <2>2. x \o <<>> = x
    <3>1. PICK S : x \in Seq(S)
      BY DEF Sound, IsSequence
    <3> QED
      BY <3>1
  <2> QED
    BY <2>1, <2>2
<1>2. CASE steps # <<>>
  <2>1. Once(id, grade, steps) = <<ph>>
    BY <1>2 DEF Once
  <2>2. ph.id = id /\ ph.steps = steps
    BY DEF Phase
  <2>3. \A i \in DOMAIN steps : FitStep(steps[i], {c})
    BY DEF FitSteps, ToSet
  <2> HIDE DEF ph
  <2>4. \A i \in DOMAIN ph.steps :
           /\ \/ FitStep(ph.steps[i], {})
              \/ /\ FitStep(ph.steps[i], {c})
                 /\ \/ Configures(x, c)
                    \/ \E j \in DOMAIN ph.steps : Precedes(ph, j, i) /\ KeyOf(ph, ph.steps[j]) = ConfigKey(c)
           /\ Looks(ph, ph.steps[i])
    BY <2>2, <2>3 DEF Looks
  <2>5. Sound(x \o <<ph>>, c) /\ Configures(x \o <<ph>>, c)
    BY <2>2, <2>4, PhaseAdded DEF FitSteps
  <2> QED
    BY <2>1, <2>5
<1> QED
  BY <1>1, <1>2

-----------------------------------------------------------------------------
(* The first server.                                                       *)

\* A step named "config" looks at its machine's configuration.
LooksAtConfig(step) == step.id = "config" => \E body : <<<<step.host, "config.yaml">>, body>> \in step.finds

\* The steps of the first server: its configuration is the second of them.
Led(x, c) ==
    /\ IsSequence(x)
    /\ 1 \in DOMAIN x /\ 2 \in DOMAIN x
    /\ FitStep(x[1], {}) /\ FitStep(x[2], {})
    /\ x[2].id = "config" /\ x[2].host = c
    /\ \A step \in ToSet(x) : FitStep(step, {c}) /\ LooksAtConfig(step)

\* Steps that follow the first ones.
LEMMA LedOn ==
    ASSUME NEW c, NEW x, Led(x, c), NEW y, FitSteps(y, {c}), \A step \in ToSet(y) : step.id # "config"
    PROVE  Led(x \o y, c)
<1>1. IsSequence(x \o y) /\ ToSet(x \o y) = ToSet(x) \cup ToSet(y)
  BY ConcatHolds DEF Led, FitSteps
<1>2. PICK S : x \in Seq(S)
  BY DEF Led, IsSequence
<1>3. PICK T : y \in Seq(T)
  BY DEF FitSteps, IsSequence
<1>4. x \in Seq(S \cup T) /\ y \in Seq(S \cup T)
  BY <1>2, <1>3
<1>5. \A i \in DOMAIN x : i \in DOMAIN (x \o y) /\ (x \o y)[i] = x[i]
  BY <1>4
<1>6. \A step \in ToSet(x \o y) : FitStep(step, {c}) /\ LooksAtConfig(step)
  BY <1>1 DEF Led, FitSteps, LooksAtConfig
<1> QED
  BY <1>1, <1>5, <1>6 DEF Led

\* The first server is installed and configured before anything else (BootstrapSteps),
\* and Cilium's values come after its configuration.
LEMMA BootstrapLed ==
    ASSUME NEW n, NEW s, NEW prestage,
           FitSteps(prestage, {n.host}), \A step \in ToSet(prestage) : step.id # "config"
    PROVE  Led(BootstrapSteps(n, s, prestage) \o vipSteps(n.host, s), n.host)
<1> DEFINE c == n.host
           install == InstallStep(c, s)
           config == ConfigStep(c, ServerConfig(n, s, ""))
           service == AsMember(ServiceStep(c, s), n)
           copy == KubeconfigStep(n, s)
           tools == OpsToolsStep(c, s.network.mode = "online")
<1>1. Led(<<install, config>>, c)
  <2>1. \A D : FitStep(install, D) /\ install.id = "install"
    BY InstallFits
  <2>2. \A D : /\ FitStep(config, D) /\ config.id = "config" /\ config.host = c
               /\ <<<<c, "config.yaml">>, ServerConfig(n, s, "")>> \in config.finds
    BY ConfigFits
  <2> HIDE DEF install, config
  <2>3. IsSequence(<<install, config>>) /\ ToSet(<<install, config>>) = {install, config}
    BY TupleHolds
  <2>4. LooksAtConfig(install) /\ LooksAtConfig(config)
    BY <2>1, <2>2 DEF LooksAtConfig
  <2>5. /\ 1 \in DOMAIN <<install, config>> /\ 2 \in DOMAIN <<install, config>>
        /\ <<install, config>>[1] = install /\ <<install, config>>[2] = config
    OBVIOUS
  <2>6. \A step \in {install, config} : FitStep(step, {c}) /\ LooksAtConfig(step)
    BY <2>1, <2>2, <2>4
  <2> QED
    BY <2>1, <2>2, <2>3, <2>5, <2>6 DEF Led
<1>2. FitSteps(<<service, copy, tools>>, {c}) /\ \A step \in ToSet(<<service, copy, tools>>) : step.id # "config"
  <2>1. FitStep(service, {c}) /\ service.id = "service"
    BY RunningFits
  <2>2. FitStep(copy, {c}) /\ copy.id = "kubeconfig"
    BY KubeconfigFits
  <2>3. FitStep(tools, {c}) /\ tools.id = "operator-tools"
    BY OpsToolsFit
  <2> HIDE DEF service, copy, tools
  <2>4. ToSet(<<service, copy, tools>>) = {service, copy, tools}
    BY TupleHolds
  <2> QED
    BY <2>1, <2>2, <2>3, <2>4, FitTogether
<1>3. FitSteps(vipSteps(c, s), {c}) /\ \A step \in ToSet(vipSteps(c, s)) : step.id # "config"
  BY VIPFits
<1>4. BootstrapSteps(n, s, prestage) = <<install, config>> \o prestage \o <<service, copy, tools>>
  BY DEF BootstrapSteps
<1> HIDE DEF install, config, service, copy, tools
<1>5. Led(<<install, config>> \o prestage, c)
  BY <1>1, LedOn
<1>6. Led(<<install, config>> \o prestage \o <<service, copy, tools>>, c)
  BY <1>2, <1>5, LedOn
<1>7. Led(BootstrapSteps(n, s, prestage) \o vipSteps(c, s), c)
  <2> DEFINE first == <<install, config>> \o prestage \o <<service, copy, tools>>
  <2> HIDE DEF first
  <2>1. Led(first \o vipSteps(c, s), c)
    BY <1>3, <1>6, LedOn DEF first
  <2> QED
    BY <1>4, <2>1 DEF first
<1> QED
  BY <1>7

\* The phase of the first server, after those that need no configuration.
LEMMA BootstrapAdded ==
    ASSUME NEW c, NEW x, Sound(x, c), NEW grade, NEW steps, Led(steps, c)
    PROVE  /\ Sound(x \o Once("l1-bootstrap", grade, steps), c)
           /\ Configures(x \o Once("l1-bootstrap", grade, steps), c)
<1> DEFINE ph == Phase("l1-bootstrap", grade, steps)
<1>1. steps # <<>>
  BY DEF Led
<1>2. Once("l1-bootstrap", grade, steps) = <<ph>>
  BY <1>1 DEF Once
<1>3. ph.id = "l1-bootstrap" /\ ph.steps = steps
  BY DEF Phase
<1> HIDE DEF ph
<1>4. KeyOf(ph, ph.steps[2]) = ConfigKey(c) /\ 2 \in DOMAIN ph.steps
  BY <1>3 DEF KeyOf, ConfigKey, Led
<1>5. ASSUME NEW i \in DOMAIN ph.steps
      PROVE  /\ \/ FitStep(ph.steps[i], {})
                \/ /\ FitStep(ph.steps[i], {c})
                   /\ \E j \in DOMAIN ph.steps : Precedes(ph, j, i) /\ KeyOf(ph, ph.steps[j]) = ConfigKey(c)
             /\ Looks(ph, ph.steps[i])
  <2>1. ph.steps[i] \in ToSet(steps)
    BY <1>3 DEF ToSet
  <2>2. FitStep(ph.steps[i], {c}) /\ Looks(ph, ph.steps[i])
    BY <2>1 DEF Led, LooksAtConfig, Looks
  <2>3. CASE i = 1 \/ i = 2
    BY <2>2, <2>3, <1>3 DEF Led
  <2>4. CASE i # 1 /\ i # 2
    <3>1. 2 < i
      <4>1. PICK S : steps \in Seq(S)
        BY DEF Led, IsSequence
      <4>2. i \in 1..Len(steps) /\ Len(steps) \in Nat
        BY <1>3, <4>1
      <4> QED
        BY <4>2, <2>4
    <3>2. Precedes(ph, 2, i)
      BY <1>3, <3>1 DEF Precedes
    <3> QED
      BY <2>2, <3>2, <1>4
  <2> QED
    BY <2>3, <2>4
<1>6. Sound(x \o <<ph>>, c)
  BY <1>3, <1>5, PhaseAdded DEF Led
<1>7. Configures(x \o <<ph>>, c)
  <2>1. ConfigKey(c) \in Keys(ph)
    BY <1>4 DEF Keys
  <2> QED
    BY <1>3, <1>5, <2>1, PhaseAdded DEF Led
<1> QED
  BY <1>2, <1>6, <1>7

-----------------------------------------------------------------------------
(* All of them.                                                            *)

\* The preparation of the nodes needs no configuration.
LEMMA PrepSound ==
    ASSUME NEW c, NEW all, IsSequence(all), NEW s, NEW t, NEW grade
    PROVE  Sound(Once("l0-node-prep", grade,
                      FlattenSeq([i \in DOMAIN all |-> NodePrepSteps(all[i], s, t)])), c)
<1> DEFINE seqs == [i \in DOMAIN all |-> NodePrepSteps(all[i], s, t)]
           steps == FlattenSeq(seqs)
           ph == Phase("l0-node-prep", grade, steps)
<1>1. FitSteps(steps, {})
  <2>1. PICK S : all \in Seq(S)
    BY DEF IsSequence
  <2> DEFINE Of(i) == NodePrepSteps(all[i], s, t)
  <2>2. \A i : FitSteps(Of(i), {})
    BY NodePrepFits
  <2>3. seqs = [i \in DOMAIN all |-> Of(i)]
    OBVIOUS
  <2> HIDE DEF Of
  <2>4. seqs \in Seq({Of(i) : i \in DOMAIN all})
    BY <2>1, <2>3
  <2>5. \A q \in ToSet(seqs) : FitSteps(q, {})
    BY <2>2, <2>3 DEF ToSet
  <2> HIDE DEF seqs
  <2> QED
    BY <2>4, <2>5, FlattenFits DEF IsSequence
<1> HIDE DEF steps, seqs
<1>2. Sound(<<>>, c)
  <2>1. IsSequence(<<>>) /\ DOMAIN <<>> = {}
    BY TupleHolds
  <2> QED
    BY <2>1 DEF Sound
<1>3. ph.id = "l0-node-prep" /\ ph.steps = steps
  BY DEF Phase
<1> HIDE DEF ph
<1>4. \A i \in DOMAIN ph.steps : FitStep(ph.steps[i], {}) /\ Looks(ph, ph.steps[i])
  BY <1>1, <1>3 DEF FitSteps, ToSet, Looks
<1>5. Sound(<<>> \o <<ph>>, c)
  BY <1>1, <1>2, <1>3, <1>4, PhaseAdded DEF FitSteps
<1>6. <<>> \o <<ph>> = <<ph>>
  OBVIOUS
<1>7. Once("l0-node-prep", grade, steps) \in {<<>>, <<ph>>}
  BY DEF Once, ph
<1>8. Sound(Once("l0-node-prep", grade, steps), c)
  BY <1>2, <1>5, <1>6, <1>7
<1> QED
  BY <1>8 DEF steps, seqs

\* A phase in which nodes join, after the first server has its configuration.
LEMMA JoinPhaseAdded ==
    ASSUME NEW s, NEW c, NEW x, Sound(x, c), Configures(x, c), NEW id, id # "l1-bootstrap", NEW nodes,
           IsSequence(nodes), NEW server \in BOOLEAN
    PROVE  /\ Sound(x \o joinPhase(id, nodes, s, server), c)
           /\ Configures(x \o joinPhase(id, nodes, s, server), c)
<1> DEFINE first == s.topology.servers[1].host
           Of(f) == FlattenSeq([i \in DOMAIN nodes |->
                       <<tokenStep(f, nodes[i].host)>> \o JoinSteps(nodes[i], s, server, "token")])
<1>1. \A f : FitSteps(Of(f), {c})
  <2> TAKE f
  <2> QED
    BY JoinPhaseFits
<1>2. joinPhase(id, nodes, s, server) = Once(id, "mutating", Of(first))
  BY DEF joinPhase
<1> HIDE DEF Of
<1> QED
  BY <1>1, <1>2, LaterPhaseAdded

\* Every list of phases the program makes of a document is sound: no step leaves a
\* machine with RKE2's process or Cilium's values that has not RKE2's configuration,
\* when the steps it comes after are done, and one of them writes the first server's
\* (catalog.Phases).
THEOREM PhasesSound ==
    ASSUME NEW d \in DOMAIN Documents, Loaded[d].refused = {}
    PROVE  LET c == Loaded[d].spec.topology.servers[1].host IN
           c \in Machines /\ Sound(Loaded[d].phases, c) /\ Configures(Loaded[d].phases, c)
<1> DEFINE s == Loaded[d].spec
           m == resolveMaterial(s)
           servers == s.topology.servers
           agents == s.topology.agents
           first == servers[1]
           c == first.host
           all == Hosts(servers \o agents)
           prestage == When(WantsCilium(s),
                            <<PrestageStep(c, "cilium-values", CiliumHelmConfig(s))>>)
           issuer == IF Issues(s.pki.mode) THEN "malmok" ELSE ""
           P1 == Once("l0-node-prep", "mutating",
                      FlattenSeq([i \in DOMAIN all |-> NodePrepSteps(all[i], s, m.trust)]))
           P2 == Once("l1-bootstrap", "mutating", BootstrapSteps(first, s, prestage) \o vipSteps(c, s))
           P3 == joinPhase("l1-join-server", Tail(servers), s, TRUE)
           P4 == joinPhase("l1-join-agent", agents, s, FALSE)
           P5 == Once("l2-dataplane", "disruptive", DataplaneSteps(c, s))
           P6 == Once("l2-storage", "additive", StorageSteps(c, s))
           P7 == Once("l2-pki", "additive", PkiSteps(c, s, m.pki, m.charts))
           P8 == Once("l2-gateway", "additive", GatewaySteps(c, s, m.bundles, issuer))
           P9 == Once("l2-observability", "additive", ObservabilitySteps(c, s, m.charts))
           P10 == Once("l2-platform", "additive", PlatformSteps(c, s, m.trust, m.charts))
<1>1. /\ Loaded[d].phases = Phases(s, m)
      /\ servers \in Seq(NodeSpec) /\ servers # <<>>
      /\ agents \in Seq(NodeSpec)
      /\ s.gateway.gateways \in Seq(Gateway)
  BY LoadedComesTo
<1>2. Phases(s, m) = P1 \o P2 \o P3 \o P4 \o P5 \o P6 \o P7 \o P8 \o P9 \o P10
  BY Zenon DEF Phases, roles
<1>3. IsFiniteSet(DOMAIN m.bundles)
  BY <1>1, FiniteBundles
<1>4. IsSequence(all)
  <2> DEFINE nodes == servers \o agents
  <2>1. nodes \in Seq(NodeSpec)
    BY <1>1
  <2> HIDE DEF nodes
  <2>2. Hosts(nodes) = [i \in DOMAIN nodes |-> nodes[i].host]
    BY DEF Hosts
  <2>3. Hosts(nodes) \in Seq({nodes[i].host : i \in DOMAIN nodes})
    BY <2>1, <2>2
  <2> QED
    BY <2>3 DEF IsSequence, nodes
<1>5. IsSequence(Tail(servers)) /\ IsSequence(agents)
  <2>1. Tail(servers) \in Seq(NodeSpec)
    BY <1>1
  <2> QED
    BY <1>1, <2>1 DEF IsSequence
<1>6. Sound(P1, c)
  BY <1>4, PrepSound
<1>7. FitSteps(prestage, {c}) /\ \A step \in ToSet(prestage) : step.id # "config"
  <2> DEFINE step == PrestageStep(c, "cilium-values", CiliumHelmConfig(s))
  <2>1. FitStep(step, {c}) /\ step.id = "cilium-values"
    <3>1. c \in {c}
      OBVIOUS
    <3> QED
      BY <3>1, CiliumValuesFit
  <2> HIDE DEF step
  <2>2. FitSteps(<<step>>, {c}) /\ FitSteps(<<>>, {c}) /\ ToSet(<<step>>) = {step} /\ ToSet(<<>>) = {}
    BY <2>1, FitTogether, TupleHolds
  <2>3. prestage = <<step>> \/ prestage = <<>>
    BY DEF When, step
  <2> QED
    BY <2>1, <2>2, <2>3
<1>8. Sound(P1 \o P2, c) /\ Configures(P1 \o P2, c)
  <2>1. Led(BootstrapSteps(first, s, prestage) \o vipSteps(c, s), c)
    BY <1>7, BootstrapLed
  <2> QED
    BY <1>6, <2>1, BootstrapAdded
<1>9. /\ FitSteps(DataplaneSteps(c, s), {c})
      /\ FitSteps(StorageSteps(c, s), {c})
      /\ FitSteps(PkiSteps(c, s, m.pki, m.charts), {c})
      /\ FitSteps(ObservabilitySteps(c, s, m.charts), {c})
      /\ FitSteps(PlatformSteps(c, s, m.trust, m.charts), {c})
  <2>1. c \in {c}
    OBVIOUS
  <2> QED
    BY <2>1, DataplaneFits, StorageFits, PkiFits, ObservabilityFits, PlatformFits
<1>10. FitSteps(GatewaySteps(c, s, m.bundles, issuer), {c})
  BY <1>1, <1>3, GatewayFits
<1>11. c \in Machines
  <2>1. first \in ToSet(servers)
    BY <1>1 DEF ToSet
  <2>2. c \in {n.host : n \in ToSet(servers)}
    BY <2>1
  <2> QED
    BY <2>2, ServersAreNotAgents
<1> HIDE DEF P1, P2, all, prestage, issuer, m, servers, agents, first, c, s
<1>12. Sound(P1 \o P2 \o P3, c) /\ Configures(P1 \o P2 \o P3, c)
  BY <1>5, <1>8, JoinPhaseAdded
<1> HIDE DEF P3
<1>13. Sound(P1 \o P2 \o P3 \o P4, c) /\ Configures(P1 \o P2 \o P3 \o P4, c)
  BY <1>5, <1>12, JoinPhaseAdded
<1> HIDE DEF P4
<1> DEFINE X4 == P1 \o P2 \o P3 \o P4
<1> HIDE DEF X4
<1>14. Sound(X4 \o P5, c) /\ Configures(X4 \o P5, c)
  BY <1>13, <1>9, LaterPhaseAdded DEF X4
<1> DEFINE X5 == X4 \o P5
<1> HIDE DEF X5, P5
<1>15. Sound(X5 \o P6, c) /\ Configures(X5 \o P6, c)
  BY <1>14, <1>9, LaterPhaseAdded DEF X5
<1> DEFINE X6 == X5 \o P6
<1> HIDE DEF X6, P6
<1>16. Sound(X6 \o P7, c) /\ Configures(X6 \o P7, c)
  BY <1>15, <1>9, LaterPhaseAdded DEF X6
<1> DEFINE X7 == X6 \o P7
<1> HIDE DEF X7, P7
<1>17. Sound(X7 \o P8, c) /\ Configures(X7 \o P8, c)
  BY <1>16, <1>10, LaterPhaseAdded DEF X7
<1> DEFINE X8 == X7 \o P8
<1> HIDE DEF X8, P8
<1>18. Sound(X8 \o P9, c) /\ Configures(X8 \o P9, c)
  BY <1>17, <1>9, LaterPhaseAdded DEF X8
<1> DEFINE X9 == X8 \o P9
<1> HIDE DEF X9, P9
<1>19. Sound(X9 \o P10, c) /\ Configures(X9 \o P10, c)
  BY <1>18, <1>9, LaterPhaseAdded DEF X9
<1> HIDE DEF P10
<1>20. Loaded[d].phases = X9 \o P10
  BY <1>1, <1>2, Zenon DEF X4, X5, X6, X7, X8, X9
<1> QED
  BY <1>19, <1>20, <1>11 DEF c, first, servers, s

-----------------------------------------------------------------------------
(* The checks.                                                             *)

\* The findings of residue.go that stop a build: a cluster, and the ports of one.
Remains == {"PF-802", "PF-803"}

\* What neither part has, a merge has not.
LEMMA MergeLacks ==
    ASSUME NEW f, NEW g, NEW S, S \cap DOMAIN f = {}, S \cap DOMAIN g = {}
    PROVE  S \cap DOMAIN (f ++ g) = {}
  BY MergeHas

\* One finding is one finding.
LEMMA JustLacks ==
    ASSUME NEW S, NEW id, id \notin S, NEW v
    PROVE  S \cap DOMAIN Just(id, v) = {}
  BY DEF Just

\* A part that comes later is seen through those that come before.
LEMMA MergeSeen ==
    ASSUME NEW f, NEW g, NEW id, id \notin DOMAIN f, id \in DOMAIN g
    PROVE  id \in DOMAIN (f ++ g) /\ (f ++ g)[id] = g[id]
<1>1. f ++ g = [l \in DOMAIN f \cup DOMAIN g |-> IF l \in DOMAIN f THEN f[l] ELSE g[l]]
  BY MergeIs
<1> QED
  BY <1>1

\* The first part is seen whatever comes later.
LEMMA MergeFirst ==
    ASSUME NEW f, NEW g, NEW id, id \in DOMAIN f
    PROVE  id \in DOMAIN (f ++ g) /\ (f ++ g)[id] = f[id]
<1>1. f ++ g = [l \in DOMAIN f \cup DOMAIN g |-> IF l \in DOMAIN f THEN f[l] ELSE g[l]]
  BY MergeIs
<1> QED
  BY <1>1

\* The checks that ask no node find no remains (preflight.Run).
LEMMA DocumentLacks ==
    ASSUME NEW s, NEW w
    PROVE  Remains \cap DOMAIN Run(s, w).document = {}
<1>1. \A id, v : id \notin Remains => Remains \cap DOMAIN Just(id, v) = {}
  BY JustLacks
<1>2. \A f, g : Remains \cap DOMAIN f = {} /\ Remains \cap DOMAIN g = {} => Remains \cap DOMAIN (f ++ g) = {}
  BY MergeLacks
<1>3. \A id \in {"PF-611", "PF-710", "PF-603", "PF-608", "PF-701", "PF-702", "PF-703", "PF-708",
                 "PF-704", "PF-705", "PF-706", "PF-108", "PF-604", "PF-502", "PF-504", "PF-606"} :
         id \notin Remains
  BY DEF Remains
<1>4. Remains \cap DOMAIN certChecks(s) = {}
  <2>1. DOMAIN certChecks(s) = CertificateBlocks
    BY DEF certChecks
  <2> QED
    BY <2>1 DEF Remains, CertificateBlocks
<1>5. Remains \cap DOMAIN CheckRegistry(s) = {}
  <2>1. \A a, b, c : Remains \cap DOMAIN (Just("PF-701", a) ++ Just("PF-702", b) ++ Just("PF-703", c)) = {}
    <3> TAKE a, b, c
    <3>1. /\ Remains \cap DOMAIN Just("PF-701", a) = {}
          /\ Remains \cap DOMAIN Just("PF-702", b) = {}
          /\ Remains \cap DOMAIN Just("PF-703", c) = {}
      BY <1>1, <1>3
    <3> QED
      BY <1>2, <3>1
  <2> QED
    BY <2>1, Zenon DEF CheckRegistry
<1>6. Remains \cap DOMAIN CheckPKIMaterial(s, PKIMaterial(s)) = {}
  <2>1. \A a, b, c : Remains \cap DOMAIN (Just("PF-704", a) ++ Just("PF-705", b) ++ Just("PF-706", c)) = {}
    <3> TAKE a, b, c
    <3>1. /\ Remains \cap DOMAIN Just("PF-704", a) = {}
          /\ Remains \cap DOMAIN Just("PF-705", b) = {}
          /\ Remains \cap DOMAIN Just("PF-706", c) = {}
      BY <1>1, <1>3
    <3> QED
      BY <1>2, <3>1
  <2>2. \A m, none : Remains \cap DOMAIN materialChecks(m, none) = {}
    BY <2>1, Zenon DEF materialChecks
  <2> QED
    BY <2>2 DEF CheckPKIMaterial
<1>7. Remains \cap DOMAIN documentChecks(s) = {}
  <2>1. ASSUME NEW a, NEW b, NEW c, NEW d, NEW e, NEW r, NEW m, NEW t,
               Remains \cap DOMAIN r = {}, Remains \cap DOMAIN m = {}, Remains \cap DOMAIN t = {}
        PROVE  Remains \cap DOMAIN (Just("PF-611", a) ++ Just("PF-710", b) ++ Just("PF-603", c)
                  ++ Just("PF-608", d) ++ r ++ Just("PF-708", e) ++ m ++ t) = {}
    <3>1. /\ Remains \cap DOMAIN Just("PF-611", a) = {} /\ Remains \cap DOMAIN Just("PF-710", b) = {}
          /\ Remains \cap DOMAIN Just("PF-603", c) = {} /\ Remains \cap DOMAIN Just("PF-608", d) = {}
          /\ Remains \cap DOMAIN Just("PF-708", e) = {}
      BY <1>1, <1>3
    <3> QED
      BY <1>2, <2>1, <3>1, Zenon
  <2> QED
    BY <1>4, <1>5, <1>6, <2>1 DEF documentChecks
<1>8. ASSUME NEW f, NEW a, NEW b, NEW c, NEW d, NEW e, Remains \cap DOMAIN f = {}
      PROVE  Remains \cap DOMAIN (f ++ Just("PF-108", a) ++ Just("PF-604", b) ++ Just("PF-502", c)
                  ++ Just("PF-504", d) ++ Just("PF-606", e)) = {}
  <2>1. /\ Remains \cap DOMAIN Just("PF-108", a) = {} /\ Remains \cap DOMAIN Just("PF-604", b) = {}
        /\ Remains \cap DOMAIN Just("PF-502", c) = {} /\ Remains \cap DOMAIN Just("PF-504", d) = {}
        /\ Remains \cap DOMAIN Just("PF-606", e) = {}
    BY <1>1, <1>3
  <2> QED
    BY <1>2, <1>8, <2>1, Zenon
<1> QED
  BY <1>7, <1>8 DEF Run

\* Neither do the sections of a node's checks before the residue (Node.Probe).
LEMMA SectionsLack ==
    ASSUME NEW n, NEW s, NEW w, NEW f
    PROVE  Remains \cap DOMAIN (MachineChecks(n, s, w) ++ KernelChecks(f) ++ SecurityChecks(f, s)
              ++ StorageChecks(f) ++ ClockChecks(f) ++ AddressChecks(n, s, w)) = {}
<1>1. \A id, v : id \notin Remains => Remains \cap DOMAIN Just(id, v) = {}
  BY JustLacks
<1>2. \A a, b : Remains \cap DOMAIN a = {} /\ Remains \cap DOMAIN b = {} => Remains \cap DOMAIN (a ++ b) = {}
  BY MergeLacks
<1>3. \A id \in {"PF-101", "PF-102", "PF-104", "PF-105", "PF-106", "PF-107", "PF-201", "PF-202", "PF-203",
                 "PF-204", "PF-205", "PF-207", "PF-208", "PF-209", "PF-301", "PF-302", "PF-303", "PF-304",
                 "PF-401", "PF-402", "PF-403", "PF-407", "PF-501", "PF-503", "PF-605", "PF-607", "PF-609",
                 "PF-610"} : \A v : Remains \cap DOMAIN Just(id, v) = {}
  BY <1>1 DEF Remains
<1>4. Remains \cap DOMAIN MachineChecks(n, s, w) = {}
  <2>1. \A a, b, c, d, e, g : Remains \cap DOMAIN (Just("PF-101", a) ++ Just("PF-102", b) ++ Just("PF-104", c)
           ++ Just("PF-105", d) ++ Just("PF-106", e) ++ Just("PF-107", g)) = {}
    <3> TAKE a, b, c, d, e, g
    <3>1. /\ Remains \cap DOMAIN Just("PF-101", a) = {} /\ Remains \cap DOMAIN Just("PF-102", b) = {}
          /\ Remains \cap DOMAIN Just("PF-104", c) = {} /\ Remains \cap DOMAIN Just("PF-105", d) = {}
          /\ Remains \cap DOMAIN Just("PF-106", e) = {} /\ Remains \cap DOMAIN Just("PF-107", g) = {}
      BY <1>3
    <3> QED
      BY <1>2, <3>1, Zenon
  <2> QED
    BY <2>1, Zenon DEF MachineChecks
<1>5. Remains \cap DOMAIN KernelChecks(f) = {}
  <2>1. \A a, b, c, d, e, g, h, i : Remains \cap DOMAIN (Just("PF-201", a) ++ Just("PF-202", b)
           ++ Just("PF-203", c) ++ Just("PF-204", d) ++ Just("PF-205", e) ++ Just("PF-207", g)
           ++ Just("PF-208", h) ++ Just("PF-209", i)) = {}
    <3> TAKE a, b, c, d, e, g, h, i
    <3>1. /\ Remains \cap DOMAIN Just("PF-201", a) = {} /\ Remains \cap DOMAIN Just("PF-202", b) = {}
          /\ Remains \cap DOMAIN Just("PF-203", c) = {} /\ Remains \cap DOMAIN Just("PF-204", d) = {}
          /\ Remains \cap DOMAIN Just("PF-205", e) = {} /\ Remains \cap DOMAIN Just("PF-207", g) = {}
          /\ Remains \cap DOMAIN Just("PF-208", h) = {} /\ Remains \cap DOMAIN Just("PF-209", i) = {}
      BY <1>3
    <3> QED
      BY <1>2, <3>1, Zenon
  <2> QED
    BY <2>1, Zenon DEF KernelChecks
<1>6. Remains \cap DOMAIN SecurityChecks(f, s) = {}
  <2>1. \A a, b, c, d : Remains \cap DOMAIN (Just("PF-301", a) ++ Just("PF-302", b)
           ++ Just("PF-303", c) ++ Just("PF-304", d)) = {}
    <3> TAKE a, b, c, d
    <3>1. /\ Remains \cap DOMAIN Just("PF-301", a) = {} /\ Remains \cap DOMAIN Just("PF-302", b) = {}
          /\ Remains \cap DOMAIN Just("PF-303", c) = {} /\ Remains \cap DOMAIN Just("PF-304", d) = {}
      BY <1>3
    <3> QED
      BY <1>2, <3>1, Zenon
  <2> QED
    BY <2>1, Zenon DEF SecurityChecks
<1>7. Remains \cap DOMAIN StorageChecks(f) = {}
  <2> DEFINE block == [id \in LonghornProbes |-> CheckISCSI]
  <2>1. Remains \cap DOMAIN block = {}
    BY DEF Remains, LonghornProbes
  <2> HIDE DEF block
  <2>2. \A a, b, c, d : Remains \cap DOMAIN (Just("PF-401", a) ++ Just("PF-402", b)
           ++ Just("PF-403", c) ++ Just("PF-407", d) ++ block) = {}
    <3> TAKE a, b, c, d
    <3>1. /\ Remains \cap DOMAIN Just("PF-401", a) = {} /\ Remains \cap DOMAIN Just("PF-402", b) = {}
          /\ Remains \cap DOMAIN Just("PF-403", c) = {} /\ Remains \cap DOMAIN Just("PF-407", d) = {}
      BY <1>3
    <3> QED
      BY <1>2, <2>1, <3>1, Zenon
  <2> QED
    BY <2>2, Zenon DEF StorageChecks, block
<1>8. Remains \cap DOMAIN ClockChecks(f) = {}
  <2>1. /\ Remains \cap DOMAIN Just("PF-501", CheckTimeSync(f)) = {}
        /\ Remains \cap DOMAIN Just("PF-503", CheckNTPServers(f)) = {}
    BY <1>3
  <2> QED
    BY <1>2, <2>1 DEF ClockChecks
<1>9. Remains \cap DOMAIN AddressChecks(n, s, w) = {}
  <2>1. \A a, b, c, d : Remains \cap DOMAIN (Just("PF-605", a) ++ Just("PF-607", b)
           ++ Just("PF-609", c) ++ Just("PF-610", d)) = {}
    <3> TAKE a, b, c, d
    <3>1. /\ Remains \cap DOMAIN Just("PF-605", a) = {} /\ Remains \cap DOMAIN Just("PF-607", b) = {}
          /\ Remains \cap DOMAIN Just("PF-609", c) = {} /\ Remains \cap DOMAIN Just("PF-610", d) = {}
      BY <1>3
    <3> QED
      BY <1>2, <3>1, Zenon
  <2> QED
    BY <2>1, Zenon DEF AddressChecks
<1> QED
  BY <1>2, <1>4, <1>5, <1>6, <1>7, <1>8, <1>9, Zenon

\* The residue section says both findings (residue.go), the later ones of its own.
LEMMA ResidueHas ==
    ASSUME NEW n, NEW s, NEW w
    PROVE  LET r == ResidueChecks(n, s, w) IN
           /\ "PF-802" \in DOMAIN r /\ r["PF-802"] = CheckExistingKubernetes(n.host, w)
           /\ "PF-803" \in DOMAIN r /\ r["PF-803"] = CheckPortsFree(n.host, w)
<1> DEFINE Has(r, b, c) == /\ "PF-802" \in DOMAIN r /\ r["PF-802"] = b
                           /\ "PF-803" \in DOMAIN r /\ r["PF-803"] = c
<1>1. ASSUME NEW f, NEW g, NEW b, NEW c, Has(f, b, c) PROVE Has(f ++ g, b, c)
  <2>1. "PF-802" \in DOMAIN (f ++ g) /\ (f ++ g)["PF-802"] = f["PF-802"]
    BY <1>1, MergeFirst
  <2>2. "PF-803" \in DOMAIN (f ++ g) /\ (f ++ g)["PF-803"] = f["PF-803"]
    BY <1>1, MergeFirst
  <2> QED
    BY <1>1, <2>1, <2>2
<1>2. ASSUME NEW a, NEW b, NEW c
      PROVE  Has(Just("PF-801", a) ++ Just("PF-802", b) ++ Just("PF-803", c), b, c)
  <2> DEFINE f == Just("PF-801", a)
             g == Just("PF-802", b)
             h == Just("PF-803", c)
  <2>1. /\ DOMAIN f = {"PF-801"} /\ DOMAIN g = {"PF-802"} /\ DOMAIN h = {"PF-803"}
        /\ g["PF-802"] = b /\ h["PF-803"] = c
    BY DEF Just
  <2> HIDE DEF f, g, h
  <2>2. "PF-802" \in DOMAIN (f ++ g) /\ (f ++ g)["PF-802"] = b
    BY <2>1, MergeSeen
  <2>3. "PF-803" \notin DOMAIN (f ++ g)
    <3>1. DOMAIN (f ++ g) = DOMAIN f \cup DOMAIN g
      BY MergeHas
    <3> QED
      BY <2>1, <3>1
  <2> DEFINE k == f ++ g
  <2> HIDE DEF k
  <2>4. "PF-802" \in DOMAIN (k ++ h) /\ (k ++ h)["PF-802"] = b
    BY <2>2, MergeFirst DEF k
  <2>5. "PF-803" \in DOMAIN (k ++ h) /\ (k ++ h)["PF-803"] = c
    BY <2>1, <2>3, MergeSeen DEF k
  <2> QED
    BY <2>4, <2>5 DEF k, f, g, h
<1> HIDE DEF Has
<1>3. ASSUME NEW a, NEW b, NEW c, NEW d, NEW e, NEW g, NEW h
      PROVE  Has(Just("PF-801", a) ++ Just("PF-802", b) ++ Just("PF-803", c) ++ d ++ e ++ g ++ h, b, c)
  BY <1>1, <1>2
<1>4. Has(ResidueChecks(n, s, w), CheckExistingKubernetes(n.host, w), CheckPortsFree(n.host, w))
  BY <1>3 DEF ResidueChecks
<1> QED
  BY <1>4 DEF Has

\* A node is blocked for its remains when there are some, and they bear no mark.
LEMMA RemainsBlock ==
    ASSUME NEW n, NEW s, NEW w, NEW peers,
           Blocking(NodeChecks(n, s, w) ++ peers) \cap Remains # {}
    PROVE  (Installed(n.host, w) \/ Running(n.host, w)) /\ ~ours(n.host, w)
<1> DEFINE f == Facts[n.host]
           skips == [id \in f.unread |-> "skip"]
           left == MachineChecks(n, s, w) ++ KernelChecks(f) ++ SecurityChecks(f, s)
              ++ StorageChecks(f) ++ ClockChecks(f) ++ AddressChecks(n, s, w)
           r == ResidueChecks(n, s, w)
           all == left ++ r
<1>1. NodeChecks(n, s, w) = skips ++ all
  BY DEF NodeChecks
<1>2. Remains \cap DOMAIN left = {}
  BY SectionsLack
<1>3. /\ "PF-802" \in DOMAIN r /\ r["PF-802"] = CheckExistingKubernetes(n.host, w)
      /\ "PF-803" \in DOMAIN r /\ r["PF-803"] = CheckPortsFree(n.host, w)
  BY ResidueHas
<1>4. \A id \in DOMAIN skips : skips[id] = "skip"
  OBVIOUS
<1> HIDE DEF left, r, skips, all
<1>5. ASSUME NEW id \in Remains PROVE id \in DOMAIN all /\ all[id] = r[id]
  <2>1. id \notin DOMAIN left /\ id \in DOMAIN r
    BY <1>2, <1>3 DEF Remains
  <2> QED
    BY <2>1, MergeSeen DEF all
<1>6. ASSUME NEW id \in Remains
      PROVE  /\ id \in DOMAIN (skips ++ all)
             /\ (skips ++ all)[id] = r[id] \/ (skips ++ all)[id] = "skip"
  <2>1. CASE id \in DOMAIN skips
    BY <1>4, <2>1, MergeFirst
  <2>2. CASE id \notin DOMAIN skips
    BY <1>5, <2>2, MergeSeen
  <2> QED
    BY <2>1, <2>2
<1>7. ASSUME NEW id \in Remains
      PROVE  ((skips ++ all) ++ peers)[id] = r[id] \/ ((skips ++ all) ++ peers)[id] = "skip"
  <2> DEFINE got == skips ++ all
  <2>1. id \in DOMAIN got /\ (got[id] = r[id] \/ got[id] = "skip")
    BY <1>6
  <2> HIDE DEF got
  <2>2. (got ++ peers)[id] = got[id]
    BY <2>1, MergeFirst
  <2> QED
    BY <2>1, <2>2 DEF got
<1>8. PICK id \in Remains : r[id] = "fail"
  <2>1. PICK id \in Remains : (NodeChecks(n, s, w) ++ peers)[id] = "fail"
    BY DEF Blocking
  <2> QED
    BY <1>1, <1>7, <2>1
<1>9. CheckExistingKubernetes(n.host, w) = "fail" \/ CheckPortsFree(n.host, w) = "fail"
  BY <1>3, <1>8 DEF Remains
<1> QED
  BY <1>9 DEF CheckExistingKubernetes, CheckPortsFree, Fails

-----------------------------------------------------------------------------
(* The work.                                                               *)

\* The first part of what fits.
LEMMA FewerFit ==
    ASSUME NEW ws, NEW C, FitWrites(ws, C), NEW n \in Nat, n <= Len(ws)
    PROVE  FitWrites(SubSeq(ws, 1, n), C)
<1>1. PICK S : ws \in Seq(S)
  BY DEF FitWrites, IsSequence
<1>2. \A i \in 1..Len(ws) : Fit(ws[i], C)
  BY <1>1 DEF FitWrites, ToSet
<1> DEFINE part == SubSeq(ws, 1, n)
<1>3. /\ part \in Seq(S) /\ Len(part) = n
      /\ \A i \in 1..n : part[i] = ws[i]
  BY <1>1
<1> HIDE DEF part
<1>4. \A i \in DOMAIN part : Fit(part[i], C)
  BY <1>1, <1>2, <1>3
<1> QED
  BY <1>3, <1>4 DEF FitWrites, IsSequence, ToSet, part

\* Marked machines, of which those have a configuration that the run has recorded
\* it for - and the first one, when the run takes its phase for done.
Kept(home) ==
    /\ Marked(world)
    /\ \A h \in Machines : ConfigKey(h) \in record => h \in Configured(world)
    /\ "l1-bootstrap" \in finished => home[doc] \in Configured(world)

\* The machines are marked, in every state of a build.
MarkInv(home) == BuildInv /\ Kept(home) /\ CanBeRunAgain

\* The phase that is built, and the ones before it, are what PhasesSound says.
LEMMA CurrentSound ==
    ASSUME BuildInv, NEW ph \in Current
    PROVE  LET phases == Loaded[doc].phases
               c == Loaded[doc].spec.topology.servers[1].host IN
           /\ doc \in DOMAIN Documents /\ Loaded[doc].refused = {}
           /\ phase \in DOMAIN phases /\ ph = phases[phase]
           /\ c \in Machines /\ Sound(phases, c) /\ Configures(phases, c)
           /\ IsSequence(ph.steps)
<1>1. command = "building" /\ phase \in DOMAIN Loaded[doc].phases /\ ph = Loaded[doc].phases[phase]
  BY CurrentPhase
<1>2. doc \in DOMAIN Documents /\ Loaded[doc].refused = {}
  BY <1>1 DEF BuildInv, Types, NotRefused, Changing
<1> QED
  BY <1>1, <1>2, PhasesSound DEF Sound

\* What is worked on leaves the machines marked.
LEMMA WorkFits ==
    ASSUME NEW home, FirstStays(home), BuildInv, Kept(home), NEW ph \in Current
    PROVE  \A i \in Active(ph) : FitStep(ph.steps[i], Configured(world)) /\ Looks(ph, ph.steps[i])
<1> DEFINE phases == Loaded[doc].phases
           c == Loaded[doc].spec.topology.servers[1].host
<1>1. /\ phase \in DOMAIN phases /\ ph = phases[phase]
      /\ c \in Machines /\ Sound(phases, c)
  BY CurrentSound
<1>2. home[doc] = c
  BY CurrentSound DEF FirstStays
<1>3. command = "building"
  BY CurrentPhase
<1>4. /\ Covered(phases, phase)
      /\ \A j \in progress : KeyOf(ph, ph.steps[j]) \in record
  BY <1>1, <1>3 DEF BuildInv, Course
<1> HIDE DEF phases, c
<1>5. ASSUME NEW i \in Active(ph), ConfigKey(c) \in Behind(phases, phase, i)
      PROVE  c \in Configured(world)
  <2>1. /\ i \in DOMAIN ph.steps
        /\ \A j \in DOMAIN ph.steps : Precedes(ph, j, i) => j \in progress
    BY DEF Active, Left
  <2>2. CASE ConfigKey(c) \in record
    BY <1>1, <2>2 DEF Kept
  <2>3. CASE ConfigKey(c) \notin record
    <3>1. ConfigKey(c) \in Earlier(phases, phase)
      BY <1>1, <1>4, <1>5, <2>1, <2>3 DEF Behind
    <3>2. PICK q \in DOMAIN phases : q < phase /\ ConfigKey(c) \in Keys(phases[q])
      BY <3>1 DEF Earlier
    <3>3. phases[q].id \in finished
      BY <1>4, <2>3, <3>2 DEF Covered, PassedOver
    <3>4. phases[q].id = "l1-bootstrap"
      BY <3>2 DEF Keys, KeyOf, ConfigKey
    <3> QED
      BY <1>2, <3>3, <3>4 DEF Kept
  <2> QED
    BY <2>2, <2>3
<1>6. ASSUME NEW i \in Active(ph)
      PROVE  FitStep(ph.steps[i], Configured(world)) /\ Looks(ph, ph.steps[i])
  <2>1. i \in DOMAIN ph.steps
    BY DEF Active, Left
  <2>2. /\ \/ FitStep(ph.steps[i], {})
           \/ FitStep(ph.steps[i], {c}) /\ ConfigKey(c) \in Behind(phases, phase, i)
        /\ Looks(ph, ph.steps[i])
    BY <1>1, <2>1 DEF Sound
  <2>3. CASE FitStep(ph.steps[i], {})
    BY <2>2, <2>3, FitMore
  <2>4. CASE FitStep(ph.steps[i], {c}) /\ ConfigKey(c) \in Behind(phases, phase, i)
    <3>1. {c} \subseteq Configured(world)
      BY <1>5, <2>4
    <3> QED
      BY <2>2, <2>4, <3>1, FitMore
  <2> QED
    BY <2>2, <2>3, <2>4
<1> QED
  BY <1>6

\* A step that is settled is recorded with what it looks at in place.
LEMMA SettledKept ==
    ASSUME NEW home, Marked(world'), Configured(world) \subseteq Configured(world'), Kept(home),
           NEW ph, NEW i, Looks(ph, ph.steps[i]),
           record' = record \cup {KeyOf(ph, ph.steps[i])}, finished' = finished, doc' = doc,
           KeyOf(ph, ph.steps[i]) \in record \/ Holds(ph.steps[i], world')
    PROVE  Kept(home)'
<1> SUFFICES ASSUME NEW h \in Machines, ConfigKey(h) \in record' PROVE h \in Configured(world')
  BY DEF Kept
<1>1. CASE ConfigKey(h) \in record
  BY <1>1 DEF Kept
<1>2. CASE ConfigKey(h) \notin record
  <2>1. ConfigKey(h) = KeyOf(ph, ph.steps[i])
    BY <1>2
  <2>2. ph.id = "l1-bootstrap" /\ ph.steps[i].host = h /\ ph.steps[i].id = "config"
    BY <2>1 DEF ConfigKey, KeyOf
  <2>3. PICK body : <<<<h, "config.yaml">>, body>> \in ph.steps[i].finds
    BY <2>2 DEF Looks
  <2>4. Holds(ph.steps[i], world')
    BY <1>2, <2>1
  <2>5. <<h, "config.yaml">> \in DOMAIN world'
    BY <2>3, <2>4 DEF Holds, Is
  <2> QED
    BY <2>5 DEF Configured
<1> QED
  BY <1>1, <1>2

\* What has become of the machines in a command that is not refused.
LEMMA MarkedKept ==
    ASSUME NEW home, Marked(world'), Configured(world) \subseteq Configured(world'), Kept(home),
           record' \subseteq record, finished' \subseteq finished, home[doc'] = home[doc]
    PROVE  Kept(home)'
  BY DEF Kept

\* How far a step comes that fails is some number of its writes.
LEMMA StopsWithin ==
    ASSUME NEW step, IsSequence(step.writes), NEW n \in StopsAt(step)
    PROVE  n \in Nat /\ n <= Len(step.writes)
<1> DEFINE ws == step.writes
<1>1. Len(ws) \in Nat
  <2>1. PICK S : ws \in Seq(S)
    BY DEF IsSequence
  <2> QED
    BY <2>1
<1>2. CASE n = Len(ws)
  BY <1>1, <1>2
<1>3. CASE n \in 0..Max({0, Len(ws) - 1})
  <2>1. Max({0, Len(ws) - 1}) \in {0, Len(ws) - 1}
    <3> DEFINE top == IF Len(ws) = 0 THEN 0 ELSE Len(ws) - 1
    <3>1. top \in {0, Len(ws) - 1} /\ \A y \in {0, Len(ws) - 1} : top >= y
      BY <1>1
    <3> HIDE DEF top
    <3> QED
      BY <3>1 DEF Max
  <2> QED
    BY <1>1, <1>3, <2>1
<1> QED
  BY <1>2, <1>3 DEF StopsAt

\* With the phase of the first server, its configuration is done.
LEMMA LeaveKept ==
    ASSUME NEW home, FirstStays(home), BuildInv, Kept(home), NEW ph \in Current, Leave(ph)
    PROVE  Kept(home)'
<1> DEFINE phases == Loaded[doc].phases
           c == Loaded[doc].spec.topology.servers[1].host
<1>1. /\ Left(ph) = {}
      /\ finished' = finished \cup {ph.id}
      /\ UNCHANGED <<doc, world, record>>
  BY DEF Leave
<1>2. CASE ph.id = "l1-bootstrap"
  <2>1. /\ phase \in DOMAIN phases /\ ph = phases[phase]
        /\ doc \in DOMAIN Documents /\ Loaded[doc].refused = {}
        /\ c \in Machines /\ Configures(phases, c)
    BY CurrentSound
  <2>2. home[doc] = c
    BY <2>1 DEF FirstStays
  <2>3. PICK q \in DOMAIN phases : ConfigKey(c) \in Keys(phases[q])
    BY <2>1 DEF Configures
  <2>4. phases[q].id = "l1-bootstrap"
    BY <2>3 DEF Keys, KeyOf, ConfigKey
  <2>5. phases[q] = ph
    <3>1. q = phase
      BY <1>2, <2>1, <2>4, LoadedDiffer
    <3> QED
      BY <2>1, <3>1
  <2>6. Keys(ph) \subseteq record
    BY <1>1, <2>1, CurrentPhase DEF Left, Keys, BuildInv, Course
  <2>7. c \in Configured(world)
    BY <2>1, <2>3, <2>5, <2>6 DEF Kept
  <2> QED
    BY <1>1, <2>2, <2>7 DEF Kept, Marked, Configured
<1>3. CASE ph.id # "l1-bootstrap"
  BY <1>1, <1>3 DEF Kept, Marked, Configured
<1> QED
  BY <1>2, <1>3

\* A step that is skipped, seen, applied, or applied in part leaves the machines marked.
LEMMA WorkKeeps ==
    ASSUME NEW home, FirstStays(home), BuildInv, Kept(home), Work
    PROVE  Kept(home)' /\ CanBeRunAgain'
<1>1. PICK ph \in Current :
          \/ Pass(ph)
          \/ Leave(ph)
          \/ \E i \in Active(ph) : Skip(ph, i) \/ Observe(ph, i) \/ Apply(ph, i) \/ Fail(ph, i)
  BY DEF Work
<1>9. CASE Pass(ph) \/ Leave(ph)
  <2>1. outcome = "none" /\ outcome' = outcome
    BY <1>9, CurrentPhase DEF BuildInv, Types, Pass, Leave
  <2>2. CASE Pass(ph)
    <3>1. UNCHANGED <<doc, world, record, finished>>
      BY <2>2 DEF Pass
    <3> QED
      BY <2>1, <3>1 DEF CanBeRunAgain, Kept, Marked, Configured
  <2>3. CASE Leave(ph)
    BY <2>1, <2>3, LeaveKept DEF CanBeRunAgain
  <2> QED
    BY <1>9, <2>2, <2>3
<1> SUFFICES ASSUME NEW i \in Active(ph), Skip(ph, i) \/ Observe(ph, i) \/ Apply(ph, i) \/ Fail(ph, i)
             PROVE  Kept(home)' /\ CanBeRunAgain'
  BY <1>1, <1>9
<1>2. Skip(ph, i) \/ Observe(ph, i) \/ Apply(ph, i) \/ Fail(ph, i)
  OBVIOUS
<1> DEFINE step == ph.steps[i]
<1>3. FitStep(step, Configured(world)) /\ Looks(ph, step)
  BY WorkFits
<1>4. outcome = "none" /\ command = "building"
  BY CurrentPhase DEF BuildInv, Types
<1>5. CASE Skip(ph, i) \/ Observe(ph, i)
  <2>1. /\ world' = world /\ outcome' = outcome /\ finished' = finished /\ doc' = doc
        /\ record' = record \cup {KeyOf(ph, step)}
        /\ KeyOf(ph, step) \in record \/ Holds(step, world')
    BY <1>5 DEF Skip, Observe, Settle, Known
  <2>2. Marked(world') /\ Configured(world) \subseteq Configured(world')
    BY <2>1 DEF Kept
  <2>3. Kept(home)'
    BY <1>3, <2>1, <2>2, SettledKept
  <2> QED
    BY <1>4, <2>1, <2>3 DEF CanBeRunAgain
<1>6. CASE Apply(ph, i)
  <2>1. /\ world' = Through(world, step.writes) /\ outcome' = outcome /\ finished' = finished /\ doc' = doc
        /\ record' = record \cup {KeyOf(ph, step)}
        /\ Holds(step, world')
    BY <1>6 DEF Apply, Works, Settle, Done
  <2>2. FitWrites(step.writes, Configured(world))
    BY <1>3 DEF FitStep
  <2>3. Marked(world') /\ Configured(world) \subseteq Configured(world')
    BY <2>1, <2>2, ThroughMarks DEF Kept
  <2>4. Kept(home)'
    BY <1>3, <2>1, <2>3, SettledKept
  <2> QED
    BY <1>4, <2>1, <2>4 DEF CanBeRunAgain
<1>7. CASE Fail(ph, i)
  <2>1. PICK n \in StopsAt(step) : world' = Through(world, SubSeq(step.writes, 1, n))
    BY <1>7 DEF Fail, Partly
  <2>2. /\ outcome' = "failed" /\ record' = record /\ doc' = doc
        /\ \E begun \in SUBSET Busy(ph) : LeftOff(ph, begun)
    BY <1>7 DEF Fail, Returns
  <2>7. finished' \subseteq finished
    BY <2>2, LeftOffKeeps
  <2>3. FitWrites(step.writes, Configured(world))
    BY <1>3 DEF FitStep
  <2> DEFINE ws == step.writes
  <2>4. n \in Nat /\ n <= Len(ws)
    BY <2>1, <2>3, StopsWithin DEF FitWrites
  <2>5. FitWrites(SubSeq(ws, 1, n), Configured(world))
    BY <2>3, <2>4, FewerFit
  <2>6. Marked(world') /\ Configured(world) \subseteq Configured(world')
    BY <2>1, <2>5, ThroughMarks DEF Kept
  <2> QED
    BY <2>2, <2>6, <2>7, MarkedKept DEF CanBeRunAgain
<1> QED
  BY <1>2, <1>5, <1>6, <1>7

\* What a command wrote that is killed in the phase ph: parts of its steps' writes.
KilledAt(ph, parts) ==
    /\ IsSequence(parts)
    /\ world' = Through(world, FlattenSeq(parts))
    /\ \A q \in ToSet(parts) :
          q = <<>> \/ \E i \in Busy(ph), n \in Nat :
                        /\ n <= Len(WritesOf(ph.steps[i]))
                        /\ q = SubSeq(WritesOf(ph.steps[i]), 1, n)

\* That is what it wrote (ShellStep.Apply).
LEMMA KilledThrough ==
    ASSUME BuildInv, Kill
    PROVE  /\ Returns("killed")
           /\ UNCHANGED <<doc, refusal, record, ranWith, recheck, plan, settled, rerendered, edits>>
           /\ again' \subseteq record /\ finished' \subseteq finished
           /\ \E ph \in Current : \E parts : KilledAt(ph, parts)
<1> DEFINE W(ph, i) == WritesOf(ph.steps[i])
           Ends(ph, begun) == 0..Max({0} \cup {Len(W(ph, i)) : i \in begun})
           Cuts(ph, begun, cut) ==
              /\ \A i \in begun : cut[i] <= Len(W(ph, i))
              /\ world' = Through(world, FlattenSeq([i \in DOMAIN ph.steps |->
                             IF i \in begun THEN SubSeq(W(ph, i), 1, cut[i]) ELSE <<>>]))
              /\ LeftOff(ph, begun)
<1>1. /\ Returns("killed")
      /\ UNCHANGED <<doc, refusal, record, ranWith, recheck, plan, settled, rerendered, edits>>
      /\ \E ph \in Current : \E begun \in SUBSET Busy(ph) : \E cut \in [begun -> Ends(ph, begun)] :
            Cuts(ph, begun, cut)
  BY Zenon DEF Kill
<1>2. PICK ph \in Current : \E begun \in SUBSET Busy(ph) : \E cut \in [begun -> Ends(ph, begun)] :
            Cuts(ph, begun, cut)
  BY <1>1
<1>3. PICK begun \in SUBSET Busy(ph) : \E cut \in [begun -> Ends(ph, begun)] : Cuts(ph, begun, cut)
  BY <1>2
<1>4. PICK cut \in [begun -> Ends(ph, begun)] : Cuts(ph, begun, cut)
  BY <1>3
<1>5. \A i \in begun : cut[i] \in Nat /\ cut[i] <= Len(W(ph, i))
  <2> DEFINE top == Max({0} \cup {Len(W(ph, i)) : i \in begun})
  <2>1. Ends(ph, begun) = 0..top
    OBVIOUS
  <2>2. \A i \in begun : cut[i] <= Len(W(ph, i))
    BY <1>4
  <2> HIDE DEF top, Ends
  <2>3. \A i \in begun : cut[i] \in Nat
    BY <1>4, <2>1
  <2> QED
    BY <2>2, <2>3
<1> DEFINE Part(i) == IF i \in begun THEN SubSeq(W(ph, i), 1, cut[i]) ELSE <<>>
           parts == [i \in DOMAIN ph.steps |-> Part(i)]
<1>6. world' = Through(world, FlattenSeq(parts)) /\ LeftOff(ph, begun)
  BY <1>4
<1>7. again' \subseteq record /\ finished' \subseteq finished
  BY <1>6, LeftOffKeeps
<1> HIDE DEF W
<1>8. ASSUME NEW j
      PROVE  Part(j) = <<>> \/ \E i \in Busy(ph), n \in Nat : n <= Len(W(ph, i)) /\ Part(j) = SubSeq(W(ph, i), 1, n)
  BY <1>5
<1> HIDE DEF Part
<1>9. PICK S : ph.steps \in Seq(S)
  BY CurrentSound DEF IsSequence
<1>10. parts \in Seq({Part(i) : i \in DOMAIN ph.steps})
  BY <1>9
<1>11. \A q \in ToSet(parts) :
          q = <<>> \/ \E i \in Busy(ph), n \in Nat : n <= Len(W(ph, i)) /\ q = SubSeq(W(ph, i), 1, n)
  BY <1>8 DEF ToSet
<1> HIDE DEF parts
<1>12. KilledAt(ph, parts)
  BY <1>6, <1>10, <1>11 DEF KilledAt, IsSequence, W
<1> QED
  BY <1>1, <1>7, <1>12

\* So does a command that is killed with its steps at any point (ShellStep.Apply).
LEMMA KillKeeps ==
    ASSUME NEW home, FirstStays(home), BuildInv, Kept(home), Kill
    PROVE  Kept(home)' /\ CanBeRunAgain'
<1>1. PICK ph \in Current : \E parts : KilledAt(ph, parts)
  BY KilledThrough
<1>2. outcome' = "killed" /\ record' = record /\ doc' = doc /\ finished' \subseteq finished
  BY KilledThrough DEF Returns
<1>3. PICK parts : KilledAt(ph, parts)
  BY <1>1
<1>4. /\ IsSequence(parts) /\ world' = Through(world, FlattenSeq(parts))
      /\ \A q \in ToSet(parts) :
            q = <<>> \/ \E i \in Active(ph), n \in Nat :
                          /\ n <= Len(WritesOf(ph.steps[i]))
                          /\ q = SubSeq(WritesOf(ph.steps[i]), 1, n)
  BY <1>3 DEF KilledAt, Busy
<1> DEFINE C == Configured(world)
           W(i) == WritesOf(ph.steps[i])
<1>5. ASSUME NEW i \in Active(ph) PROVE FitWrites(W(i), C)
  <2>1. FitWrites(ph.steps[i].writes, C)
    BY WorkFits DEF FitStep
  <2>2. W(i) = <<>> \/ W(i) = ph.steps[i].writes
    BY DEF WritesOf
  <2> QED
    BY <2>1, <2>2, NoWritesFit
<1>6. ASSUME NEW q \in ToSet(parts) PROVE FitWrites(q, C)
  <2>1. CASE q = <<>>
    BY <2>1, NoWritesFit
  <2>2. ASSUME NEW i \in Active(ph), NEW n \in Nat, n <= Len(W(i)), q = SubSeq(W(i), 1, n)
        PROVE  FitWrites(q, C)
    <3>1. FitWrites(W(i), C)
      BY <1>5
    <3> HIDE DEF W, C
    <3> QED
      BY <2>2, <3>1, FewerFit
  <2> QED
    BY <1>4, <2>1, <2>2
<1> HIDE DEF C
<1>7. FitWrites(FlattenSeq(parts), C)
  BY <1>4, <1>6, FlattenedHolds DEF FitWrites
<1>8. Marked(world') /\ Configured(world) \subseteq Configured(world')
  BY <1>4, <1>7, ThroughMarks DEF Kept, C
<1> QED
  BY <1>2, <1>8, MarkedKept DEF CanBeRunAgain

\* A machine that reboots starts RKE2 and forgets what is not in a file: its marks are.
LEMMA RebootKeeps ==
    ASSUME NEW home, Kept(home), CanBeRunAgain, NEW h \in Machines, Reboot(h)
    PROVE  Kept(home)' /\ CanBeRunAgain'
<1> DEFINE starts == When(<<h, "process.config">> \in DOMAIN world, <<StartWrites(h)>>)
           swap == When(<<h, "fstab">> \notin DOMAIN world, <<Drop(<<h, "swap">>)>>)
           kernel == When(<<h, "modules-load.d">> \notin DOMAIN world, <<Drop(<<h, "modules">>)>>)
           boots == starts \o swap \o kernel
           Aside == {<<g, name>> : g \in Machines, name \in {"/etc/rancher/rke2", "registries.yaml", "config.yaml"}}
           Calm(x) == Fit(x, {}) /\ Aside \cap (Touched(x) \cup x.drop) = {}
           AllCalm(q) == IsSequence(q) /\ \A x \in ToSet(q) : Calm(x)
<1>1. /\ world' = Through(world, boots)
      /\ UNCHANGED <<doc, outcome, refusal, record, finished>>
  BY DEF Reboot
<1>2. Calm(StartWrites(h))
  <2>1. /\ Fit(StartWrites(h), {})
        /\ StartWrites(h).drop = {}
        /\ \A l \in Touched(StartWrites(h)) :
             l \in {<<h, "process.config">>, <<h, "process.registries">>, <<h, "process.rke2">>}
    BY StartFits
  <2> QED
    BY <2>1
<1>3. ASSUME NEW name \in {"swap", "modules"} PROVE Calm(Drop(<<h, name>>))
  <2>1. /\ Drop(<<h, name>>).drop = {<<h, name>>}
        /\ Touched(Drop(<<h, name>>)) = {}
    BY DEF Drop, NoWrite, Touched
  <2>2. Fit(Drop(<<h, name>>), {})
    BY <2>1 DEF Fit, Touched
  <2> QED
    BY <2>1, <2>2
<1> HIDE DEF Calm
<1>4. \A x, cond : Calm(x) => AllCalm(When(cond, <<x>>))
  BY TupleHolds DEF When
<1>5. AllCalm(starts) /\ AllCalm(swap) /\ AllCalm(kernel)
  BY <1>2, <1>3, <1>4
<1>6. AllCalm(boots)
  <2> HIDE DEF starts, swap, kernel
  <2>1. \A x, y : AllCalm(x) /\ AllCalm(y) => AllCalm(x \o y)
    BY ConcatHolds
  <2> QED
    BY <1>5, <2>1
<1> HIDE DEF boots
<1>7. Marked(world') /\ Configured(world) \subseteq Configured(world')
  <2>1. FitWrites(boots, {}) /\ {} \subseteq Configured(world)
    BY <1>6 DEF FitWrites, Calm
  <2> QED
    BY <1>1, <2>1, ThroughMarks DEF Kept
<1>8. ASSUME NEW l \in Aside PROVE l \in DOMAIN world' <=> l \in DOMAIN world
  <2>1. \A x \in ToSet(boots) : l \notin Touched(x) \cup x.drop
    BY <1>6, <1>8 DEF Calm
  <2> QED
    BY <1>1, <1>6, <2>1, ThroughLeaves
<1>9. Unmarked => Unmarked'
  <2> SUFFICES ASSUME NEW g \in Machines, <<g, "/etc/rancher/rke2">> \in DOMAIN world,
                      \A l \in DOMAIN world : l # <<g, "registries.yaml">> /\ l # <<g, "config.yaml">>
               PROVE  Unmarked'
    BY DEF Unmarked
  <2>1. /\ <<g, "/etc/rancher/rke2">> \in Aside /\ <<g, "registries.yaml">> \in Aside
        /\ <<g, "config.yaml">> \in Aside
    OBVIOUS
  <2>2. /\ <<g, "/etc/rancher/rke2">> \in DOMAIN world'
        /\ <<g, "registries.yaml">> \notin DOMAIN world' /\ <<g, "config.yaml">> \notin DOMAIN world'
    BY <1>8, <2>1
  <2> QED
    BY <2>2 DEF Unmarked
<1>10. CanBeRunAgain'
  BY <1>1, <1>9 DEF CanBeRunAgain, Foreign
<1> QED
  BY <1>1, <1>7, <1>10, MarkedKept

\* The chart's rerun writes what Cilium's pods read, and nothing the checks look at.
LEMMA RenderKeeps ==
    ASSUME NEW home, Kept(home), CanBeRunAgain, NEW h \in Machines, Render(h)
    PROVE  Kept(home)' /\ CanBeRunAgain'
<1> DEFINE config == Object("cilium-config")
<1>1. /\ world' = Write(world, Rerun(h))
      /\ UNCHANGED <<doc, outcome, refusal, record, finished>>
  BY DEF Render
<1>2. /\ Rerun(h).put = <<>> /\ Rerun(h).read = Just(config, <<h, "cilium-values">>)
      /\ Rerun(h).keep = <<>> /\ Rerun(h).drop = {}
  BY DEF Rerun, Copy, ReadAll, NoWrite
<1>3. DOMAIN Just(config, <<h, "cilium-values">>) = {config} /\ DOMAIN <<>> = {}
  <2>1. \A v : DOMAIN Just(config, v) = {config}
    BY JustHas
  <2> QED
    BY <2>1
<1>4. config \in DOMAIN world
  BY DEF Render
<1> HIDE DEF config
<1> DEFINE x == Rerun(h)
<1> HIDE DEF x
<1>5. DOMAIN world' = DOMAIN world
  <2>1. DOMAIN world' = DOMAIN x.put \cup {k \in DOMAIN x.read : x.read[k] \in DOMAIN world}
                        \cup (DOMAIN x.keep \ DOMAIN world) \cup (DOMAIN world \ x.drop)
    BY <1>1, WriteDomain DEF x
  <2>2. DOMAIN x.put = {} /\ DOMAIN x.read = {config} /\ DOMAIN x.keep = {} /\ x.drop = {}
    BY <1>2, <1>3 DEF x
  <2> QED
    BY <2>1, <2>2, <1>4
<1>6. Marked(world') /\ Configured(world') = Configured(world)
  BY <1>5 DEF Kept, Marked, Configured
<1>7. CanBeRunAgain'
  BY <1>1, <1>5 DEF CanBeRunAgain, Unmarked, Foreign
<1> QED
  BY <1>1, <1>6, <1>7, MarkedKept

-----------------------------------------------------------------------------
(* The refusal, and the invariant.                                         *)

\* What stops a command, other than a check that blocks it, is said in words.
LEMMA StoppedByChecks ==
    ASSUME NEW d \in DOMAIN Documents, NEW w, NEW approve,
           Verdict(Loaded[d], w, approve).stops \cap Remains # {}
    PROVE  /\ Loaded[d].refused = {}
           /\ Blocked(Run(Loaded[d].spec, w)) \cap Remains # {}
<1> DEFINE l == Loaded[d]
           report == Run(l.spec, w)
           p == Generate(l.spec, report.nodes, FALSE)
           v == Judge(Blocked(report), p, l.phases, approve)
           words == {"document", "material", "no-capabilities", "blocked", "forbidden", "needs-approval", "",
                     "downgrade", "disruptive"}
<1>1. words \cap Remains = {}
  BY DEF Remains
<1>2. l.refused \subseteq words
  <2>1. l = Load(Documents[d])
    BY DEF Loaded
  <2>2. \A s : Resolved(s).refused \subseteq words
    <3> TAKE s
    <3>1. CASE MaterialFails(s, FALSE)
      <4>1. Resolved(s) = [refused |-> {"material"}]
        BY <3>1 DEF Resolved
      <4> QED
        BY <4>1
    <3>2. CASE ~MaterialFails(s, FALSE)
      <4>1. Resolved(s) = Entry(s, resolveMaterial(s))
        BY <3>2 DEF Resolved
      <4>2. \A m : Entry(s, m).refused = {}
        BY DEF Entry
      <4> QED
        BY <4>1, <4>2
    <3> QED
      BY <3>1, <3>2
  <2>3. CASE ~Accepted(Documents[d], FALSE)
    <3>1. l = [refused |-> {"document"}]
      BY <2>1, <2>3 DEF Load
    <3> QED
      BY <3>1
  <2>4. CASE Accepted(Documents[d], FALSE)
    <3>1. l = Resolved(ApplyProfile(Documents[d]))
      BY <2>1, <2>4 DEF Load
    <3> QED
      BY <2>2, <3>1
  <2> QED
    BY <2>3, <2>4
<1>3. p.error \in words
  BY DEF Generate
<1> HIDE DEF l, report, p, words
<1>4. v.stops \subseteq Blocked(report) \cup words
  BY <1>3 DEF Judge, words
<1>5. l.refused = {}
  <2>1. SUFFICES ASSUME l.refused # {} PROVE FALSE
    OBVIOUS
  <2>2. Verdict(l, w, approve).stops = l.refused
    BY <2>1 DEF Verdict
  <2> QED
    BY <1>1, <1>2, <2>2 DEF l
<1>6. Verdict(l, w, approve) = v
  BY <1>5 DEF Verdict, Examined, report, p
<1>7. Blocked(report) \cap Remains # {}
  <2> HIDE DEF v
  <2>1. v.stops \cap Remains # {}
    BY <1>6 DEF l
  <2> QED
    BY <1>1, <1>4, <2>1
<1> QED
  BY <1>5, <1>7 DEF l, report

\* A machine that bears marks is not taken for somebody else's.
LEMMA RefuseKeeps ==
    ASSUME NEW home, BuildInv, Kept(home), NEW approve, Refuse(approve)
    PROVE  Kept(home)' /\ CanBeRunAgain'
<1> DEFINE s == Loaded[doc].spec
           report == Run(s, world)
           hosts == {n.host : n \in NodesOf(s)}
<1>1. /\ refusal' = Verdict(Loaded[doc], world, approve).stops
      /\ UNCHANGED <<doc, world, record, finished>>
  BY DEF Refuse
<1>2. Kept(home)'
  <2>1. Marked(world') /\ Configured(world) \subseteq Configured(world')
    BY <1>1 DEF Kept
  <2> QED
    BY <1>1, <2>1, MarkedKept
<1>3. SUFFICES ASSUME refusal' \cap {"PF-802", "PF-803"} # {} PROVE Unmarked \/ Foreign
  BY <1>1, <1>2 DEF CanBeRunAgain, Unmarked, Foreign
<1>4. doc \in DOMAIN Documents
  BY DEF BuildInv, Types
<1>5. Loaded[doc].refused = {} /\ Blocked(report) \cap Remains # {}
  BY <1>1, <1>3, <1>4, StoppedByChecks DEF Remains
<1>6. NodesOf(s) = NodesOf(Documents[doc])
  BY <1>4, <1>5, LoadedIsAccepted DEF NodesOf, AllNodes
<1>7. Blocking(report.document) \cap Remains = {}
  BY DocumentLacks DEF Blocking
<1>8. DOMAIN report.nodes = hosts
  BY DEF Run
<1>9. PICK h \in hosts : Blocking(report.nodes[h]) \cap Remains # {}
  <2> HIDE DEF report
  <2> QED
    BY <1>5, <1>7, <1>8 DEF Blocked
<1> DEFINE n == CHOOSE m \in NodesOf(s) : m.host = h
<1>10. report.nodes[h] = NodeChecks(n, s, world) ++ peerChecks(h, hosts)
  BY DEF Run
<1>11. n \in NodesOf(s) /\ n.host = h
  OBVIOUS
<1> HIDE DEF report, n, s, hosts
<1>12. (Installed(n.host, world) \/ Running(n.host, world)) /\ ~ours(n.host, world)
  BY <1>9, <1>10, RemainsBlock
<1>13. n.host \in Machines
  BY <1>4, <1>6, <1>11, MachinesAssumption
<1>14. <<n.host, "config.yaml">> \notin DOMAIN world /\ <<n.host, "registries.yaml">> \notin DOMAIN world
  BY <1>12 DEF ours
<1>15. /\ <<n.host, "process.config">> \notin DOMAIN world
       /\ <<n.host, "cilium-values">> \notin DOMAIN world
  BY <1>13, <1>14 DEF Kept, Marked, Configured
<1>16. CASE Facts[n.host].foreign
  BY <1>6, <1>11, <1>16 DEF Foreign
<1>17. CASE <<n.host, "/etc/rancher/rke2">> \in DOMAIN world
  BY <1>13, <1>14, <1>17 DEF Unmarked
<1> QED
  BY <1>12, <1>15, <1>16, <1>17 DEF Installed, Running

\* In the first states nothing is recorded, and what was left outside is as assumed.
LEMMA MarkInit == ASSUME NEW home PROVE Init => MarkInv(home)
<1> SUFFICES ASSUME Init PROVE MarkInv(home)
  OBVIOUS
<1>1. BuildInv
  BY BuildInit
<1>2. doc \in DOMAIN Documents /\ world = Outside[doc] /\ record = {} /\ finished = {} /\ outcome = "none"
  BY DEF Init
<1>3. Kept(home)
  BY <1>2, OutsideAssumption DEF Kept, Marked
<1> QED
  BY <1>1, <1>2, <1>3 DEF MarkInv, CanBeRunAgain

\* Every step of a command, and what happens between commands, keeps the machines marked.
LEMMA MarkStep == ASSUME NEW home, FirstStays(home) PROVE MarkInv(home) /\ [Next]_vars => MarkInv(home)'
<1> SUFFICES ASSUME MarkInv(home), [Next]_vars PROVE MarkInv(home)'
  OBVIOUS
<1>0. BuildInv /\ Kept(home) /\ CanBeRunAgain
  BY DEF MarkInv
<1>1. BuildInv'
  BY <1>0, BuildStep
<1> SUFFICES Kept(home)' /\ CanBeRunAgain'
  BY <1>1 DEF MarkInv
<1>2. ASSUME world' = world, record' \subseteq record, finished' \subseteq finished, home[doc'] = home[doc]
      PROVE  Kept(home)'
  <2>1. Marked(world') /\ Configured(world) \subseteq Configured(world')
    BY <1>0, <1>2 DEF Kept
  <2> QED
    BY <1>0, <1>2, <2>1, MarkedKept
<1>3. ASSUME NEW approve \in BOOLEAN, Refuse(approve) PROVE Kept(home)' /\ CanBeRunAgain'
  BY <1>0, <1>3, RefuseKeeps
<1>4. ASSUME NEW resume \in BOOLEAN, Begin(resume) PROVE Kept(home)' /\ CanBeRunAgain'
  <2>1. world' = world /\ record' \subseteq record /\ finished' \subseteq finished /\ doc' = doc /\ outcome' = "none"
    BY <1>4 DEF Begin
  <2> QED
    BY <1>2, <2>1 DEF CanBeRunAgain
<1>5. CASE Work
  BY <1>0, <1>5, WorkKeeps
<1>6. CASE Finish
  <2>1. world' = world /\ record' = record /\ finished' = finished /\ doc' = doc /\ outcome' # "refused"
    BY <1>6 DEF Finish, Returns
  <2> QED
    BY <1>2, <2>1 DEF CanBeRunAgain
<1>7. CASE Kill
  BY <1>0, <1>7, KillKeeps
<1>8. ASSUME NEW h \in Machines, Reboot(h) \/ Render(h) PROVE Kept(home)' /\ CanBeRunAgain'
  BY <1>0, <1>8, RebootKeeps, RenderKeeps
<1>9. ASSUME NEW d \in DOMAIN Documents, Edit(d) PROVE Kept(home)' /\ CanBeRunAgain'
  <2>1. world' = world /\ record' = record /\ finished' = finished /\ outcome' = "none"
    BY <1>9 DEF Edit
  <2>2. home[doc'] = home[doc]
    BY <1>9 DEF Edit, FirstStays
  <2> QED
    BY <1>2, <2>1, <2>2 DEF CanBeRunAgain
<1>10. CASE UNCHANGED vars
  <2>1. UNCHANGED <<doc, world, record, finished, outcome, refusal>>
    BY <1>10 DEF vars
  <2> QED
    BY <1>0, <1>2, <2>1 DEF CanBeRunAgain, Unmarked, Foreign
<1> QED
  BY <1>3, <1>4, <1>5, <1>6, <1>7, <1>8, <1>9, <1>10 DEF Next

\* The inductive invariant of the marks (residue.go, ours): in every state of a build,
\* whoever has RKE2's process or Cilium's values has RKE2's configuration as well, and
\* so has the first server once its step is on the record or its phase is done - as
\* long as no edit of the document makes another machine the first server.
THEOREM MarkInductive == ASSUME NEW home, FirstStays(home) PROVE Spec => []MarkInv(home)
<1>1. Init => MarkInv(home)
  BY MarkInit
<1>2. MarkInv(home) /\ [Next]_vars => MarkInv(home)'
  BY MarkStep
<1> QED
  BY <1>1, <1>2, PTL DEF Spec

\* Whatever is built, in part or whole, killed, rebooted and edited in between, the
\* program never refuses its own machines as somebody else's cluster (PF-802, PF-803),
\* unless the machine was foreign, or RKE2 was left there without its configuration.
\* The edits are those that leave the first server: a run that is resumed with another
\* one takes the word of the directory that its machine was configured (runner.go Run).
THEOREM NotTakenForAnothers == ASSUME NEW home, FirstStays(home) PROVE Spec => []CanBeRunAgain
<1>1. MarkInv(home) => CanBeRunAgain
  BY DEF MarkInv
<1>2. Spec => []MarkInv(home)
  BY MarkInductive
<1> QED
  BY <1>1, <1>2, PTL

=============================================================================
