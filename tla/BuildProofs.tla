----------------------------- MODULE BuildProofs -----------------------------
(***************************************************************************)
(* What is proved of a build for every document, every machine and every   *)
(* site: what a plan is good for (internal/plan), and that the command     *)
(* goes through what the document comes to step by step, from whatever the *)
(* commands before it left.                                                *)
(***************************************************************************)
EXTENDS ClusterBuild, CertificateProofs, TLAPS

-----------------------------------------------------------------------------
(* The plan.                                                               *)

\* What the choice of a dataplane comes to: only agents are left out, never all
\* of the nodes; without a downgrade it is the preset, and then the nodes that
\* remain can run it.
LEMMA DataplaneDecided ==
    ASSUME NEW s, NEW nodes
    PROVE  LET d == decideDataplane(s, nodes)
               preset == s.kubernetes.dataplane.preset IN
           /\ d.excluded \subseteq Unusable(nodes) \cap AgentHosts(s)
           /\ d.excluded # {} => d.excluded # DOMAIN nodes
           /\ d.downgrades = {} => d.dataplane = preset
           /\ d.downgrades = {} /\ preset # "canal-traefik" => Unusable(nodes) \subseteq d.excluded
<1> DEFINE preset == s.kubernetes.dataplane.preset
           bad == Unusable(nodes)
           kept == [dataplane |-> preset, excluded |-> {}, downgrades |-> {}, warnings |-> {}]
           d == decideDataplane(s, nodes)
<1>1. CASE preset = "canal-traefik"
  <2>1. /\ d.dataplane = preset
        /\ d.excluded = {}
        /\ d.downgrades = {}
    BY <1>1 DEF decideDataplane
  <2> QED
    BY <2>1, <1>1
<1>2. CASE preset # "canal-traefik" /\ bad = {}
  <2>1. d = kept
    BY <1>2 DEF decideDataplane
  <2> QED
    BY <2>1, <1>2
<1>3. CASE preset # "canal-traefik" /\ bad # {} /\ bad \subseteq AgentHosts(s) /\ bad # DOMAIN nodes
  <2>1. d = [kept EXCEPT !.excluded = bad, !.warnings = {"DG-003"}]
    BY <1>3 DEF decideDataplane
  <2> QED
    BY <2>1, <1>3
<1>4. CASE preset # "canal-traefik" /\ bad # {} /\ ~(bad \subseteq AgentHosts(s) /\ bad # DOMAIN nodes)
  <2>1. /\ d.excluded = {}
        /\ "DG-001" \in d.downgrades
    BY <1>4 DEF decideDataplane
  <2> QED
    BY <2>1
<1> QED
  BY <1>1, <1>2, <1>3, <1>4

\* What a plan that is made without an error says (Generate): no node
\* has anything that blocks; the nodes are those measured without some agents, and
\* never none; a document that forbids a downgrade gets what it asks for, and
\* where it gets an eBPF dataplane it asked for, every node of the plan passed
\* each of the probes for it.
THEOREM PlanSound ==
    ASSUME NEW s, NEW nodes, NEW approve, Generate(s, nodes, approve).error = ""
    PROVE  LET p == Generate(s, nodes, approve)
               preset == s.kubernetes.dataplane.preset IN
           /\ nodes # <<>>
           /\ \A h \in DOMAIN nodes : Blocking(nodes[h]) = {}
           /\ p.nodes = DOMAIN nodes \ p.excluded
           /\ p.excluded \subseteq AgentHosts(s)
           /\ p.excluded # {} => p.nodes # {}
           /\ s.kubernetes.dataplane.downgradePolicy = "forbid" => p.downgrades = {}
           /\ p.downgrades = {} => p.dataplane = preset
           /\ p.downgrades = {} /\ preset # "canal-traefik" => \A h \in p.nodes : EBPFUsable(nodes[h])
<1> DEFINE p == Generate(s, nodes, approve)
           network == decideDataplane(s, nodes)
           disks == decideStorage(s, nodes, network.excluded)
           policy == Or(s.kubernetes.dataplane.downgradePolicy, "auto")
<1>1. /\ p.dataplane = network.dataplane
      /\ p.excluded = network.excluded
      /\ p.nodes = DOMAIN nodes \ network.excluded
      /\ p.downgrades = network.downgrades \cup disks.downgrades
  BY DEF Generate
<1>2. /\ nodes # <<>>
      /\ \A h \in DOMAIN nodes : Blocking(nodes[h]) = {}
      /\ ~(p.downgrades # {} /\ policy = "forbid")
  BY <1>1 DEF Generate
<1>3. s.kubernetes.dataplane.downgradePolicy = "forbid" => policy = "forbid"
  BY DEF Or
<1>4. Unusable(nodes) \subseteq DOMAIN nodes
  BY DEF Unusable
<1>5. \A h \in DOMAIN nodes \ Unusable(nodes) : EBPFUsable(nodes[h])
  BY DEF Unusable
<1> HIDE DEF p, network, disks, policy
<1>6. /\ network.excluded \subseteq Unusable(nodes) \cap AgentHosts(s)
      /\ network.excluded # {} => network.excluded # DOMAIN nodes
      /\ network.downgrades = {} => network.dataplane = s.kubernetes.dataplane.preset
      /\ network.downgrades = {} /\ s.kubernetes.dataplane.preset # "canal-traefik"
            => Unusable(nodes) \subseteq network.excluded
  BY DataplaneDecided DEF network
<1>7. p.downgrades = {} => network.downgrades = {}
  BY <1>1
<1>8. /\ nodes # <<>>
      /\ \A h \in DOMAIN nodes : Blocking(nodes[h]) = {}
      /\ p.nodes = DOMAIN nodes \ p.excluded
      /\ p.excluded \subseteq AgentHosts(s)
      /\ p.excluded # {} => p.nodes # {}
      /\ s.kubernetes.dataplane.downgradePolicy = "forbid" => p.downgrades = {}
      /\ p.downgrades = {} => p.dataplane = s.kubernetes.dataplane.preset
      /\ p.downgrades = {} /\ s.kubernetes.dataplane.preset # "canal-traefik"
            => \A h \in p.nodes : EBPFUsable(nodes[h])
  BY <1>1, <1>2, <1>3, <1>4, <1>5, <1>6, <1>7
<1> QED
  BY <1>8 DEF p

-----------------------------------------------------------------------------
(* What a document comes to.                                               *)

IsSequence(x) == \E S : x \in Seq(S)

LEMMA SequencesConcatenate ==
    ASSUME NEW x, NEW y, IsSequence(x), IsSequence(y)
    PROVE  IsSequence(x \o y)
<1>1. PICK S : x \in Seq(S)
  BY DEF IsSequence
<1>2. PICK T : y \in Seq(T)
  BY DEF IsSequence
<1>3. x \in Seq(S \cup T) /\ y \in Seq(S \cup T)
  BY <1>1, <1>2
<1>4. x \o y \in Seq(S \cup T)
  BY <1>3
<1> QED
  BY <1>4 DEF IsSequence

LEMMA OnceIsSequence ==
    ASSUME NEW id, NEW grade, NEW steps
    PROVE  IsSequence(Once(id, grade, steps))
<1> DEFINE ph == Phase(id, grade, steps)
<1>1. <<ph>> \in Seq({ph}) /\ <<>> \in Seq({ph})
  OBVIOUS
<1>2. Once(id, grade, steps) \in {<<ph>>, <<>>}
  BY DEF Once
<1> HIDE DEF ph
<1>3. Once(id, grade, steps) \in Seq({ph})
  BY <1>1, <1>2
<1> QED
  BY <1>3 DEF IsSequence

\* The phases of a document are a sequence, whatever its steps are.
LEMMA PhasesAreSequence ==
    ASSUME NEW s, NEW m
    PROVE  IsSequence(Phases(s, m))
<1>1. \A id, grade, steps : IsSequence(Once(id, grade, steps))
  BY OnceIsSequence
<1>2. \A id, nodes, spec, server : IsSequence(joinPhase(id, nodes, spec, server))
  BY <1>1 DEF joinPhase
<1>3. \A x, y : IsSequence(x) /\ IsSequence(y) => IsSequence(x \o y)
  BY SequencesConcatenate
<1> QED
  BY <1>1, <1>2, <1>3, Zenon DEF Phases

\* A profile leaves the machines as the document has them.
LEMMA ProfileKeepsNodes ==
    ASSUME NEW s \in ClusterSpec
    PROVE  ApplyProfile(s).topology = s.topology
<1>1. \A b : Filled(s, b).topology = s.topology
  BY DEF Filled, ClusterSpec
<1> QED
  BY <1>1 DEF ApplyProfile

\* Nor the gateways.
LEMMA ProfileKeepsGateways ==
    ASSUME NEW s \in ClusterSpec
    PROVE  ApplyProfile(s).gateway = s.gateway
<1>1. \A b : Filled(s, b).gateway = s.gateway
  BY DEF Filled, ClusterSpec
<1> QED
  BY <1>1 DEF ApplyProfile

\* In a document that meets the rules no two nodes have one host.
LEMMA HostsDiffer ==
    ASSUME NEW s, TopologyErrors(s) = {}
    PROVE  \A i, j \in DOMAIN AllNodes(s) : i # j => AllNodes(s)[i].host # AllNodes(s)[j].host
<1> DEFINE all == AllNodes(s)
           hosts == [i \in DOMAIN all |-> all[i].host]
           nameless == \E n \in NodesOf(s) : n.host = ""
<1>1. Broken(NodeRules(s)) = {}
  BY Zenon DEF TopologyErrors
<1>2. ~Twice(hosts)
  <2>1. <<"host-twice", Twice(hosts)>> \in NodeRules(s)
    BY Zenon DEF NodeRules
  <2>2. Twice(hosts) \in BOOLEAN
    BY DEF Twice
  <2> QED
    BY <2>1, <2>2, <1>1, Reported
<1>3. ~nameless
  <2>1. <<"host", nameless>> \in NodeRules(s)
    BY Zenon DEF NodeRules
  <2>2. nameless \in BOOLEAN
    OBVIOUS
  <2> HIDE DEF nameless
  <2> QED
    BY <2>1, <2>2, <1>1, Reported
<1>4. \A i \in DOMAIN all : all[i].host # ""
  BY <1>3 DEF NodesOf, ToSet
<1> QED
  BY <1>2, <1>4 DEF Twice

\* A document that is not refused was accepted with its profile's defaults, and
\* comes to a sequence of phases.
LEMMA LoadedIsAccepted ==
    ASSUME NEW d \in DOMAIN Documents, Loaded[d].refused = {}
    PROVE  /\ Loaded[d].spec.topology = Documents[d].topology
           /\ Loaded[d].spec.gateway = Documents[d].gateway
           /\ TopologyErrors(Loaded[d].spec) = {}
           /\ Loaded[d].phases = Phases(Loaded[d].spec, resolveMaterial(Loaded[d].spec))
           /\ IsSequence(Loaded[d].phases)
<1> DEFINE s == ApplyProfile(Documents[d])
<1>1. Loaded[d] = Load(Documents[d])
  BY DEF Loaded
<1>2. Accepted(Documents[d], FALSE)
  <2>1. SUFFICES ASSUME ~Accepted(Documents[d], FALSE) PROVE FALSE
    OBVIOUS
  <2>2. Loaded[d] = [refused |-> {"document"}]
    BY <2>1, <1>1 DEF Load
  <2>3. "document" \in Loaded[d].refused
    BY <2>2
  <2> QED
    BY <2>3
<1>3. Loaded[d] = Resolved(s)
  BY <1>1, <1>2 DEF Load
<1> HIDE DEF s
<1>4. Loaded[d] = Entry(s, resolveMaterial(s))
  <2>1. SUFFICES ASSUME MaterialFails(s, FALSE) PROVE FALSE
    BY <1>3 DEF Resolved
  <2>2. Loaded[d] = [refused |-> {"material"}]
    BY <2>1, <1>3 DEF Resolved
  <2>3. "material" \in Loaded[d].refused
    BY <2>2
  <2> QED
    BY <2>3
<1>5. /\ Loaded[d].spec = s
      /\ Loaded[d].phases = Phases(s, resolveMaterial(s))
  BY <1>4 DEF Entry
<1>6. Validate(s, FALSE) = {}
  BY <1>2 DEF Accepted, s
<1>7. TopologyErrors(s) = {}
  BY <1>6 DEF Validate
<1>8. s.topology = Documents[d].topology /\ s.gateway = Documents[d].gateway
  BY DocumentsAssumption, ProfileKeepsNodes, ProfileKeepsGateways DEF s
<1> QED
  BY <1>5, <1>7, <1>8, PhasesAreSequence

\* No machine is a server and an agent, and every one of them is a machine.
LEMMA ServersAreNotAgents ==
    ASSUME NEW d \in DOMAIN Documents, Loaded[d].refused = {}
    PROVE  LET s == Loaded[d].spec
               servers == {n.host : n \in ToSet(s.topology.servers)} IN
           /\ servers \cap AgentHosts(s) = {}
           /\ servers \subseteq {n.host : n \in NodesOf(s)}
           /\ {n.host : n \in NodesOf(s)} \subseteq Machines
<1> DEFINE s == Loaded[d].spec
           S == s.topology.servers
           A == s.topology.agents
<1>1. /\ s.topology = Documents[d].topology
      /\ TopologyErrors(s) = {}
  BY LoadedIsAccepted
<1>2. /\ S \in Seq(NodeSpec)
      /\ A \in Seq(NodeSpec)
  BY <1>1, DocumentsAssumption DEF ClusterSpec, TopologySpec
<1>3. AllNodes(s) = S \o A
  BY DEF AllNodes
<1>4. \A i, j \in DOMAIN (S \o A) : i # j => (S \o A)[i].host # (S \o A)[j].host
  <2>1. \A i, j \in DOMAIN AllNodes(s) : i # j => AllNodes(s)[i].host # AllNodes(s)[j].host
    BY <1>1, HostsDiffer
  <2> HIDE DEF s, S, A
  <2> QED
    BY <2>1, <1>3
<1>5. {n.host : n \in NodesOf(s)} \subseteq Machines
  <2>1. NodesOf(s) = NodesOf(Documents[d])
    BY <1>1 DEF NodesOf, AllNodes
  <2> QED
    BY <2>1, MachinesAssumption
<1>6. NodesOf(s) = {(S \o A)[i] : i \in DOMAIN (S \o A)}
  BY <1>3 DEF NodesOf, ToSet
<1>7. /\ ToSet(S) = {S[i] : i \in DOMAIN S}
      /\ AgentHosts(s) = {n.host : n \in {A[i] : i \in DOMAIN A}}
  BY DEF ToSet, AgentHosts
<1> HIDE DEF s, S, A
<1>8. \A i \in DOMAIN S : i \in DOMAIN (S \o A) /\ (S \o A)[i] = S[i]
  BY <1>2
<1>9. \A j \in DOMAIN A : /\ Len(S) + j \in DOMAIN (S \o A) \ DOMAIN S
                         /\ (S \o A)[Len(S) + j] = A[j]
  BY <1>2
<1>10. \A i \in DOMAIN S, j \in DOMAIN A : S[i].host # A[j].host
  <2> TAKE i \in DOMAIN S, j \in DOMAIN A
  <2>1. /\ i \in DOMAIN (S \o A)
        /\ (S \o A)[i] = S[i]
    BY <1>8
  <2>2. /\ Len(S) + j \in DOMAIN (S \o A)
        /\ Len(S) + j # i
        /\ (S \o A)[Len(S) + j] = A[j]
    BY <1>9
  <2>3. (S \o A)[i].host # (S \o A)[Len(S) + j].host
    BY <1>4, <2>1, <2>2
  <2> QED
    BY <2>1, <2>2, <2>3
<1>11. /\ {n.host : n \in ToSet(S)} \cap AgentHosts(s) = {}
       /\ ToSet(S) \subseteq NodesOf(s)
  BY <1>6, <1>7, <1>8, <1>10
<1> QED
  BY <1>5, <1>11 DEF s, S

\* The plan of a command that nothing stops.
LEMMA AgreedPlan ==
    ASSUME NEW d \in DOMAIN Documents, NEW w, NEW approve,
           Verdict(Loaded[d], w, approve).stops = {}
    PROVE  LET s == Loaded[d].spec
               p == Verdict(Loaded[d], w, approve).plan IN
           /\ Loaded[d].refused = {}
           /\ {n.host : n \in ToSet(s.topology.servers)} \subseteq p.nodes
           /\ p.nodes \subseteq {n.host : n \in NodesOf(s)}
           /\ p.nodes \subseteq Machines
           /\ s.kubernetes.dataplane.downgradePolicy = "forbid" =>
                  p.dataplane = s.kubernetes.dataplane.preset
<1> DEFINE s == Loaded[d].spec
           report == Run(s, w)
           p == Generate(s, report.nodes, FALSE)
           v == Judge(Blocked(report), p, Loaded[d].phases, approve)
<1>1. Loaded[d].refused = {}
  BY DEF Verdict
<1>2. Verdict(Loaded[d], w, approve) = v
  BY <1>1 DEF Verdict, Examined
<1>3. DOMAIN report.nodes = {n.host : n \in NodesOf(s)}
  BY DEF Run
<1>4. LET servers == {n.host : n \in ToSet(s.topology.servers)} IN
      /\ servers \cap AgentHosts(s) = {}
      /\ servers \subseteq {n.host : n \in NodesOf(s)}
      /\ {n.host : n \in NodesOf(s)} \subseteq Machines
  BY <1>1, ServersAreNotAgents
<1> HIDE DEF s, report
<1>5. /\ v.plan.dataplane = p.dataplane
      /\ v.plan.nodes = p.nodes
      /\ v.stops = {} => p.error = ""
  BY DEF Judge, Shown
<1> HIDE DEF p, v
<1>6. p.error = ""
  BY <1>2, <1>5
<1>7. /\ p.nodes = DOMAIN report.nodes \ p.excluded
      /\ p.excluded \subseteq AgentHosts(s)
      /\ s.kubernetes.dataplane.downgradePolicy = "forbid" => p.downgrades = {}
      /\ p.downgrades = {} => p.dataplane = s.kubernetes.dataplane.preset
  BY <1>6, PlanSound DEF p
<1>8. LET q == Verdict(Loaded[d], w, approve).plan IN
      /\ {n.host : n \in ToSet(s.topology.servers)} \subseteq q.nodes
      /\ q.nodes \subseteq {n.host : n \in NodesOf(s)}
      /\ q.nodes \subseteq Machines
      /\ s.kubernetes.dataplane.downgradePolicy = "forbid" =>
             q.dataplane = s.kubernetes.dataplane.preset
  BY <1>2, <1>3, <1>4, <1>5, <1>7
<1> QED
  BY <1>1, <1>8 DEF s

-----------------------------------------------------------------------------
(* The phases have names of their own.                                     *)

\* The phases of x have different names, all of them in K.
Differ(x, K) ==
    /\ IsSequence(x)
    /\ \A i \in DOMAIN x : x[i].id \in K
    /\ \A i, j \in DOMAIN x : x[i].id = x[j].id => i = j

LEMMA DifferOn ==
    ASSUME NEW x, NEW K, Differ(x, K), NEW id, id \notin K, NEW grade, NEW steps
    PROVE  Differ(x \o Once(id, grade, steps), K \cup {id})
<1> DEFINE ph == Phase(id, grade, steps)
           y == Once(id, grade, steps)
<1>1. PICK S : x \in Seq(S)
  BY DEF Differ, IsSequence
<1>2. IsSequence(x \o y)
  BY OnceIsSequence, SequencesConcatenate DEF Differ
<1>3. CASE y = <<>>
  <2>1. x \o y = x
    BY <1>1, <1>3
  <2> HIDE DEF y
  <2> QED
    BY <2>1 DEF Differ, y
<1>4. CASE y = <<ph>>
  <2>1. ph.id = id
    BY DEF Phase
  <2> HIDE DEF ph, y
  <2>2. /\ Len(x) \in Nat
        /\ DOMAIN x = 1..Len(x)
        /\ DOMAIN (x \o y) = 1..(Len(x) + 1)
        /\ \A i \in 1..Len(x) : (x \o y)[i] = x[i]
        /\ (x \o y)[Len(x) + 1] = ph
    BY <1>1, <1>4
  <2>3. \A i \in DOMAIN (x \o y) : i \in DOMAIN x \/ i = Len(x) + 1
    BY <2>2
  <2>4. \A i \in DOMAIN (x \o y) : (x \o y)[i].id \in K \cup {id}
    BY <2>1, <2>2, <2>3 DEF Differ
  <2>5. \A i, j \in DOMAIN (x \o y) : (x \o y)[i].id = (x \o y)[j].id => i = j
    BY <2>1, <2>2, <2>3 DEF Differ
  <2> QED
    BY <1>2, <2>4, <2>5 DEF Differ, y
<1> QED
  BY <1>3, <1>4 DEF Once

\* No two phases of a document have one name.
LEMMA PhasesDiffer ==
    ASSUME NEW s, NEW m
    PROVE  \A p, q \in DOMAIN Phases(s, m) : Phases(s, m)[p].id = Phases(s, m)[q].id => p = q
<1>1. \A id, grade, steps : Differ(Once(id, grade, steps), {id})
  <2> TAKE id, grade, steps
  <2>1. IsSequence(Once(id, grade, steps))
    BY OnceIsSequence
  <2>2. \A i \in DOMAIN Once(id, grade, steps) :
           i = 1 /\ Once(id, grade, steps)[i].id = id
    BY DEF Once, Phase
  <2> QED
    BY <2>1, <2>2 DEF Differ
<1>2. \A x, K, id, grade, steps :
         Differ(x, K) /\ id \notin K => Differ(x \o Once(id, grade, steps), K \cup {id})
  BY DifferOn
<1>3. \A x, K, id, nodes, server :
         Differ(x, K) /\ id \notin K => Differ(x \o joinPhase(id, nodes, s, server), K \cup {id})
  BY <1>2 DEF joinPhase
<1>4. \E K : Differ(Phases(s, m), K)
  <2> DEFINE K2 == {"l0-node-prep"} \cup {"l1-bootstrap"}
             K3 == K2 \cup {"l1-join-server"}
             K4 == K3 \cup {"l1-join-agent"}
             K5 == K4 \cup {"l2-dataplane"}
             K6 == K5 \cup {"l2-storage"}
             K7 == K6 \cup {"l2-pki"}
             K8 == K7 \cup {"l2-gateway"}
             K9 == K8 \cup {"l2-observability"}
             K10 == K9 \cup {"l2-platform"}
  <2>1. /\ "l1-bootstrap" \notin {"l0-node-prep"} /\ "l1-join-server" \notin K2
        /\ "l1-join-agent" \notin K3 /\ "l2-dataplane" \notin K4 /\ "l2-storage" \notin K5
        /\ "l2-pki" \notin K6 /\ "l2-gateway" \notin K7
        /\ "l2-observability" \notin K8 /\ "l2-platform" \notin K9
    OBVIOUS
  <2> HIDE DEF K2, K3, K4, K5, K6, K7, K8, K9, K10
  <2>2. \A x, id, grade, steps : Differ(x, {"l0-node-prep"}) /\ id = "l1-bootstrap" =>
            Differ(x \o Once(id, grade, steps), K2)
    BY <1>2, <2>1 DEF K2
  <2>3. \A x, nodes, server : Differ(x, K2) => Differ(x \o joinPhase("l1-join-server", nodes, s, server), K3)
    BY <1>3, <2>1 DEF K3
  <2>4. \A x, nodes, server : Differ(x, K3) => Differ(x \o joinPhase("l1-join-agent", nodes, s, server), K4)
    BY <1>3, <2>1 DEF K4
  <2>5. \A x, grade, steps : Differ(x, K4) => Differ(x \o Once("l2-dataplane", grade, steps), K5)
    BY <1>2, <2>1 DEF K5
  <2>6. \A x, grade, steps : Differ(x, K5) => Differ(x \o Once("l2-storage", grade, steps), K6)
    BY <1>2, <2>1 DEF K6
  <2>7. \A x, grade, steps : Differ(x, K6) => Differ(x \o Once("l2-pki", grade, steps), K7)
    BY <1>2, <2>1 DEF K7
  <2>8. \A x, grade, steps : Differ(x, K7) => Differ(x \o Once("l2-gateway", grade, steps), K8)
    BY <1>2, <2>1 DEF K8
  <2>9. \A x, grade, steps : Differ(x, K8) => Differ(x \o Once("l2-observability", grade, steps), K9)
    BY <1>2, <2>1 DEF K9
  <2>10. \A x, grade, steps : Differ(x, K9) => Differ(x \o Once("l2-platform", grade, steps), K10)
    BY <1>2, <2>1 DEF K10
  <2> QED
    BY <1>1, <2>2, <2>3, <2>4, <2>5, <2>6, <2>7, <2>8, <2>9, <2>10, Zenon DEF Phases
<1> QED
  BY <1>4 DEF Differ

LEMMA LoadedDiffer ==
    ASSUME NEW d \in DOMAIN Documents, Loaded[d].refused = {}
    PROVE  LET phases == Loaded[d].phases IN
           \A p, q \in DOMAIN phases : phases[p].id = phases[q].id => p = q
<1>1. Loaded[d].phases = Phases(Loaded[d].spec, resolveMaterial(Loaded[d].spec))
  BY LoadedIsAccepted
<1> QED
  BY <1>1, PhasesDiffer

-----------------------------------------------------------------------------
(* The invariant.                                                          *)

\* The types, without what turns on the phase that is built.
Types ==
    /\ doc \in DOMAIN Documents
    /\ command \in {"idle", "building"}
    /\ outcome \in {"none", "refused", "killed", "failed", "unserved", "built"}
    /\ command = "building" => doc \in ranWith /\ outcome = "none"
    /\ phase \in Nat \ {0}
    /\ ranWith \subseteq DOMAIN Documents
    /\ plan.nodes \subseteq Machines
    /\ again \subseteq record
    /\ recheck \in BOOLEAN /\ settled \in BOOLEAN /\ rerendered \in BOOLEAN
    /\ interruptions \in 0..MaxInterruptions /\ edits \in 0..MaxEdits

\* Something was changed only with a document that was not refused.
NotRefused == Changing => Loaded[doc].refused = {}

\* A command that goes on has recorded every phase it is past and what it has
\* settled of the one it builds, or took the word of a run of another document
\* for a phase; between commands nothing is under way.
Course ==
    /\ command = "idle" => phase = 1 /\ progress = {}
    /\ command = "building" =>
          LET phases == Loaded[doc].phases IN
          /\ Covered(phases, phase)
          /\ phase \in DOMAIN phases =>
                /\ progress \subseteq DOMAIN phases[phase].steps
                /\ \A i \in progress : KeyOf(phases[phase], phases[phase].steps[i]) \in record
                /\ PassedOver(phases[phase]) => progress = {}
          /\ phase \notin DOMAIN phases => progress = {}

\* Of a run that saw one document only, a phase the directory has as done is
\* recorded whole: that document's, whatever the operator's file has since.
WholeWhenFinished ==
    \A d \in DOMAIN Documents : ranWith = {d} =>
        LET phases == Loaded[d].phases IN
        \A p \in DOMAIN phases : phases[p].id \in finished => Keys(phases[p]) \subseteq record

\* A command does not come to its end with a step left out, whatever the runs
\* before it recorded - but for the phases that were done with another document.
NothingLeftOut ==
    outcome \in {"built", "unserved"} =>
        \A ph \in ToSet(Loaded[doc].phases) :
            Keys(ph) \subseteq record \/ (ranWith # {doc} /\ PassedOver(ph))

BuildInv == Types /\ NotRefused /\ Course /\ WholeWhenFinished /\ NothingLeftOut /\ PlanWithinDocument

\* The phase that is built is the one of that number.
LEMMA CurrentPhase ==
    ASSUME NEW ph \in Current
    PROVE  /\ command = "building"
           /\ phase \in DOMAIN Loaded[doc].phases
           /\ ph = Loaded[doc].phases[phase]
  BY DEF Current

\* When none is left, the command is past all of them.
LEMMA NoPhaseLeft ==
    ASSUME Types, NotRefused, command = "building", Current = {}
    PROVE  /\ phase \notin DOMAIN Loaded[doc].phases
           /\ \A p \in DOMAIN Loaded[doc].phases : p < phase
<1> DEFINE phases == Loaded[doc].phases
<1>1. phase \notin DOMAIN phases
  BY DEF Current
<1>2. PICK S : phases \in Seq(S)
  BY LoadedIsAccepted DEF Types, NotRefused, Changing, IsSequence
<1>3. phase \in Nat \ {0}
  BY DEF Types
<1> HIDE DEF phases
<1>4. DOMAIN phases = 1..Len(phases) /\ Len(phases) \in Nat
  BY <1>2
<1>5. \A p \in DOMAIN phases : p < phase
  BY <1>1, <1>3, <1>4
<1> QED
  BY <1>1, <1>5 DEF phases

LEMMA BuildInit == Init => BuildInv
<1> SUFFICES ASSUME Init PROVE BuildInv
  OBVIOUS
<1>1. Types
  <2>1. plan.nodes = {}
    BY DEF Init, NoPlan
  <2>2. 0 \in 0..MaxInterruptions /\ 0 \in 0..MaxEdits
    BY BoundsAssumption
  <2>3. /\ doc \in DOMAIN Documents /\ command = "idle" /\ outcome = "none"
        /\ phase = 1 /\ ranWith = {} /\ interruptions = 0 /\ edits = 0
    BY DEF Init
  <2>4. /\ again \subseteq record
        /\ recheck \in BOOLEAN /\ settled \in BOOLEAN /\ rerendered \in BOOLEAN
    BY DEF Init
  <2> QED
    BY <2>1, <2>2, <2>3, <2>4 DEF Types
<1>2. ~Changing
  BY DEF Init, Changing
<1>3. Course
  BY DEF Init, Course
<1>4. NothingLeftOut /\ PlanWithinDocument
  BY <1>2 DEF Init, NothingLeftOut, PlanWithinDocument
<1>5. WholeWhenFinished
  BY DEF Init, WholeWhenFinished
<1> QED
  BY <1>1, <1>2, <1>3, <1>4, <1>5 DEF BuildInv, NotRefused

\* A step of the phase that is built is settled.
LEMMA SettleKeeps ==
    ASSUME BuildInv, NEW ph \in Current, ~PassedOver(ph), NEW i \in DOMAIN ph.steps, Settle(ph, i)
    PROVE  BuildInv'
<1> DEFINE phases == Loaded[doc].phases
<1>1. /\ command = "building" /\ outcome = "none"
      /\ phase \in DOMAIN phases
      /\ ph = phases[phase]
  BY CurrentPhase DEF BuildInv, Types
<1>2. UNCHANGED <<doc, command, outcome, refusal, phase, finished, ranWith, recheck, plan,
                  settled, rerendered, interruptions, edits>>
  BY DEF Settle
<1>3. /\ record' = record \cup {KeyOf(ph, ph.steps[i])}
      /\ again' = again \ {KeyOf(ph, ph.steps[i])}
      /\ progress' = progress \cup {i}
  BY DEF Settle
<1>4. Types'
  BY <1>2, <1>3 DEF BuildInv, Types
<1>5. NotRefused' /\ PlanWithinDocument'
  BY <1>2 DEF BuildInv, NotRefused, PlanWithinDocument, Changing
<1>6. NothingLeftOut'
  BY <1>1, <1>2 DEF NothingLeftOut
<1>7. WholeWhenFinished'
  BY <1>2, <1>3 DEF BuildInv, WholeWhenFinished, Keys, KeyOf
<1>8. /\ Covered(phases, phase)
      /\ progress \subseteq DOMAIN ph.steps
      /\ \A j \in progress : KeyOf(ph, ph.steps[j]) \in record
  BY <1>1 DEF BuildInv, Course
<1>9. Course'
  <2>1. Covered(phases, phase)'
    BY <1>2, <1>3, <1>8 DEF Covered, PassedOver, Keys, KeyOf
  <2>2. /\ progress' \subseteq DOMAIN ph.steps
        /\ \A j \in progress' : KeyOf(ph, ph.steps[j]) \in record'
    BY <1>3, <1>8
  <2>3. ~PassedOver(ph)'
    BY <1>2 DEF PassedOver
  <2> QED
    BY <2>1, <2>2, <2>3, <1>1, <1>2 DEF Course, PassedOver, KeyOf
<1> QED
  BY <1>4, <1>5, <1>6, <1>7, <1>9 DEF BuildInv

\* The command goes on to the next phase, with the one it was at recorded
\* whole or taken on the word of a run of another document.
LEMMA MoveKeeps ==
    ASSUME BuildInv, NEW ph \in Current, phase' = phase + 1, progress' = {},
           UNCHANGED <<doc, world, command, outcome, refusal, record, again, ranWith, recheck,
                       plan, settled, rerendered, interruptions, edits>>,
           finished' = finished \/ (finished' = finished \cup {ph.id} /\ Keys(ph) \subseteq record),
           Keys(ph) \subseteq record \/ (ranWith # {doc} /\ PassedOver(ph))
    PROVE  BuildInv'
<1> DEFINE phases == Loaded[doc].phases
<1>1. /\ command = "building" /\ outcome = "none"
      /\ phase \in DOMAIN phases
      /\ ph = phases[phase]
      /\ doc \in DOMAIN Documents
      /\ Loaded[doc].refused = {}
  BY CurrentPhase DEF BuildInv, Types, NotRefused, Changing
<1>2. phases' = phases
  OBVIOUS
<1>3. Types'
  <2>1. phase' \in Nat \ {0}
    BY DEF BuildInv, Types
  <2> QED
    BY <2>1 DEF BuildInv, Types
<1>4. NotRefused' /\ PlanWithinDocument'
  BY DEF BuildInv, NotRefused, PlanWithinDocument, Changing
<1>5. NothingLeftOut'
  BY <1>1 DEF NothingLeftOut
<1>6. WholeWhenFinished'
  <2> SUFFICES ASSUME NEW d \in DOMAIN Documents, ranWith = {d}, NEW p \in DOMAIN Loaded[d].phases,
                      Loaded[d].phases[p].id \in finished'
               PROVE  Keys(Loaded[d].phases[p]) \subseteq record
    BY DEF WholeWhenFinished, Keys, KeyOf
  <2>1. CASE Loaded[d].phases[p].id \in finished
    BY <2>1 DEF BuildInv, WholeWhenFinished
  <2>2. CASE Loaded[d].phases[p].id \notin finished
    <3>1. Loaded[d].phases[p].id = ph.id /\ Keys(ph) \subseteq record
      BY <2>2
    <3>2. d = doc
      BY <1>1 DEF BuildInv, Types
    <3>3. p = phase
      BY <3>1, <3>2, <1>1, LoadedDiffer
    <3> QED
      BY <3>1, <3>2, <3>3, <1>1
  <2> QED
    BY <2>1, <2>2
<1>7. Covered(phases, phase)
  BY <1>1 DEF BuildInv, Course
<1>8. PassedOver(ph) => PassedOver(ph)'
  BY DEF PassedOver
<1>9. Covered(phases, phase)'
  <2> SUFFICES ASSUME NEW q \in DOMAIN phases, q < phase + 1
               PROVE  Keys(phases[q]) \subseteq record \/ (ranWith # {doc} /\ PassedOver(phases[q])')
    BY <1>2 DEF Covered, Keys, KeyOf, PassedOver
  <2>1. CASE q = phase
    BY <2>1, <1>1, <1>8
  <2>2. CASE q # phase
    <3>1. PICK S : phases \in Seq(S)
      BY <1>1, LoadedIsAccepted DEF IsSequence
    <3>2. q < phase
      <4> HIDE DEF phases
      <4>1. q \in Int /\ phase \in Int
        BY <3>1, <1>1
      <4> QED
        BY <4>1, <2>2
    <3>3. Keys(phases[q]) \subseteq record \/ (ranWith # {doc} /\ PassedOver(phases[q]))
      BY <3>2, <1>7 DEF Covered
    <3> QED
      BY <3>3 DEF PassedOver
  <2> QED
    BY <2>1, <2>2
<1>10. Course'
  BY <1>1, <1>9 DEF Course, Covered
<1> QED
  BY <1>3, <1>4, <1>5, <1>6, <1>10 DEF BuildInv

\* A phase is passed over, or left when the last step of it is settled.
LEMMA GoOnKeeps ==
    ASSUME BuildInv, NEW ph \in Current, Pass(ph) \/ Leave(ph)
    PROVE  BuildInv'
<1> DEFINE phases == Loaded[doc].phases
<1>1. /\ command = "building"
      /\ phase \in DOMAIN phases
      /\ ph = phases[phase]
      /\ doc \in DOMAIN Documents
  BY CurrentPhase DEF BuildInv, Types
<1>2. CASE Pass(ph)
  <2>1. /\ PassedOver(ph)
        /\ phase' = phase + 1
        /\ UNCHANGED <<doc, world, command, outcome, refusal, progress, record, again, finished,
                       ranWith, recheck, plan, settled, rerendered, interruptions, edits>>
    BY <1>2 DEF Pass
  <2>2. progress' = {}
    BY <2>1, <1>1 DEF BuildInv, Course
  <2>3. ranWith = {doc} => Keys(ph) \subseteq record
    BY <2>1, <1>1 DEF PassedOver, BuildInv, WholeWhenFinished
  <2> QED
    BY <2>1, <2>2, <2>3, MoveKeeps
<1>3. CASE Leave(ph)
  <2>1. /\ Left(ph) = {}
        /\ phase' = phase + 1 /\ progress' = {}
        /\ finished' = finished \cup {ph.id}
        /\ UNCHANGED <<doc, world, command, outcome, refusal, record, again, ranWith, recheck,
                       plan, settled, rerendered, interruptions, edits>>
    BY <1>3 DEF Leave
  <2>2. Keys(ph) \subseteq record
    BY <2>1, <1>1 DEF Left, Keys, BuildInv, Course
  <2> QED
    BY <2>1, <2>2, MoveKeeps
<1> QED
  BY <1>2, <1>3

\* The command ends, and leaves nothing under way.
LEMMA ReturnKeeps ==
    ASSUME BuildInv, command = "building", NEW how \in {"failed", "killed", "unserved", "built"},
           Returns(how),
           UNCHANGED <<doc, record, ranWith, recheck, plan, rerendered, edits>>,
           again' \subseteq record, finished' \subseteq finished,
           settled' \in BOOLEAN, interruptions' \in 0..MaxInterruptions,
           how \in {"unserved", "built"} => Current = {} /\ finished' = finished
    PROVE  BuildInv'
<1> DEFINE phases == Loaded[doc].phases
<1>1. /\ command' = "idle" /\ outcome' = how
      /\ phase' = 1 /\ progress' = {}
  BY DEF Returns
<1>2. Types'
  BY <1>1 DEF BuildInv, Types
<1>3. Changing
  BY DEF Changing
<1>4. NotRefused' /\ PlanWithinDocument'
  BY <1>3 DEF BuildInv, NotRefused, PlanWithinDocument
<1>5. Course'
  BY <1>1 DEF Course
<1>6. WholeWhenFinished'
  BY DEF BuildInv, WholeWhenFinished, Keys, KeyOf
<1>7. NothingLeftOut'
  <2>1. SUFFICES ASSUME Current = {}, finished' = finished PROVE NothingLeftOut'
    BY <1>1 DEF NothingLeftOut
  <2>2. \A p \in DOMAIN phases : p < phase
    BY <2>1, NoPhaseLeft DEF BuildInv
  <2>3. Covered(phases, phase)
    BY DEF BuildInv, Course
  <2>4. \A p \in DOMAIN phases :
           Keys(phases[p]) \subseteq record \/ (ranWith # {doc} /\ PassedOver(phases[p]))
    BY <2>2, <2>3 DEF Covered
  <2>5. \A ph \in ToSet(phases) : Keys(ph) \subseteq record \/ (ranWith # {doc} /\ PassedOver(ph))
    <3> HIDE DEF phases
    <3> QED
      BY <2>4 DEF ToSet
  <2> QED
    BY <2>1, <2>5 DEF NothingLeftOut, Keys, KeyOf, PassedOver
<1> QED
  BY <1>2, <1>4, <1>5, <1>6, <1>7 DEF BuildInv

\* What the directory says of a run that was stopped.
LEMMA LeftOffKeeps ==
    ASSUME BuildInv, NEW ph, NEW begun, LeftOff(ph, begun)
    PROVE  again' \subseteq record /\ finished' \subseteq finished
  BY DEF BuildInv, Types, LeftOff

LEMMA BuildStep == BuildInv /\ [Next]_vars => BuildInv'
<1> SUFFICES ASSUME BuildInv, [Next]_vars PROVE BuildInv'
  OBVIOUS
<1>1. ASSUME NEW approve \in BOOLEAN, Refuse(approve) PROVE BuildInv'
  <2>1. /\ command' = "idle" /\ outcome' = "refused"
        /\ UNCHANGED <<doc, world, command, phase, progress, record, again, finished, ranWith,
                       recheck, plan, settled, rerendered, interruptions, edits>>
    BY <1>1 DEF Refuse
  <2>2. Types' /\ Course' /\ WholeWhenFinished'
    BY <2>1 DEF BuildInv, Types, Course, WholeWhenFinished, Keys, KeyOf
  <2>3. ~Changing' /\ NothingLeftOut'
    BY <2>1 DEF Changing, NothingLeftOut
  <2> QED
    BY <2>2, <2>3 DEF BuildInv, NotRefused, PlanWithinDocument
<1>2. ASSUME NEW resume \in BOOLEAN, Begin(resume) PROVE BuildInv'
  <2> DEFINE s == Loaded[doc].spec
             phases == Loaded[doc].phases
  <2>1. /\ command' = "building" /\ outcome' = "none"
        /\ phase' = 1 /\ progress' = {}
        /\ resume => ranWith # {}
        /\ record' = IF resume THEN record ELSE {}
        /\ again' = IF resume THEN again ELSE {}
        /\ finished' = IF resume THEN finished ELSE {}
        /\ ranWith' = (IF resume THEN ranWith ELSE {}) \cup {doc}
        /\ recheck' \in IF resume THEN BOOLEAN ELSE {FALSE}
        /\ rerendered' = (resume /\ rerendered)
        /\ UNCHANGED <<doc, world, settled, interruptions, edits>>
        /\ Verdict(Loaded[doc], world, TRUE).stops = {}
        /\ plan' = Verdict(Loaded[doc], world, TRUE).plan
    BY <1>2 DEF Begin
  <2>2. doc \in DOMAIN Documents
    BY DEF BuildInv, Types
  <2>3. /\ Loaded[doc].refused = {}
        /\ {n.host : n \in ToSet(s.topology.servers)} \subseteq plan'.nodes
        /\ plan'.nodes \subseteq {n.host : n \in NodesOf(s)}
        /\ plan'.nodes \subseteq Machines
        /\ s.kubernetes.dataplane.downgradePolicy = "forbid" =>
               plan'.dataplane = s.kubernetes.dataplane.preset
    BY <2>1, <2>2, AgreedPlan
  <2>4. Types'
    <3>1. doc' \in ranWith' /\ ranWith' \subseteq DOMAIN Documents
      BY <2>1, <2>2 DEF BuildInv, Types
    <3>2. settled' \in BOOLEAN /\ interruptions' \in 0..MaxInterruptions /\ edits' \in 0..MaxEdits
      BY <2>1 DEF BuildInv, Types
    <3>3. /\ doc' \in DOMAIN Documents /\ plan'.nodes \subseteq Machines
          /\ command' = "building" /\ outcome' = "none" /\ phase' = 1
      BY <2>1, <2>2, <2>3
    <3>4. again' \subseteq record' /\ recheck' \in BOOLEAN /\ rerendered' \in BOOLEAN
      BY <2>1 DEF BuildInv, Types
    <3> QED
      BY <3>1, <3>2, <3>3, <3>4 DEF Types
  <2>5. NotRefused' /\ PlanWithinDocument' /\ NothingLeftOut'
    BY <2>1, <2>3 DEF NotRefused, PlanWithinDocument, NothingLeftOut
  <2>6. Covered(phases, 1)'
    <3>1. PICK S : phases \in Seq(S)
      BY <2>2, <2>3, LoadedIsAccepted DEF IsSequence
    <3>2. phases' = phases
      BY <2>1
    <3> HIDE DEF phases
    <3>3. \A r \in DOMAIN phases : ~(r < 1)
      BY <3>1
    <3> QED
      BY <3>2, <3>3 DEF Covered
  <2>7. Course'
    BY <2>1, <2>6 DEF Course
  <2>8. WholeWhenFinished'
    <3> SUFFICES ASSUME NEW d \in DOMAIN Documents, ranWith' = {d}, NEW p \in DOMAIN Loaded[d].phases,
                        Loaded[d].phases[p].id \in finished'
                 PROVE  Keys(Loaded[d].phases[p]) \subseteq record'
      BY DEF WholeWhenFinished, Keys, KeyOf
    <3>1. resume /\ finished' = finished /\ record' = record
      BY <2>1
    <3>2. ranWith = {d}
      BY <3>1, <2>1
    <3> QED
      BY <3>1, <3>2 DEF BuildInv, WholeWhenFinished
  <2> QED
    BY <2>4, <2>5, <2>7, <2>8 DEF BuildInv
<1>3. CASE Work
  <2>0. PICK ph \in Current :
            \/ Pass(ph)
            \/ Leave(ph)
            \/ /\ ~PassedOver(ph)
               /\ \E i \in Active(ph) : Skip(ph, i) \/ Observe(ph, i) \/ Apply(ph, i) \/ Fail(ph, i)
    BY <1>3 DEF Work
  <2>1. CASE Pass(ph) \/ Leave(ph)
    BY <2>1, GoOnKeeps
  <2>2. ASSUME ~PassedOver(ph), NEW i \in Active(ph),
               Skip(ph, i) \/ Observe(ph, i) \/ Apply(ph, i) \/ Fail(ph, i)
        PROVE  BuildInv'
    <3>1. i \in DOMAIN ph.steps
      BY DEF Active, Left
    <3>2. CASE Settle(ph, i)
      BY <2>2, <3>1, <3>2, SettleKeeps
    <3>3. CASE Fail(ph, i)
      <4>1. /\ Returns("failed")
            /\ UNCHANGED <<doc, refusal, record, ranWith, recheck, plan, settled, rerendered,
                           interruptions, edits>>
            /\ \E begun \in SUBSET Busy(ph) : LeftOff(ph, begun)
        BY <3>3 DEF Fail
      <4>2. command = "building"
        BY CurrentPhase
      <4>3. settled' \in BOOLEAN /\ interruptions' \in 0..MaxInterruptions
        BY <4>1 DEF BuildInv, Types
      <4>4. again' \subseteq record /\ finished' \subseteq finished
        BY <4>1, LeftOffKeeps
      <4> QED
        BY <4>1, <4>2, <4>3, <4>4, ReturnKeeps
    <3> QED
      BY <2>2, <3>2, <3>3 DEF Skip, Observe, Apply
  <2> QED
    BY <2>0, <2>1, <2>2
<1>4. CASE Finish
  <2> DEFINE how == IF refusal' = {} THEN "built" ELSE "unserved"
  <2>1. /\ command = "building" /\ Current = {}
        /\ Returns(how)
        /\ settled' = (refusal' = {} /\ ranWith = {doc} /\ ~rerendered)
        /\ UNCHANGED <<doc, world, record, again, finished, ranWith, recheck, plan, rerendered,
                       interruptions, edits>>
    BY <1>4 DEF Finish
  <2>2. how \in {"unserved", "built"}
    OBVIOUS
  <2>3. settled' \in BOOLEAN /\ interruptions' \in 0..MaxInterruptions /\ again' \subseteq record
    BY <2>1 DEF BuildInv, Types
  <2> HIDE DEF how
  <2> QED
    BY <2>1, <2>2, <2>3, ReturnKeeps
<1>5. CASE Kill
  <2>1. /\ Interrupts
        /\ Current # {}
        /\ Returns("killed")
        /\ UNCHANGED <<doc, refusal, record, ranWith, recheck, plan, settled, rerendered, edits>>
        /\ \E ph \in Current : \E begun \in SUBSET Busy(ph) : LeftOff(ph, begun)
    BY <1>5, Zenon DEF Kill
  <2>2. command = "building"
    BY <2>1, CurrentPhase
  <2>3. settled' \in BOOLEAN /\ interruptions' \in 0..MaxInterruptions
    BY <2>1, BoundsAssumption DEF BuildInv, Types, Interrupts
  <2>4. again' \subseteq record /\ finished' \subseteq finished
    BY <2>1, LeftOffKeeps
  <2> QED
    BY <2>1, <2>2, <2>3, <2>4, ReturnKeeps
<1>6. ASSUME NEW h \in Machines, Reboot(h) \/ Render(h) PROVE BuildInv'
  <2>1. /\ settled' = FALSE
        /\ rerendered' \in BOOLEAN
        /\ UNCHANGED <<doc, command, outcome, refusal, phase, progress, record, again, finished,
                       ranWith, recheck, plan, edits>>
    BY <1>6 DEF Reboot, Render, BuildInv, Types
  <2>2. interruptions' \in 0..MaxInterruptions
    BY <1>6, BoundsAssumption DEF BuildInv, Types, Interrupts, Reboot, Render
  <2>3. Types'
    BY <2>1, <2>2 DEF BuildInv, Types
  <2>4. NotRefused' /\ Course' /\ PlanWithinDocument'
    BY <2>1 DEF BuildInv, NotRefused, Course, PlanWithinDocument, Changing, Covered, PassedOver, Keys, KeyOf
  <2>5. WholeWhenFinished' /\ NothingLeftOut'
    BY <2>1 DEF BuildInv, WholeWhenFinished, NothingLeftOut, PassedOver, Keys, KeyOf
  <2> QED
    BY <2>3, <2>4, <2>5 DEF BuildInv
<1>7. ASSUME NEW d \in DOMAIN Documents, Edit(d) PROVE BuildInv'
  <2>1. /\ command = "idle" /\ outcome' = "none" /\ settled' = FALSE
        /\ edits < MaxEdits /\ edits' = edits + 1 /\ doc' = d
        /\ UNCHANGED <<world, command, phase, progress, record, again, finished, ranWith, recheck,
                       plan, rerendered, interruptions>>
    BY <1>7 DEF Edit
  <2>2. edits' \in 0..MaxEdits
    BY <2>1, BoundsAssumption DEF BuildInv, Types
  <2>4. Types' /\ Course'
    BY <2>1, <2>2 DEF BuildInv, Types, Course
  <2>3. ~Changing' /\ NothingLeftOut'
    BY <2>1 DEF Changing, NothingLeftOut
  <2>5. WholeWhenFinished'
    BY <2>1 DEF BuildInv, WholeWhenFinished, Keys, KeyOf
  <2> QED
    BY <2>3, <2>4, <2>5 DEF BuildInv, NotRefused, PlanWithinDocument
<1>8. CASE UNCHANGED vars
  <2>1. UNCHANGED <<doc, command, outcome, phase, progress, record, again, finished, ranWith, recheck,
                    plan, settled, rerendered, interruptions, edits>>
    BY <1>8 DEF vars
  <2>2. Types' /\ NotRefused' /\ PlanWithinDocument'
    BY <2>1 DEF BuildInv, Types, NotRefused, PlanWithinDocument, Changing
  <2>3. Course' /\ WholeWhenFinished' /\ NothingLeftOut'
    BY <2>1 DEF BuildInv, Course, WholeWhenFinished, NothingLeftOut, Covered, PassedOver, Keys, KeyOf
  <2> QED
    BY <2>2, <2>3 DEF BuildInv
<1> QED
  BY <1>1, <1>2, <1>3, <1>4, <1>5, <1>6, <1>7, <1>8 DEF Next

\* The invariant holds of every command and between them.
THEOREM BuildInductive == Spec => []BuildInv
  BY BuildInit, BuildStep, PTL DEF Spec

-----------------------------------------------------------------------------
(* What follows.                                                           *)

\* Types of the commands: the phase that is built is one of the document's, and
\* what is settled of it are places in it.
THEOREM BuildTyped == Spec => []TypeOK
<1>1. BuildInv => TypeOK
  <2> SUFFICES ASSUME BuildInv PROVE TypeOK
    OBVIOUS
  <2>1. \A ph \in Current : progress \subseteq DOMAIN ph.steps
    BY CurrentPhase DEF BuildInv, Course
  <2>2. ASSUME Current = {} PROVE progress = {}
    <3>1. CASE command = "idle"
      BY <3>1 DEF BuildInv, Course
    <3>2. CASE command = "building"
      BY <3>2, <2>2, NoPhaseLeft DEF BuildInv, Course
    <3> QED
      BY <3>1, <3>2 DEF BuildInv, Types
  <2> QED
    BY <2>1, <2>2 DEF BuildInv, Types, TypeOK
<1> QED
  BY <1>1, BuildInductive, PTL

\* A command that comes to its end has settled every step of every phase of the
\* document (runner.go Run), in this run or in an earlier process of it - all
\* of them, when every process of the run saw this document; when one saw
\* another, all but those of the phases that were done by then.
THEOREM AllSettled == Spec => []NothingLeftOut
<1>1. BuildInv => NothingLeftOut
  BY DEF BuildInv
<1> QED
  BY <1>1, BuildInductive, PTL

\* What was shown before something was changed keeps every server in, names only
\* nodes of the document, and is no downgrade where the document forbids one
\* (plan.go Generate).
THEOREM PlanKept == Spec => []PlanWithinDocument
<1>1. BuildInv => PlanWithinDocument
  BY DEF BuildInv
<1> QED
  BY <1>1, BuildInductive, PTL

\* A step is recorded on top of everything the document puts before it
\* (runner.go runNodesSequential, runNodesParallel, runSteps), a phase is done when
\* all of it is recorded, and a command comes to its end on top of all of them;
\* what a run of another document had done is taken on its word (runner.go Run).
THEOREM RecordedInOrder == Spec => WorkedInOrder
<1> DEFINE phases == Loaded[doc].phases
           Grows == \/ record' \subseteq record
                    \/ \E p \in DOMAIN phases : \E i \in DOMAIN phases[p].steps :
                          /\ record' = record \cup {KeyOf(phases[p], phases[p].steps[i])}
                          /\ Covered(phases, p)
                          /\ \A j \in DOMAIN phases[p].steps :
                                Precedes(phases[p], j, i) =>
                                    KeyOf(phases[p], phases[p].steps[j]) \in record
           Finished == finished' \subseteq finished \/ \E ph \in Current :
                       Keys(ph) \subseteq record /\ finished' = finished \cup {ph.id}
<1>1. ASSUME BuildInv, [Next]_vars PROVE Grows /\ Finished
  <2>1. ASSUME NEW ph \in Current, NEW i \in Active(ph), Settle(ph, i) PROVE Grows
    <3>1. /\ command = "building"
          /\ phase \in DOMAIN phases
          /\ ph = phases[phase]
      BY CurrentPhase
    <3>2. /\ Covered(phases, phase)
          /\ \A j \in progress : KeyOf(ph, ph.steps[j]) \in record
      BY <1>1, <3>1 DEF BuildInv, Course
    <3>3. /\ i \in DOMAIN ph.steps
          /\ \A j \in DOMAIN ph.steps : Precedes(ph, j, i) => j \in progress
      BY DEF Active, Left
    <3>4. record' = record \cup {KeyOf(ph, ph.steps[i])}
      BY <2>1 DEF Settle
    <3> HIDE DEF phases
    <3> QED
      BY <3>1, <3>2, <3>3, <3>4
  <2>2. CASE Work
    <3>1. PICK ph \in Current :
              \/ Pass(ph)
              \/ Leave(ph)
              \/ \E i \in Active(ph) : Skip(ph, i) \/ Observe(ph, i) \/ Apply(ph, i) \/ Fail(ph, i)
      BY <2>2 DEF Work
    <3>2. CASE Pass(ph)
      BY <3>2 DEF Pass
    <3>3. CASE Leave(ph)
      <4>1. record' = record /\ finished' = finished \cup {ph.id} /\ Left(ph) = {}
        BY <3>3 DEF Leave
      <4>2. Keys(ph) \subseteq record
        BY <4>1, <1>1, CurrentPhase DEF Left, Keys, BuildInv, Course
      <4> QED
        BY <4>1, <4>2
    <3>4. ASSUME NEW i \in Active(ph), Skip(ph, i) \/ Observe(ph, i) \/ Apply(ph, i) \/ Fail(ph, i)
          PROVE  Grows /\ Finished
      <4>1. CASE Settle(ph, i)
        <5>1. finished' = finished
          BY <4>1 DEF Settle
        <5> QED
          BY <2>1, <4>1, <5>1
      <4>2. CASE Fail(ph, i)
        <5>1. record' = record /\ \E begun \in SUBSET Busy(ph) : LeftOff(ph, begun)
          BY <4>2 DEF Fail
        <5>2. finished' \subseteq finished
          BY <5>1, <1>1, LeftOffKeeps
        <5> QED
          BY <5>1, <5>2
      <4> QED
        BY <3>4, <4>1, <4>2 DEF Skip, Observe, Apply
    <3> QED
      BY <3>1, <3>2, <3>3, <3>4
  <2>3. CASE \E resume \in BOOLEAN : Begin(resume)
    <3>1. record' \subseteq record /\ finished' \subseteq finished
      BY <2>3 DEF Begin
    <3> QED
      BY <3>1
  <2>4. ASSUME ~Work, ~\E resume \in BOOLEAN : Begin(resume)
        PROVE  record' = record /\ finished' \subseteq finished
    <3>1. CASE \E approve \in BOOLEAN : Refuse(approve)
      BY <3>1 DEF Refuse
    <3>2. CASE Finish
      BY <3>2 DEF Finish
    <3>3. CASE Kill
      <4>1. record' = record /\ \E ph \in Current : \E begun \in SUBSET Busy(ph) : LeftOff(ph, begun)
        BY <3>3, Zenon DEF Kill
      <4> QED
        BY <4>1, <1>1, LeftOffKeeps
    <3>4. CASE \E h \in Machines : Reboot(h) \/ Render(h)
      BY <3>4 DEF Reboot, Render
    <3>5. CASE \E d \in DOMAIN Documents : Edit(d)
      BY <3>5 DEF Edit
    <3>6. CASE UNCHANGED vars
      BY <3>6 DEF vars
    <3> QED
      BY <1>1, <2>4, <3>1, <3>2, <3>3, <3>4, <3>5, <3>6 DEF Next
  <2> QED
    BY <2>2, <2>3, <2>4
<1>2. ASSUME BuildInv, [Next]_vars, command = "building", outcome' \in {"built", "unserved"}
      PROVE  Covered(phases, Len(phases) + 1)
  <2>1. Finish
    <3>1. outcome = "none"
      BY <1>2 DEF BuildInv, Types
    <3>2. CASE Work
      BY <3>1, <3>2, <1>2 DEF Work, Pass, Leave, Skip, Observe, Apply, Fail, Settle, Returns
    <3>3. CASE Kill
      <4>1. Returns("killed")
        BY <3>3, Zenon DEF Kill
      <4> QED
        BY <4>1, <1>2 DEF Returns
    <3> QED
      BY <3>1, <3>2, <3>3, <1>2 DEF Next, Refuse, Begin, Reboot, Render, Edit, vars
  <2>2. \A p \in DOMAIN phases : p < phase
    BY <2>1, <1>2, NoPhaseLeft DEF Finish, BuildInv, Types
  <2>3. Covered(phases, phase)
    BY <1>2 DEF BuildInv, Course
  <2> HIDE DEF phases
  <2> QED
    BY <2>2, <2>3 DEF Covered
<1>3. BuildInv /\ [Next]_vars =>
         [/\ Grows
          /\ (command = "building" /\ outcome' \in {"built", "unserved"} =>
                 Covered(phases, Len(phases) + 1))
          /\ Finished]_vars
  BY <1>1, <1>2
<1> QED
  BY <1>3, BuildInductive, PTL DEF Spec, WorkedInOrder

-----------------------------------------------------------------------------
(* The certificates that are brought.                                      *)

LEMMA BlocksOfInput ==
    ASSUME NEW s, NEW ref
    PROVE  InputFor(s, ref).blocks \in Seq(Block)
<1>1. \A r : (IF r.body \in DOMAIN Contents THEN Contents[r.body] ELSE <<>>) \in Seq(Block)
  BY ContentsAssumption
<1>2. \A x, y, z : x \in Seq(Block) /\ y \in Seq(Block) /\ z \in Seq(Block)
                   => x \o y \o z \in Seq(Block)
  OBVIOUS
<1>3. \A byo : certFiles(byo) \in Seq(Block)
  BY <1>1, <1>2, Zenon DEF certFiles
<1> QED
  BY <1>3 DEF InputFor, CertInput

\* The roots of the bundles are among what the verifier trusts.
LEMMA BundleRootIsTrusted ==
    ASSUME NEW m, NEW ref \in DOMAIN m.bundles
    PROVE  m.bundles[ref].ca \subseteq VerifierRoots(m)
  BY DEF VerifierRoots

\* What a document brings for a listener passes the verification of that
\* listener (verify.go selfSufficient, notExpired, perHostname) as the bundle is
\* made from it (bundle.go Assemble), against the roots the command verifies with
\* (build.go verifyGateways), when its root is a private one and what stands
\* above the certificate is in its time.
THEOREM BroughtIsAccepted ==
    ASSUME NEW s, ~MaterialFails(s, FALSE),
           NEW gw \in GatewaysOf(s), NEW l \in ListenersOf(gw), NEW t \in l.tls,
           t.secretRef \in Brought(s),
           l.hostname \in {""} \cup (DOMAIN Labels \ IPs),
           NEW bundle, bundle = resolveMaterial(s).bundles[t.secretRef],
           bundle.ca # {},
           \A c \in (ToSet(bundle.certs) \cup bundle.ca) \ {bundle.leaf} :
              c.from <= Now /\ Now <= c.to
    PROVE  Verify(TRUE, bundle.certs, l.hostname, VerifierRoots(resolveMaterial(s))) = {}
<1> DEFINE ref == t.secretRef
           in == InputFor(s, ref)
           m == resolveMaterial(s)
<1>1. m.bundles = assembleBundles(s)
  BY DEF resolveMaterial
<1>2. DOMAIN m.bundles = Brought(s) /\ m.bundles[ref] = CHOOSE b \in Assemble(in) : TRUE
  BY <1>1 DEF assembleBundles
<1>3. Assemble(in) # {}
  BY Zenon DEF MaterialFails
<1>4. bundle \in Assemble(in)
  BY <1>2, <1>3
<1>5. in.blocks \in Seq(Block)
  BY BlocksOfInput
<1>6. l.hostname = "" \/ l.hostname \in in.hostnames
  <2>1. in.hostnames = ListenerHostnames(s, ref)
    BY DEF InputFor, CertInput
  <2>2. l \in UNION {ListenersOf(g) : g \in GatewaysOf(s)}
    OBVIOUS
  <2>3. l.hostname = "" \/ l.hostname \in ListenerHostnames(s, ref)
    BY <2>2 DEF ListenerHostnames
  <2> QED
    BY <2>1, <2>3
<1>7. bundle.ca \subseteq VerifierRoots(m)
  BY <1>2, BundleRootIsTrusted
<1> HIDE DEF in, m, ref
<1>8. l.hostname \in {""} \cup (in.hostnames \cap (DOMAIN Labels \ IPs))
  BY <1>6
<1>9. Verify(TRUE, bundle.certs, l.hostname, VerifierRoots(m)) = {}
  BY <1>4, <1>5, <1>7, <1>8, AssembledVerifies
<1> QED
  BY <1>9 DEF m

=============================================================================
