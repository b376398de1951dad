---------------------------- MODULE ClusterBuild ----------------------------
(***************************************************************************)
(* malmok apply -f cluster.yaml (cmd/malmok/run.go): the document is read, *)
(* the machines are measured, a plan is made, the phases are built step by *)
(* step, and what the gateways serve is verified.  The operator may edit   *)
(* the document between two commands, resume a run or start another one;   *)
(* a command may be killed between any two writes, and a machine restarted.*)
(*                                                                         *)
(* Engine.tla has what the runner does inside a run.  Here a step is what  *)
(* it looks at and what it writes, and the question is what becomes of the *)
(* machines.                                                               *)
(***************************************************************************)
EXTENDS Plan

CONSTANTS Machines,         \* every host a document may name
          Documents,        \* name -> a document, as it is written
          Edits,            \* pairs of names: what the operator may turn into what
          Outside,          \* name -> the world of its site before anything is built
          Interrupted,      \* the documents whose commands are killed and machines restarted
          MaxInterruptions, \* and how often
          MaxEdits

ASSUME DocumentsAssumption == \A d \in DOMAIN Documents : Documents[d] \in ClusterSpec
ASSUME MachinesAssumption == \A d \in DOMAIN Documents : \A n \in NodesOf(Documents[d]) : n.host \in Machines
\* No machine has the name that what is in the cluster goes by, and nothing of
\* this program's work is on one before the first command.
ASSUME NamesAssumption == "cluster" \notin Machines
ASSUME OutsideAssumption ==
    \A d \in DOMAIN Documents, h \in Machines :
        DOMAIN Outside[d] \cap {<<h, "process.config">>, <<h, "cilium-values">>} = {}
ASSUME EditsAssumption == Edits \subseteq (DOMAIN Documents) \X (DOMAIN Documents)
ASSUME BoundsAssumption == MaxInterruptions \in Nat /\ MaxEdits \in Nat

VARIABLES doc,        \* the document in the operator's file
          world,      \* what is on the machines and in the cluster
          command,    \* "idle" or "building"
          outcome,    \* how the last command ended
          refusal,    \* what the last command was refused for
          phase,      \* the phase that is built, by number
          progress,   \* its steps that are settled, by their places in it
          record,     \* the steps the run in the command's directory has settled so far
          again,      \* those of them that the directory no longer has as done
          finished,   \* the phases the directory has as done
          ranWith,    \* the documents that run was run with
          recheck,    \* nothing is taken on the directory's word
          plan,       \* the plan that was shown
          settled,    \* the world is as the last command left it, built
          rerendered, \* Cilium's chart was run again after the run had looked at it
          interruptions, edits
vars == <<doc, world, command, outcome, refusal, phase, progress, record, again, finished,
          ranWith, recheck, plan, settled, rerendered, interruptions, edits>>

-----------------------------------------------------------------------------
(* What a document comes to.                                               *)

Entry(spec, material) ==
    [refused |-> {}, spec |-> spec, material |-> material, phases |-> Phases(spec, material)]

Resolved(spec) ==
    IF MaterialFails(spec, FALSE) THEN [refused |-> {"material"}]
    ELSE Entry(spec, resolveMaterial(spec))

Load(document) ==
    IF ~Accepted(document, FALSE) THEN [refused |-> {"document"}] ELSE Resolved(ApplyProfile(document))

Loaded == [d \in DOMAIN Documents |-> Load(Documents[d])]

hasDisruptive(phases) == \E p \in DOMAIN phases : phases[p].grade = "disruptive"

-----------------------------------------------------------------------------
(* The command, up to its first change.                                    *)

NoPlan == [dataplane |-> "", nodes |-> {}]
Shown(p) == [dataplane |-> p.dataplane, nodes |-> p.nodes]

Init ==
    /\ doc \in DOMAIN Documents
    /\ world = Outside[doc]
    /\ command = "idle" /\ outcome = "none" /\ refusal = {}
    /\ phase = 1 /\ progress = {}
    /\ record = {} /\ again = {} /\ finished = {} /\ ranWith = {} /\ plan = NoPlan
    /\ recheck = FALSE /\ settled = FALSE /\ rerendered = FALSE
    /\ interruptions = 0 /\ edits = 0

\* What the command comes to before it changes anything: the plan, and why it
\* stops, by the first thing that stops it.
Judge(blocked, p, phases, approve) ==
    [plan |-> Shown(p),
     stops |-> IF blocked # {} THEN blocked
               ELSE IF p.error # "" THEN {p.error}
               ELSE IF Downgraded(p) /\ ~approve THEN {"downgrade"}
               ELSE IF hasDisruptive(phases) /\ ~approve THEN {"disruptive"}
               ELSE {}]

Examined(loaded, report, approve) ==
    Judge(Blocked(report), Generate(loaded.spec, report.nodes, FALSE), loaded.phases, approve)

Verdict(loaded, w, approve) ==
    IF loaded.refused # {} THEN [plan |-> NoPlan, stops |-> loaded.refused]
    ELSE Examined(loaded, Run(loaded.spec, w), approve)

Refuse(approve) ==
    /\ command = "idle"
    /\ refusal' = Verdict(Loaded[doc], world, approve).stops
    /\ refusal' # {}
    /\ outcome' = "refused"
    /\ UNCHANGED <<doc, world, command, phase, progress, record, again, finished, ranWith,
                   recheck, plan, settled, rerendered, interruptions, edits>>

\* A run of its own, or the one in the directory again, with or without its
\* word: nothing compares the document with the one that run was started with.
Begin(resume) ==
    /\ command = "idle"
    /\ resume => ranWith # {}
    /\ \E verdict \in {Verdict(Loaded[doc], world, TRUE)} :
          /\ verdict.stops = {}
          /\ plan' = verdict.plan
    /\ command' = "building" /\ outcome' = "none" /\ refusal' = {}
    /\ phase' = 1 /\ progress' = {}
    /\ record' = IF resume THEN record ELSE {}
    /\ again' = IF resume THEN again ELSE {}
    /\ finished' = IF resume THEN finished ELSE {}
    /\ ranWith' = (IF resume THEN ranWith ELSE {}) \cup {doc}
    /\ recheck' \in IF resume THEN BOOLEAN ELSE {FALSE}
    /\ rerendered' = (resume /\ rerendered)
    /\ UNCHANGED <<doc, world, settled, interruptions, edits>>

-----------------------------------------------------------------------------
(* The run.                                                                *)

\* The phase that is built, when there is one left.
Current ==
    IF command # "building" THEN {}
    ELSE LET phases == Loaded[doc].phases IN {phases[p] : p \in {phase} \cap DOMAIN phases}

Left(ph) == DOMAIN ph.steps \ progress

\* Whether the step at j is settled before the one at i is begun: nodes take
\* turns, save in the parallel phase.
Precedes(ph, j, i) ==
    j < i /\ (ph.id = "l0-node-prep" => ph.steps[j].host = ph.steps[i].host)

\* Wrong: every phase is worked on all of its nodes at once.
ActiveTogether(ph) ==
    {i \in Left(ph) : ~\E j \in Left(ph) : j < i /\ ph.steps[j].host = ph.steps[i].host}

\* The steps that are worked on: the first that is left, of every node where
\* all are worked on at once.
Active(ph) == {i \in Left(ph) : ~\E j \in Left(ph) : Precedes(ph, j, i)}

KeyOf(ph, step) == <<ph.id, step.host, step.id>>

\* A phase the directory has as done is passed over whole, whatever steps the
\* document gives it now.
PassedOver(ph) == ph.id \in finished /\ ~recheck

Pass(ph) ==
    /\ PassedOver(ph)
    /\ phase' = phase + 1
    /\ UNCHANGED <<doc, world, command, outcome, refusal, progress, record, again, finished,
                   ranWith, recheck, plan, settled, rerendered, interruptions, edits>>

\* Wrong: what is settled of one phase counts for the next.
LeaveOnly(ph) ==
    /\ ~PassedOver(ph) /\ Left(ph) = {}
    /\ phase' = phase + 1
    /\ finished' = finished \cup {ph.id}
    /\ UNCHANGED <<doc, world, command, outcome, refusal, progress, record, again, ranWith,
                   recheck, plan, settled, rerendered, interruptions, edits>>

\* With its last step settled, a phase is done.
Leave(ph) ==
    /\ ~PassedOver(ph) /\ Left(ph) = {}
    /\ phase' = phase + 1 /\ progress' = {}
    /\ finished' = finished \cup {ph.id}
    /\ UNCHANGED <<doc, world, command, outcome, refusal, record, again, ranWith, recheck,
                   plan, settled, rerendered, interruptions, edits>>

Settle(ph, i) ==
    /\ record' = record \cup {KeyOf(ph, ph.steps[i])}
    /\ again' = again \ {KeyOf(ph, ph.steps[i])}
    /\ progress' = progress \cup {i}
    /\ UNCHANGED <<doc, command, outcome, refusal, phase, finished, ranWith, recheck, plan,
                   settled, rerendered, interruptions, edits>>

\* A step the directory has as done is not looked at, but on request.
Known(ph, i) == KeyOf(ph, ph.steps[i]) \in record \ again /\ ~recheck

Skip(ph, i) ==
    /\ Known(ph, i)
    /\ Settle(ph, i)
    /\ UNCHANGED world

Observe(ph, i) ==
    /\ ~Known(ph, i)
    /\ Holds(ph.steps[i], world)
    /\ Settle(ph, i)
    /\ UNCHANGED world

\* The Do came to its end, and what the Check asks for is there.
Works(step) == CanDo(step, world) /\ Holds(step, Done(step, world))

Apply(ph, i) ==
    /\ ~Known(ph, i)
    /\ ~Holds(ph.steps[i], world)
    /\ Works(ph.steps[i])
    /\ world' = Done(ph.steps[i], world)
    /\ Settle(ph, i)

Returns(how) ==
    /\ command' = "idle" /\ outcome' = how
    /\ phase' = 1 /\ progress' = {}

\* The steps that may be under way, and what the directory says of a run that
\* was stopped when those of begun were: each was noted as running, or failed,
\* before anything was looked at, and with it the phase.
Busy(ph) == IF PassedOver(ph) THEN {} ELSE {i \in Active(ph) : ~Known(ph, i)}
LeftOff(ph, begun) ==
    /\ again' = again \cup (record \cap {KeyOf(ph, ph.steps[i]) : i \in begun})
    /\ finished' = IF begun \cup progress = {} THEN finished ELSE finished \ {ph.id}

\* A Do that cannot come to its end stops before some write; one that does
\* may leave the Check unsatisfied.
StopsAt(step) ==
    IF CanDo(step, world) THEN {Len(step.writes)} ELSE 0..Max({0, Len(step.writes) - 1})

Fail(ph, i) ==
    /\ ~Known(ph, i)
    /\ ~Holds(ph.steps[i], world)
    /\ ~Works(ph.steps[i])
    /\ \E n \in StopsAt(ph.steps[i]) : world' = Partly(ph.steps[i], world, n)
    /\ \E begun \in SUBSET Busy(ph) : i \in begun /\ LeftOff(ph, begun)
    /\ Returns("failed")
    /\ UNCHANGED <<doc, refusal, record, ranWith, recheck, plan, settled, rerendered,
                   interruptions, edits>>

Work ==
    \E ph \in Current :
        \/ Pass(ph)
        \/ Leave(ph)
        \/ /\ ~PassedOver(ph)
           /\ \E i \in Active(ph) : Skip(ph, i) \/ Observe(ph, i) \/ Apply(ph, i) \/ Fail(ph, i)

-----------------------------------------------------------------------------
(* The verification.                                                       *)

CertsIn(body) ==
    IF body \in DOMAIN Contents THEN {c \in ToSet(Contents[body]) : c.block = "cert"} ELSE {}

\* What the verifier trusts: the roots the document brings, and those alone
\* as soon as it brings anything.
VerifierRoots(m) ==
    IF DOMAIN m.bundles = {} /\ m.trust.ca = "" THEN SystemRoots
    ELSE UNION {m.bundles[ref].ca : ref \in DOMAIN m.bundles} \cup CertsIn(m.trust.ca)

\* The listeners that are asked: those with TLS on a gateway whose address
\* the document gives.
Verified(s) == {p \in Pairs(s) : p[1].address # "" /\ p[2].protocol \in {"HTTPS", "TLS"}}

\* Behind a passthrough listener nothing answers that a build installs.
Answers(gw, l, w) ==
    /\ l.protocol = "HTTPS"
    /\ Programmed(namespaceOfGateway(gw), gw.name) \in DOMAIN w
    /\ TLSSecret(namespaceOfGateway(gw), ListenerSecret(gw, l)) \in DOMAIN w

ServedBy(gw, l, w) == w[TLSSecret(namespaceOfGateway(gw), ListenerSecret(gw, l))].certs

verifyGateways(s, m, w) ==
    UNION {LET gw == p[1]
               l == p[2]
               answers == Answers(gw, l, w) IN
           Verify(answers, IF answers THEN ServedBy(gw, l, w) ELSE <<>>, l.hostname,
                  VerifierRoots(m)) : p \in Verified(s)}

Finish ==
    /\ command = "building" /\ Current = {}
    /\ \E loaded \in {Loaded[doc]} :
          refusal' = verifyGateways(loaded.spec, loaded.material, world)
    /\ Returns(IF refusal' = {} THEN "built" ELSE "unserved")
    /\ settled' = (refusal' = {} /\ ranWith = {doc} /\ ~rerendered)
    /\ UNCHANGED <<doc, world, record, again, finished, ranWith, recheck, plan, rerendered,
                   interruptions, edits>>

-----------------------------------------------------------------------------
(* What happens around the command.                                        *)

Interrupts ==
    /\ doc \in Interrupted
    /\ interruptions < MaxInterruptions
    /\ interruptions' = interruptions + 1

\* What a step that is under way is doing, if anything.
WritesOf(step) == IF Holds(step, world) \/ ~CanDo(step, world) THEN <<>> ELSE step.writes

\* Killed while each node that is worked on is somewhere in its step, or
\* between two steps.
Kill ==
    /\ Interrupts
    /\ \E ph \in Current : \E begun \in SUBSET Busy(ph) :
       \E cut \in [begun -> 0..Max({0} \cup {Len(WritesOf(ph.steps[i])) : i \in begun})] :
          /\ \A i \in begun : cut[i] <= Len(WritesOf(ph.steps[i]))
          /\ world' = Through(world, FlattenSeq([i \in DOMAIN ph.steps |->
                         IF i \in begun THEN SubSeq(WritesOf(ph.steps[i]), 1, cut[i]) ELSE <<>>]))
          /\ LeftOff(ph, begun)
    /\ Returns("killed")
    /\ UNCHANGED <<doc, refusal, record, ranWith, recheck, plan, settled, rerendered, edits>>

\* A machine that starts again reads its files again.
Reboot(h) ==
    LET boots == When(<<h, "process.config">> \in DOMAIN world, <<StartWrites(h)>>)
                 \o When(<<h, "fstab">> \notin DOMAIN world, <<Drop(<<h, "swap">>)>>)
                 \o When(<<h, "modules-load.d">> \notin DOMAIN world, <<Drop(<<h, "modules">>)>>)
    IN  /\ command = "idle"
        /\ Interrupts
        /\ world' = Through(world, boots)
        /\ settled' = FALSE
        /\ UNCHANGED <<doc, command, outcome, refusal, phase, progress, record, again, finished,
                       ranWith, recheck, plan, rerendered, edits>>

\* The cluster runs Cilium's chart again some time after the values it is
\* given on h changed, whatever the command is doing or whether there is one.
Render(h) ==
    /\ {<<h, "process.config">>, <<h, "cilium-values">>, Object("cilium-config")} \subseteq DOMAIN world
    /\ world[Object("cilium-config")] # world[<<h, "cilium-values">>]
    /\ world' = Write(world, Rerun(h))
    /\ settled' = FALSE
    /\ rerendered' = (rerendered \/ \E key \in record : key[3] \in {"cilium-applied", "cilium-current"})
    /\ UNCHANGED <<doc, command, outcome, refusal, phase, progress, record, again, finished,
                   ranWith, recheck, plan, interruptions, edits>>

Edit(d) ==
    /\ command = "idle"
    /\ <<doc, d>> \in Edits
    /\ edits < MaxEdits
    /\ edits' = edits + 1
    /\ doc' = d
    /\ outcome' = "none" /\ refusal' = {} /\ settled' = FALSE
    /\ UNCHANGED <<world, command, phase, progress, record, again, finished, ranWith, recheck,
                   plan, rerendered, interruptions>>

-----------------------------------------------------------------------------
Next ==
    \/ \E approve \in BOOLEAN : Refuse(approve)
    \/ \E resume \in BOOLEAN : Begin(resume)
    \/ Work
    \/ Finish
    \/ Kill
    \/ \E h \in Machines : Reboot(h) \/ Render(h)
    \/ \E d \in DOMAIN Documents : Edit(d)

\* The runner takes the next step, and the operator runs the command again
\* for as long as nothing stops it: the last line is WF_vars(Begin), spelled
\* out, with a building command in the place of the step that begins one.
Fairness ==
    /\ WF_vars(Work)
    /\ WF_vars(Finish)
    /\ []<>(command = "building" \/ Verdict(Loaded[doc], world, TRUE).stops # {})

Spec == Init /\ [][Next]_vars /\ Fairness

-----------------------------------------------------------------------------
(* Properties.                                                             *)

TypeOK ==
    /\ doc \in DOMAIN Documents
    /\ command \in {"idle", "building"}
    /\ outcome \in {"none", "refused", "killed", "failed", "unserved", "built"}
    /\ command = "building" => doc \in ranWith
    /\ phase \in Nat \ {0}
    /\ \A ph \in Current : progress \subseteq DOMAIN ph.steps
    /\ Current = {} => progress = {}
    /\ ranWith \subseteq DOMAIN Documents
    /\ plan.nodes \subseteq Machines
    /\ again \subseteq record
    /\ recheck \in BOOLEAN /\ settled \in BOOLEAN /\ rerendered \in BOOLEAN
    /\ interruptions \in 0..MaxInterruptions /\ edits \in 0..MaxEdits

\* What a run has settled of the phase at p when it is past it.
Keys(ph) == {KeyOf(ph, ph.steps[i]) : i \in DOMAIN ph.steps}
Earlier(phases, p) == UNION {Keys(phases[q]) : q \in {r \in DOMAIN phases : r < p}}

\* The phases before the one at p are recorded whole.  A run that saw another
\* document before takes the directory's word for some of them.
Covered(phases, p) ==
    \A q \in DOMAIN phases :
        q < p => Keys(phases[q]) \subseteq record \/ (ranWith # {doc} /\ PassedOver(phases[q]))

\* A step is recorded as done on top of everything the document puts before
\* it, and never with another one: the phases before its own, the steps of
\* its node and, where nodes take turns, those of the nodes before it.  The
\* command comes to its end on top of all of them, and a phase is finished
\* when all of it is recorded.  Only a run that is resumed with a document that
\* was edited since goes past a phase on the word of the directory, with
\* whatever the new document gives it to do left out.
WorkedInOrder ==
    [][LET phases == Loaded[doc].phases IN
       /\ \/ record' \subseteq record
          \/ \E p \in DOMAIN phases : \E i \in DOMAIN phases[p].steps :
                /\ record' = record \cup {KeyOf(phases[p], phases[p].steps[i])}
                /\ Covered(phases, p)
                /\ \A j \in DOMAIN phases[p].steps :
                       Precedes(phases[p], j, i) => KeyOf(phases[p], phases[p].steps[j]) \in record
       /\ command = "building" /\ outcome' \in {"built", "unserved"} => Covered(phases, Len(phases) + 1)
       /\ finished' \subseteq finished \/ \E ph \in Current :
             Keys(ph) \subseteq record /\ finished' = finished \cup {ph.id}]_vars

\* The plan an operator was shown before something was changed stays within
\* what the document allows: no server is left out, nobody is planned for whom
\* the document does not name, and where it forbids a downgrade the dataplane
\* is the one it asks for.
Changing == command = "building" \/ outcome \in {"failed", "killed", "unserved", "built"}
PlanWithinDocument ==
    Changing =>
        LET s == Loaded[doc].spec IN
        /\ {n.host : n \in ToSet(s.topology.servers)} \subseteq plan.nodes
        /\ plan.nodes \subseteq {n.host : n \in NodesOf(s)}
        /\ s.kubernetes.dataplane.downgradePolicy = "forbid" =>
               plan.dataplane = s.kubernetes.dataplane.preset

\* What is served and what it is verified against are all valid now: the gate
\* looks at the dates of the leaf only.
InTime(bundle) == \A c \in ToSet(bundle.certs) \cup bundle.ca : c.from <= Now /\ Now <= c.to

\* The documents that every rule and every check lets pass and that no run
\* can build, by what is wrong with them.
Gaps(s, m) ==
    LET pinned == {gw \in GatewaysOf(s) : gw.address # ""}
        joining == ToSet(Tail(s.topology.servers)) \cup ToSet(s.topology.agents)
        first == s.topology.servers[1].host IN
    Broken({
    <<"a challenge waits for the gateways the same phase makes later",
      s.pki.mode = "acme-http01" /\ IssuedListeners(s) # {}>>,
    <<"the storage driver is not implemented", s.storage.driver \in {"longhorn", "nfs"}>>,
    <<"no single interface for the control plane's address",
      /\ VIPAddress(s) # "" /\ (\E v \in s.topology.vip : v.interface \in {"", "auto"})
      /\ Cardinality(Interfaces[first]) # 1>>,
    <<"a public certificate is verified against private roots",
      \E gw \in pinned : \E l \in ListenersOf(gw) : \E t \in l.tls :
          t.secretRef \in DOMAIN m.bundles /\ m.bundles[t.secretRef].ca = {}>>,
    <<"a certificate that is brought has an issuer out of its time",
      \E gw \in pinned : \E l \in ListenersOf(gw) : \E t \in l.tls :
          t.secretRef \in DOMAIN m.bundles /\ ~InTime(m.bundles[t.secretRef])>>,
    <<"nothing answers behind a passthrough listener",
      \E gw \in pinned : \E l \in ListenersOf(gw) : l.protocol = "TLS">>,
    <<"a node that joins is looked for by a name",
      \E n \in joining : Or(n.nodeIP, n.host) \notin IPs>>,
    <<"the first gateway is looked for in a later one's namespace",
      s.gateway.gateways # <<>> /\ namespaceOf(s) # namespaceOfGateway(s.gateway.gateways[1])>>,
    <<"a repository without its flag, and no archive for it",
      /\ wanted(s) /\ s.platform.gitops.enabled # "true"
      /\ s.network.mode = "airgap" /\ s.registry.chartRepo = "">>,
    <<"an application without a version", wanted(s) /\ ApplicationsFail(s)>>,
    <<"a metrics stack of another name",
      Enabled(s) /\ s.platform.observability.stack \notin {"", "victoria-metrics"}>>})

NotBuildable(loaded) == loaded.refused # {} \/ Gaps(loaded.spec, loaded.material) # {}

\* A document that is accepted, passes every check and has none of the gaps
\* is built: no step of it fails for want of what another step, or the site,
\* was to bring, and what its gateways serve is verified - on fresh machines,
\* after an interruption anywhere, and on machines built from another
\* document.  A run resumed with a changed document is the exception.
AcceptedIsBuilt ==
    outcome \in {"failed", "unserved"} /\ ranWith = {doc} => NotBuildable(Loaded[doc])

\* What a build leaves behind because no Check looks there.  Of an earlier
\* document: the version and the registries the processes were started with,
\* the channel of the Gateway API's definitions, the DNS provider's token, the
\* address of the repository, and such values of Cilium's as the chart was not
\* run again with yet.  Of a command killed in the middle of a
\* step: the CA's file without the store rebuilt from it, and the settings of
\* the bridge module.
Overlooked ==
    (IF edits > 0 THEN {"process.rke2", "process.registries", "gateway-api-channel",
                        "acme-secret", "repository", "cilium-config", "cilium-pods"} ELSE {})
    \cup IF interruptions > 0 THEN {"ca-store", "bridge-sysctls"} ELSE {}

\* After a build, every step of the document has nothing left to change: the
\* machines are as this document says and not as an earlier one did.
CompletedMeetsDocument ==
    settled /\ command = "idle" =>
        \A ph \in ToSet(Loaded[doc].phases) : \A step \in ToSet(ph.steps) :
            \A l \in Unmet(step, world) : l[2] \in Overlooked

\* Applying the document once more to what it was built on changes nothing,
\* whatever a later step of the same run did to what an earlier one left.
\* When the cluster runs Cilium's chart again after the run had looked at what
\* came of it, the next one restarts Cilium's pods.
SecondApplyIsQuiet == [][settled /\ settled' => world' = world]_vars

\* The one place in which the program's own work bears no mark: the directory
\* was made and its first file was not written yet.
Unmarked ==
    \E h \in Machines : /\ <<h, "/etc/rancher/rke2">> \in DOMAIN world
                        /\ \A l \in DOMAIN world : l # <<h, "registries.yaml">> /\ l # <<h, "config.yaml">>

\* A machine that this program has begun to work on is not taken for
\* somebody else's, however far the work came - save in that place.  The
\* machines that are somebody else's are another matter, and so is a run that
\* is resumed with a document of another first server: it takes the directory's
\* word that the first server was bootstrapped.
Foreign == \E n \in NodesOf(Documents[doc]) : Facts[n.host].foreign
CanBeRunAgain ==
    outcome = "refused" /\ refusal \cap {"PF-802", "PF-803"} # {} => Unmarked \/ Foreign

\* No edit, nor several of them, makes another machine the first server: home
\* is what the documents that are not refused have for it.
FirstStays(home) ==
    /\ \A e \in Edits : home[e[1]] = home[e[2]]
    /\ \A d \in DOMAIN Documents :
           Loaded[d].refused = {} => home[d] = Loaded[d].spec.topology.servers[1].host

\* No two steps of a document have one key: what is recorded of a step is of
\* that step.  The gateway phase names a step for each gateway by its name
\* alone (gateway.go), so two gateways of one name would be the exception.
KeysDiffer ==
    \A d \in DOMAIN Documents : Loaded[d].refused = {} =>
        LET phases == Loaded[d].phases IN
        \A p, q \in DOMAIN phases : \A i \in DOMAIN phases[p].steps, j \in DOMAIN phases[q].steps :
            KeyOf(phases[p], phases[p].steps[i]) = KeyOf(phases[q], phases[q].steps[j]) => p = q /\ i = j

\* Wherever a command is killed or a machine restarted, the command run
\* again brings the build to its end, save for that place.
InterruptedIsFinished ==
    interruptions > 0 ~> \/ settled
                         \/ edits > 0
                         \/ NotBuildable(Loaded[doc])
                         \/ Unmarked

\* What the plan says is what is on the machines after a build: "the
\* configuration that will actually be installed" (plan.go), with the nodes it
\* excludes kept out of the cluster and the dataplane it replaced not there.
PlannedIsBuilt ==
    outcome = "built" /\ edits = 0 =>
        /\ plan.dataplane = "canal-traefik" => Object("cilium") \notin DOMAIN world
        /\ \A h \in Machines : <<h, "process.config">> \in DOMAIN world => h \in plan.nodes

=============================================================================
