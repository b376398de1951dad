# malmok, specified

malmok builds a Kubernetes cluster (RKE2) on a set of machines it reaches over
SSH: it checks them (preflight), turns a document (`cluster.yaml`) into phases
of steps, runs the phases, and writes what it did to a run directory
(`state.json`, `events.jsonl`) from which a run can be resumed, followed and
reported on.  This directory holds TLA+ models of that program, the TLC
configurations that check them, and proofs that TLAPS checks.

Everything below is translated from the Go source.  `PROJECT.json` maps each
definition to the lines it stands for.

## Running it

    tlc -workers 2 -config EngineParallel.cfg MCEngine
    tlc -workers 2 -config EventStream.cfg EventFollower
    tlc -workers 2 -config UpgradeMove.cfg MCUpgrade
    tlc -workers 2 -config Build.cfg MCBuild
    tlapm EngineProofs.tla          # likewise the other modules whose name ends in Proofs

Every configuration is meant for the module `PROJECT.json` names beside it.

## The system

| part | state it keeps | operations | talks to | what is hard | what makes it correct |
|---|---|---|---|---|---|
| engine (`internal/engine`) | per run: the phase and step each goroutine is at, the first error | Run, runPhase, runNodesSequential, runNodesParallel, runStep, attempt, finish | state (every outcome), event (every outcome), a step's Observe and Apply | goroutines of a parallel phase, retries, cancellation, a crash between any two of apply, emit, save | nothing is recorded done that was not observed; order; the error reported is the first; a run ends; resuming converges |
| state (`internal/state`) | the record of steps and phases, in memory and in `state.json` | SetStep, SetPhase, Decide, Snapshot, Save, Load | engine, command line, report | two saves at once, a save that fails, a resume from an old record | state.json claims nothing false and loses nothing a resume depends on |
| event (`internal/event`) | `events.jsonl`, the writer's number | OpenFile with its repair, Emit, Scanner | engine and preflight write, attach and report read | a kill or an error in the middle of a line, a resume that continues the numbering | gapless numbers, complete lines are permanent |
| attach (`internal/attach`) | offset, last number, gaps it tolerates, what is drawn | Follow, readAvailable, drain, restart | reads the event file while it is written | a half-written line, a gap, a truncated file, a file that already has an end | what is drawn is the file; the reader ends |
| cmd (`cmd/malmok`) | run directory, a context with a time limit | run, apply, upgrade, resume, attach, ... | all of the above | waiting for the reader after the run; a resume over an old file | the command returns; the terminal shows the run |
| build (`internal/build`) | connections, capabilities, losses, run directory of a wizard session | Connect, Preflight, Install, Upgrade, Close | tui, preflight, plan, catalogue, engine | state of one screen used by a later one | what is installed is what was checked |
| tui (`internal/tui`) | screen, form fields, results | key handling, background work, messages | build | results that arrive after the screen has moved on | no screen acts on another document's results |
| upgrade (`internal/upgrade`) | none of its own: cordon, version and readiness of each node | Check, Phases, NodeSteps (drain, install, restart, verify, uncordon) | engine | a crash between drain and uncordon | one node at a time; none left cordoned |
| catalogue, rke2, nodeprep | none of their own: what is on the machines | Phases, Install, Bootstrap, Join | engine | steps that depend on one another across phases; a check that sees less than its `Do` writes; a kill between two writes | what was built is what the document says; a second apply is quiet; an interrupted build can be finished |
| preflight | results and findings, a count of lost findings | Run, peerChecks, clockSkew, Emitter | exec, event | telling the program's own remains from others'; clocks still being stepped; addresses the cluster itself put there | what passes can be built; the program's own work never blocks it |
| plan | none | Generate, downgrades | preflight results | what could not be measured; exclusion against downgrade | what is shown is what is built |
| cert, expiry, verify | none | chain building, lifetimes, what a client receives | files, TLS | order-free input, boundaries of time, whose roots are trusted | what is served is what a client accepts, and the verifier agrees |
| spec, api | the document | parse, default, validate | everything | combinations of fields | an accepted document can be built |
| exec | an SSH connection | Run, Put, Elevate | nodes | time limits, lost connections | an exit code is not taken for success |
| report, handoff | none | render a run directory | state, event | old or partial runs | agrees with the record |
| dataplane, gateway, storage, pki, observability, platform | none of their own: objects of the cluster | lists of steps | catalogue | two steps that write one file; waits for what a later step makes | each step's check is its target, and stays so |
| codes, images, matrix, tools, demo | tables | lookup, generation | | | |

A command opens a run directory, loads or creates the record, opens the event
file (which repairs it), starts a reader on that same file to draw on the
terminal, and calls the runner.  The runner calls a step's `Observe` and
`Apply`, and after each outcome emits an event and saves the record.
`malmok attach` is a reader in another process.  The wizard does the same work
from goroutines whose results come back as messages.

## The modules

**`Rollout`** is the promise with no machinery: a run brings targets about one
at a time, none before the targets it builds on, and calls itself complete only
when all have been.  Reopening a run is allowed at any time.

**`Engine`** is the runner together with the record.  A step is `<<phase, node,
index>>`.  `stage` and `phase` are where the main goroutine of `Runner.Run`
is; `pc`, `at` and `attempt` are, for each node of the phase being run, the
place in `runSteps`, `runStep` and `attempt`.  `mem` is the record behind its
mutex, `disk` is `state.json`, `snap[n]` is the copy that node n's `Save` has
taken and not yet renamed into place: `Snapshot` and `Rename` are separate
actions, because the lock is released between them.  `satisfied` is the world:
the steps whose target state holds.  `Observe` reads it and tells the truth;
`Apply` may lie, fail half way, or succeed.  `audited` and `verdict` are what
the event stream says.  `Start` begins a process from `disk`, and `Crash` ends
it anywhere.

| in the code | in the model |
|---|---|
| `Run`, up to its loop | `Start`, `StartFails` |
| `runPhase` | `SkipPhase`, `EnterPhase`, `EnterPhaseFails`, `PhaseDone`, `PhaseFailed` |
| `runNodesSequential`, `runNodesParallel` | `NextNode`, `CtxDone`, `Stop`, `NodesReturned` |
| `runSteps`, `runStep`, `Decide` | `NextStep`, `EmitSkip`, `MarkRunning`, `Backoff`, `RetryOrFail`, `FailStep` |
| `attempt` | `Observe`, `ObserveFails`, `Apply`, `ApplyFails`, `EmitSettled` |
| `State.Save` | `Snapshot`, `Rename`, `SaveFails` |
| `finish` | `AllPhasesDone`, `Finish`, `Close` |
| an interrupt or the run's time limit, a kill, somebody else's change to a node | `Cancel`, `Crash`, `Drift` |

**`EventLog`** is the event file and its writers: complete lines, whether bytes
follow the last newline, and one process after another.  The writer's mutex is
held from the numbering of an event to its sync, so a process has one line in
hand however many goroutines emit.  `FinishLine` covers a sync that fails after
the write (the number is consumed, the caller is told of an error);
`WriteFails` a write that leaves any part of the line behind; `Crash` a kill in
the middle of it; `Open` the repair.  `Return` is `Runner.Run` coming back, after
which the command waits for its reader; `Verify` is what it does then
(`run.go:219`): the findings of the wire verification are emitted to the same
file, behind the terminal event (lines of kind `wire`), and `Exit` follows them.

**`EventFollower`** adds one reader and the process's wait for it: the
terminal's own reader, which dies with its process and which the process waits
for (`followRun`, `<-done`), or `malmok attach`, which outlives it.  A file
position is a number of lines.  `Edit` is somebody truncating the file in place
or taking a line out of it; the reader notices, as in the code, only that a
size has shrunk.

**`Upgrade`** is `malmok upgrade`: a cluster, and the commands given to it.  A
node is a number in the order of the move, servers first, a version a number in
order of age.  `binary`, `process`, `current` and `service` are the machine:
what is installed, what runs, whether it was started since the install, whether
it has registered.  `kubelet` and `ready` are what the API server reports, which
lags: a restarted process is reported as its predecessor until `Register`, or
until `Notice` makes it not Ready.  `sched` is the cordon and what is left behind
it.  `stage`, `to`, `node`, `at` and `pc` are the command, `recorded` is what
`state.json` of the last run directory calls done.  A step's outcome and its
record are one action here (see `Engine` for the ones between).

| in the code | in the model |
|---|---|
| `Read`, `Check` | `Level`, `NotOlder`, `EveryNodeReady`, `Allowed` |
| `runUpgrade`, `openRun` | `NewRun`, `ResumeRun`, `Begin`, `Complete`, `Return` |
| `Phases`, `NodeSteps` | `Servers`, `Steps` |
| `drainStep`, `InstallStep`, `restartStep`, `upgradedStep`, `uncordonStep`: `Check` | `Holds`, `HoldsBlindly`, `Drained` |
| ... `Do` | `Drain` (cordon, then evict), `Install`, `Restart`, `Await`, `Uncordon` |
| the runner around them | `NextStep`, `NextNode`, `Observe`, `ObserveMissing`, `StepFails` |
| Kubernetes, systemd, a reboot, a kill | `Register`, `Notice`, `Bounce`, `Crash` |

Six history variables name the behaviours a promise is not made for, so that
each property says what it depends on.  `mixed`: a run was resumed for a version
that is not its own (finding 5).  `abandoned`: the operator asked for another
version with a move unfinished, which the preconditions allow.  `stale`: a
report was believed that the process behind it had outlived.  `blind`: a `Check`
took a failed query for an answer, in either direction (`grep -c` of nothing counts no
pods and a cordon that cannot be read counts as lifted; a version that cannot be read,
`phase.go:220`, is no version, so that a node which has moved counts as one that has
not).  `inactive`: the restart's `Check` found the unit not active (`phase.go:255`),
which fails it whatever the unit runs.

**`ClusterBuild`** is `malmok run`: a document, the machines, and the commands
given for them, from reading the document to verifying what the gateways serve.
The modules it extends, each the one after it, are the program's packages:

| module | package | what it has |
|---|---|---|
| `Document` | `api/v1alpha1`, `internal/spec` | the schema, the profiles, the rules a document must meet, each rule by the codes' names or its wording |
| `Steps` | `internal/engine/shell.go`, `internal/rke2/manifest.go` | what a step is: what its `Check` compares, what its `Do` needs, what it writes and in which order |
| `NodePrep`, `Rke2`, `Dataplane`, `Gateways`, `Addons` | `nodeprep`, `rke2`, `dataplane`, `gateway`, then `storage`, `pki`, `observability`, `platform` | the steps of each phase, with the files and objects they write |
| `Certificates` | `internal/cert`, `internal/verify` | blocks, chains, the gate, the bundle; what a client checks |
| `Catalogue` | `internal/catalogue`, `cmd/malmok/build.go` | the material read beside the document, the phases in their order |
| `Preflight` | `internal/preflight` | the verdict of each check, given what a machine reports and what is on it |
| `Plan` | `internal/plan` | dataplane, storage, exclusions, downgrades and the policy about them |

A *world* is a function from locations (a file or a process of a host, an object
of the cluster) to what is there.  A step of the code is a pair of shell
programs; here it is a record of the locations they touch, so that a check
which looks at less than its `Do` writes is a fact of the model and not an
assumption.  `writes` is a sequence because a kill falls between its elements;
what one `kubectl apply` or one process start brings about is one element.
`Engine` has the runner's own interleavings and records; `ClusterBuild` takes a
step's outcome and its record as one action and adds what `Engine` abstracts:
which steps there are and what they do to each other.

| in the code | in the model |
|---|---|
| `Load`, `Validate`, `ApplyProfile`, `resolveMaterial` | `Load`, `Resolved`, `Entry`; evaluated once per document (`Loaded`) |
| `runBuild`, before anything is changed | `Judge`, `Verdict`; `Refuse` if anything stops it |
| `openRun` | `Begin(resume)` |
| `runNodesSequential`, `runNodesParallel`, `runSteps` | `Precedes`, `Active`: the steps that wait for no other, one of every unfinished node in the preparation, else a single one |
| `runPhase` | `Pass` (recorded as finished: passed over whole), `Leave` |
| `runStep`, `attempt` | `Skip` (recorded), `Observe` (holds already), `Apply`, `Fail` |
| `--recheck` | `recheck`: nothing is passed over and nothing skipped |
| what `state.json` says of a run that stopped | `LeftOff`: a phase and a step that were begun again are no longer done there |
| the end of the run, `verifyGateways` | `Finish` |
| a kill, a machine that starts again, the operator's editor | `Kill`, `Reboot`, `Edit` |
| RKE2's helm controller (external) | `Render`: at any moment after Cilium's values changed, its chart is run again |

The directory's word is in three variables, because the code asks for it in two
places: `finished`, the phases it has as done (`runner.go:150`), and `record`
without `again`, the steps (`again` are those a later attempt took back).
`plan`, `settled`, `ranWith` and `rerendered` are there for the properties: what was
shown, whether the world is as a completed build left it, which documents the run
in the directory has seen, and whether Cilium's chart was run again after the run
had looked at what came of it.  The waits for something (a node, a webhook, a
certificate) succeed exactly when what they wait for can come of what is in the
world; time limits are not modelled.

**`MCBuild`** has the site and the documents.  **`MCEngine`** gives `Engine` its small catalogues, **`MCUpgrade`** gives
`Upgrade` its versions.

The proofs: **`EngineProofs`** (types, truth, order, the refinement, then what
state.json says while a run goes on and after it, and what a run is called at its
end); **`EventProofs`**;
**`UpgradeProofs`** (types, versions, completion, then drains, restarts, going
back, going on); **`CertificateProofs`** (what the gate promises the verifier),
which **`BuildProofs`** extends (the plan, and what of `ClusterBuild` does not turn
on what steps write), which **`StepProofs`** extends (what every step writes), which
**`MarkProofs`** extends (what that makes of the machines), which **`RecordProofs`**
extends (what of the record still holds on them).

A definition whose comment begins with "Wrong" is not part of a specification.
It is the definition after it with a plausible mistake, kept because some
property of the runs refuses it: `PROJECT.json` lists which.

## The runs

| run | what it has | what it shows |
|---|---|---|
| `EngineParallel` | a parallel phase of two nodes, then a cluster phase; two attempts per step; two faults | types and budgets, truthful records, order of application, the failed step named by a phase is a failed one, a completed run has an event for every step, a node cancelled by its sibling's failure does not hide it, a finished phase stays finished |
| `EngineSequential` | a sequential phase of two nodes, the first with two steps of which one is one-shot, then a cluster phase; fairness | a one-shot step begun by one process is not applied by a later one, a completed run's record is on disk, a rechecked run's targets hold, done steps stay done, the engine implements `Rollout`, resuming converges |
| `EngineEnds` | a parallel phase of two nodes, one step each, one attempt; two faults; fairness | every run ends: both nodes of the phase return, whichever of them fails, is cancelled or is saving, and so the process that waits for them ends |
| `EngineStaleSave` (violated) | as `EngineParallel`, both parallel steps one-shot | a stale snapshot renamed last erases the mark that a one-shot step was begun |
| `EngineStepTimeout` (violated) | as `EngineParallel` | a step that outlives its own timeout ends the run with the code of a cancelled one |
| `EventStream` | up to three ordinary events (and as many terminal ones as processes write), two processes, two faults; fairness | numbers, permanence of lines, the reader shows the file and nothing but the file, it begins with the run's first event and every hole after that is reported, a fresh run is shown to its end (what the file has beyond it is findings of the verification), the reader settles, the command returns |
| `EventTornLine` (violated) | the same, no fairness | a failed short write swallows the event after it |
| `EventResumedTerminal` (violated) | the same, no fairness | the terminal of a resumed run stops at the old end |
| `UpgradeMove` | two servers, an agent, three versions a minor release apart, two faults, any command between; fairness | a node restarts drained, one node at a time is kept from work and one at a time is down, agents never lead, servers stay within a minor version, nothing moves back, a command that claims success is right, an interrupted move is accepted again and ends |
| `UpgradeOtherTarget` (violated) | a server, an agent, one fault, no fairness | a run resumed for another version moves the agent past the server |
| `Build` | 28 documents, one edit, one interruption, Cilium's chart run again at any moment its values differ; fairness | what rules and checks accept is built (`AcceptedIsBuilt`), a completed build leaves no step with anything to change (`CompletedMeetsDocument`), the program's own work is not taken for somebody else's (`CanBeRunAgain`), a second apply changes nothing (`SecondApplyIsQuiet`), an interrupted build is finished by the command given again (`InterruptedIsFinished`), no step is recorded before what it builds on and a run of one document leaves none out (`WorkedInOrder`), the plan shown stays within the document (`PlanWithinDocument`) |
| `BuildExcluded` (violated) | the two documents with a machine that eBPF does not work on | the plan's dataplane and exclusions are not what is built |

*Bounds.*  Two faults, because the hazards here are pairs: a failed save and a
crash, a crash and a drift, a failed emit and a failed save, two nodes failing
at once, an interruption during the recovery from another.  Each kind draws on
the same budget, so every pair of kinds occurs, in every order.  Processes of a
run are not bounded in `Engine` (`Start` is always possible from `down`); in
`EventStream` two are enough for one resume, and four or five lines for a line
before, at and after any hole.  Two attempts per step is the smallest budget
with a retry.  Two servers and an agent are
the smallest cluster with a quorum to lose, an order within a phase and one
between phases; three versions allow a second move after an unfinished one and
a target two minors away.  The safety properties of `Upgrade` were also checked
once with four to seven faults on clusters of two and three nodes, which takes too
long to repeat.  `EngineEnds` has a catalogue of its own because liveness over the parallel phase of
`EngineParallel` with its retries takes too long to repeat; the nodes of one phase
are what its question is about.  The parallel phase has two nodes because what its nodes share
(the first error, the group's context, `state.json`) is touched pairwise; the
sequential one has two because its guard is between neighbours.

*Bounds of `Build`.*  A document is not a bound to be raised but a case, and
the twenty-eight are chosen for what they turn on: two sites built whole (one
connected, one carried in, by a profile), a minimal one, the variants an
operator would edit those into (another advertised address, mirrors, a version
and a name, another dataplane, the same one without its pool of addresses, another
gateway, another token and repository),
one document for each gap below, two that are refused, the three with a
machine on which no eBPF program could be loaded (the only server, an agent, and a
server of two where a downgrade is forbidden, which is refused), and one with two
agents to be prepared together.  `MCEdits` says what may become what.  One edit and one
interruption, in either order, because each hazard here is one of them followed
by commands; the number of commands and of resumes is not bounded, nor how often a
chart is run again.  Four documents are interrupted (`MCInterrupted`): three that are
reached by an edit, so that the interruption falls on machines that were built
before (one for each of preparation, dataplane, and token and repository), and a whole
site.  No edit makes another machine the first server and no two steps of a document
have one key: `MCBuild` states both as assumptions (`FirstStays`, `KeysDiffer`),
which TLC evaluates and some theorems need.  Where several nodes are worked on, a kill cuts each at a place of its own.

*Deadlock* is checked for the engine, which can always be started again.  In
the event runs a behaviour may end (the last process is gone and the reader has
stopped), nor in the upgrade runs, where a cluster has nothing left to do once
it is on the newest version.  A finished or refused build may stay as it is.

*Fairness.*  `Engine`: a command on a node returns (each has a time limit), the
scheduler starves no goroutine, and the operator resumes a run that stopped;
crashes, cancellations and drift are never required, and are bounded, so
convergence is claimed for what follows the last of them.  Each node's
goroutine has a fairness condition of its own.  `EventFollower`: writes return,
the ticker ticks, the time limit of the command passes, the verification ends (it
is under the same limit, `run.go:72`); `ContextDone` is
strongly fair because `select` may choose the ticker while both are ready, and
chooses at random.  `apply --demo` has no time limit (`apply.go:100`); there
`CommandReturns` relies on an interrupt.  `Upgrade`: the operator gives an interrupted command
again, as the guide tells him to (`upgrade-and-recovery.md`), commands on a node
end, and a kubelet that was started registers; faults, another target and a
resume are never required.  `ClusterBuild`: the runner goes on and the command ends, and the
operator gives the command again unless it is refused.  The last is weak
fairness of `Begin`, written as `[]<>(command = "building" \/ Verdict(...).stops # {})`:
the state of a building command stands for the step that began it, and TLC need
not evaluate all of preflight to know whether `Begin` is enabled.  `Render` has no
fairness: nothing is claimed that needs the helm controller to be quick, or to come at
all after a run has looked.

*Gaps.*  `AcceptedIsBuilt` is not true of every document, and says so: `Gaps`
lists what the rules and the checks let pass and no run can build.  Each was
met as a counterexample, and each has a document in `MCBuild`.

| gap | where |
|---|---|
| HTTP-01 certificates are waited for before the gateways their challenges go through are made; only a cluster that has those gateways already gets them | `gateway.go:91-106`, `pki.go:513` |
| `storage.driver` `longhorn` and `nfs` are a step made to fail, after the control plane is built; the rules take them, and every profile but `homelab` chooses one (the repository's README says "the document is refused") | `storage.go:256`, `validate.go:464` |
| the control plane's address with `interface: auto`, on a server with several: PF-607 fails, but does not stop the command | `kubevip.go:62`, `codes/preflight.go` |
| a public certificate is verified against private roots | `build.go:394` |
| a certificate is brought whose issuer is out of its time: the gate looks at the dates of the leaf alone, the verifier at every certificate | `cert/verify.go:309`, `verify/verify.go:341` |
| a TLS passthrough listener with a pinned address is asked for a certificate nothing installed by a build serves, and PV-001 stops | `build.go:411` |
| a joining node is recognised by its address, so one that is named by a DNS name without `nodeIP` is waited for in vain | `join.go:138` |
| the first gateway is looked for in the first explicit namespace, its own being the default one | `gateway.go:569` |
| a repository without `enabled: true` on a site without network: the chart's archive is required of nobody | `build.go` `loadCharts`, `platform.go:201` |
| an application without a version makes a phase that fails | `platform.go:423` |
| a metrics stack other than the one implemented | `observability.go:149` |

*Overlooked.*  `CompletedMeetsDocument` likewise names what a build leaves as it
was, because no `Check` looks there.  After an edit: the registries and the
version a process runs with (`bootstrap.go:309`: only `config.yaml` is compared
with the start), the channel of the Gateway API's definitions (`dataplane.go:314`:
only the version), the DNS provider's token (the DNS provider's token (`pki.go:306`: only its
presence), the repository's address (`platform.go:295`: only the credentials), and
what Cilium runs with when its values changed in another key than the four that
`carries` compares (`dataplane.go:418`): then `cilium-applied` and `cilium-current` are
satisfied by the configuration of the earlier document, and the build ends before the
helm controller has run the chart again.  (Without that entry the property fails on
the document from which the pool of addresses was taken; and the next apply restarts
Cilium's pods, which is why a chart that is run again ends the state `settled`.)
After a kill inside a step: the trust store without the CA whose file is there
(`nodeprep.go:236`), the bridge's settings (`nodeprep.go:127`).  What a document
no longer asks for is never removed (manifests of a feature that was turned
off, the network a cluster had before another preset); `Unmet` asks only what
the steps of *this* document would still write, so this is not a claim of the
model.

*What the models assume.*  One process at a time works on a run: nothing in the
code enforces it (see the hazards), and two would break what is shown here.
`Observe` tells the truth when it tells anything.  A rename is atomic and a
synced file survives.

## What is proved

`EngineProofs`, for every catalogue, every set of one-shot steps, every budget
and every number of faults:

- `TypeCorrect`: `Spec => []TypeOK`; in particular no step is attempted more
  often than its budget.
- `RecordIsTrue`: `Spec => []RecordedDoneIsTrue`.
- `OrderKept`: `Spec => []AppliedInOrder`.
- `Implements`: `Spec => ImplementsRollout`, step by step.
- `Inductive`: the invariant they rest on.  Neither truth nor order is
  inductive alone: that a phase is left only when its targets have held needs
  that each node that has returned has its steps behind it, which needs that a
  skipped step is truthfully recorded, which is the truth of `mem`, which after
  a crash is the truth of `disk`, which after a save is that of every snapshot.
  `IInv` is the conjunction: types, truth of the three kinds of record
  (`RecordedDoneIsTrue`), earlier phases reached (`PhaseProgress`), each node's
  earlier steps reached and a sequential phase's turn (`NodeProgress`).

Each lemma treats either a node's steps (`Worker...`) or everything else
(`Other...`), one case per action.  The assumptions used are those `Engine`
states on its constants.

The second part of `EngineProofs` rests on one lemma that describes the course of a
node (`WorkerFlow`: where each label is reached from, and what was recorded, copied
and saved on the way):

- `FailureNamed`: `Spec => []FailedStepIsFailed`.  `BlameInv`: the failure noted
  on the phase being run is that of a node that does nothing more, so nobody can
  mark that step otherwise; entering the phase again drops the note.
- `Saved`: `SavedInv`.  Between phases the two records are one; while a phase
  runs every copy, however stale, differs from memory on that phase alone and calls
  it neither finished nor anything but running or failed.  Hence `RunDurable`
  (`CompletedRunIsDurable`) and `PhasesKept` (`DurablePhasesKept`): a stale save
  cannot take back what another phase finished.
- `Lined`: `LineInv`.  In a phase that is not parallel one node works at a time
  (`OneAtATime`, from the turns of `IInv`), so its copy is what memory says, and
  the step it is at is marked before it is run.  Hence `StepsKept`
  (`DurableStepsKept`).  The property excludes parallel phases, where it is false:
  the copy of one node can put back what another has finished since (finding 1).

And of the end of a run:

- `CompletedAudited`: `CompletedRunIsAudited`.  `AuditInv`: a record, in memory, on
  disk or on its way there, calls a phase finished only when the stream has its every
  step; the steps a node has behind it are in the stream.
- `NotBlamed`: `SiblingNotBlamed`.  `CtxInv`: a context error that did not come from
  a cancelled run or a timeout comes after the phase has its error.
- `RecheckHolds`: `RecheckedRunHolds`.  `RecheckInv`: what lies behind a node, or
  behind the current phase, of a recheck was seen.  It is stated with what was lost
  since, because seeing is all a program can do.
- `OnceInLine`: a one-shot step of a phase that is not parallel is never resumed.
  `OnceInv`, on `LineInv`: what was fired is on disk in some state, in every later
  process, and `Decide` takes up no such step.  `NeverResumed` concludes
  `OneShotNeverResumed` for catalogues without a one-shot step in a parallel phase.
  That hypothesis is needed (finding 1) and met by the program: only tests set
  `ShellStep.Once`, and its one parallel phase (`l0-node-prep`) has no other steps.

`EventProofs`, for every bound:

- `Numbered`, `Kept`: the numbering and the permanence of lines, of the writers
  alone.  `LogInv` adds that the writer's number is at least every number in
  the file and, while every line can be read, is the file's length.
- `ReaderReadsOnly`: the composed system implements the writers' specification,
  so `NumberedWithReader` and `KeptWithReader` follow.
- `Faithful`, `Honest`: `ShownIsTheFile` and `ShownIsHonest`.  `ReaderInv` adds
  that the number compared with is that of the last line shown, and that as
  many lines are shown as consumed; `HeadInv` that the first of them could be read
  and that nobody but who edits the file moves its lines, so that with the numbering
  of the file the first event shown is number 1.  The condition `~edited` of that part
  is necessary: the first event is compared with nothing (`attach.go:211`).
- `TypeCorrect`: `Spec => []TypeOK`, from `ReaderInv` and `KindInv`.
- `FreshShown`: `FreshRunIsShown`.  `FreshInv`: while nobody edits the file, all that
  the first process writes after its terminal event is findings of the verification
  (`run.go:219-222`), a reader that knows of the end has it in the file, and one that
  stopped by itself did so there.  The file goes on growing by those findings, which
  the terminal's reader never draws; the command prints them itself (`run.go:225`).

`UpgradeProofs`, for every number of servers, agents, versions (a newer one has
no older minor release) and faults:

- `TypeCorrect`: `Spec => []TypeOK`.
- `AgentsStayBehind`, `ControlPlaneTogether`: `AgentsFollow` and
  `ServersStayTogether`.  Both come from one invariant, `Inductive`.  That the
  servers stay together cannot be read off the preconditions, which see only
  what the API server last heard: a process may be ahead of its report, and the
  binary ahead of both.  What makes the reports enough is the order of the move.
  What a run recorded of a node holds (`Truthful`), so a node is given the
  target only when every node before it has it in all three places; hence no
  node carries anything newer than a node before it (`Ordered`), only the first
  can be moved back (`Grown`), and the report of the last server is the oldest
  thing in the control plane, which is what the target was compared with
  (`Near`).
- `CompletionIsMove`: `CompletedIsMoved`, from the same invariant and the order
  of drain and uncordon.

The condition `~mixed` of these properties is necessary: `AgentsNeverLead` fails
without it (finding 5), and so does `ServersStayTogether`, by a longer behaviour
of four faults.

And for the rest of what is said of `Upgrade`:

- `OneDown`: `OneNodeDown`.  `DownInv`: the node a step restarted is the one the
  command is at, and its return is not recorded.
- `DrainFirst`, `OneKeptFromWork`: `DrainedBeforeRestart` and `OneNodeOut`, of one
  invariant, `OutInv` (`OutInductive`).  What is recorded of a drain still holds of
  the node, in whatever order the record and the cluster were interrupted; a node
  that is kept from work is the next that a command takes up.  Both have conditions
  that are necessary.  A failed query that is believed (`blind`) breaks each: a drain
  that could not read the version of a moved node (`phase.go:220`) drains it beside
  the interrupted one.  And one restart happens undrained with every query answered:
  that of a node which had moved before, so was not drained, and whose unit was found
  inactive by the restart's `Check` (`phase.go:255`); `DrainedBeforeRestart` excepts
  that node and says that there is no other.
- `NeverBack`, `MoveResumable`: `NoDowngrade` and `CanBeFinished`, of `BackInv`
  (`BackInductive`): while one move is finished before another is asked for, a report
  lags its process, the process its binary, and nothing passes the target.

`BuildProofs`, for every set of documents that have the schema's types, every set of
machines that contains theirs, everything machines may report and be found to have,
and every edit:

- `PlanSound`: what `Generate` says when it says no error.  It rests on
  `DataplaneDecided`, on the branches of `decideDataplane`.
- `BuildInductive`: `BuildInv`.  `NothingLeftOut` is not inductive: that the last
  phase is behind the command says nothing of the ones before it, and an earlier
  process may have recorded any of them, perhaps for another document.  `Course`
  adds where the command is: every phase before the current one is recorded whole,
  and so is every step settled in it, by the names the *current* document gives them,
  because a step is skipped by that name and by nothing else.  A phase may be passed
  over whole, on the word of the directory that it is finished (`runner.go:150`), so
  `WholeWhenFinished` adds that what is finished is recorded whole, which is true for
  as long as the run saw one document.  Of a run resumed with an edited document
  `Covered` says what is left: each phase behind the command is recorded whole or was
  passed over.  `NotRefused` and
  `PlanWithinDocument` add that a command at work has an accepted document and the
  plan agreed on for it; the rules are needed for the plan, since it leaves out hosts
  and only the rule that no two nodes share one makes them agents
  (`ServersAreNotAgents`).
- `BuildTyped`, `AllSettled`, `PlanKept`, `RecordedInOrder`: `TypeOK`,
  `NothingLeftOut`, `PlanWithinDocument`, `WorkedInOrder`.  The exception for phases
  passed over is necessary in each: a run of a built document, resumed after an edit of
  the dataplane, passes over the phases that would install it.

`CertificateProofs`, for every material, every set of hostnames and every trust, and
with it `BuildProofs` for every document that brings certificates:

- `ChainIsTrusted`: the walk from a leaf takes the first candidate that signed and
  never goes back; when it reaches a root, a client that has that root accepts what is
  served.  The client is any search at all: it fails only if some set of certificates is
  closed under going on and has nothing it trusts, and the walk leads through every such
  set to the root (`WayIsFollowed`).  That what is walked is linked (`WalkLinked`) is
  an induction on the walk; the library's induction theorems take an operator, so
  `Induction`, `Recursion` and `StaysIn` have it as least numbers of a set and as
  functions instead.
- `AssembledVerifies`: so the gate's verdict carries over to all three checks a listener
  must pass, under every name it was asked to cover (`CoveredIsNamed`: the gate's rule
  for wildcards and the verifier's agree on what a wildcard listener is asked for).
  Two hypotheses are not the gate's, and each is one of the gaps: the root is a private
  one, and what stands above the leaf is in its time.
- `BroughtIsAccepted`: so of every listener of every document whose material does not
  fail, against the roots the command collects.  The proof needs the names of one
  listener only, whichever others share its secret.

`StepProofs` and `MarkProofs`, for the same documents, machines and edits, and every
kill and restart:

- `NotTakenForAnothers`: `CanBeRunAgain`.  RKE2's configuration on a machine is the
  mark by which the checks know the machine for the program's own
  (`node_net.go:475`); what a machine could be taken for somebody's by is RKE2's
  process and Cilium's values.  The invariant, `MarkInv`, is that nothing of the
  latter is anywhere the mark is not.  That alone is not inductive: Cilium's values
  are put on the first server with no look at the configuration, and only the order
  of the steps says that it is there.  `Kept` therefore adds that the configuration is
  there once its step is on the record or its phase finished, and `BuildInv` that what a
  step comes after is on the record or in a phase that was passed over.  That is of the
  same machine only while no edit makes another one the first server: a run resumed
  for a new first server passes over its bootstrap and puts Cilium's values on a
  machine without a mark.  The theorem therefore assumes `FirstStays`, of the edits.
- What a write must be for that is `Fit`, and `ThroughMarks` carries it over any
  sequence of writes, so also over the part of one that was carried out before a kill,
  and over the parts of several nodes' steps together.  The rest of `StepProofs` goes
  through every step of every phase: most are harmless (`HarmlessFits`: under other
  names, or in the cluster), a start reads the configuration where it reads anything
  (`StartFits`), and Cilium's values fit where the first server is marked
  (`CiliumValuesFit`).
- `PhasesSound`: each step of an accepted document's phases fits as it is, or fits
  once the first server has its configuration and comes after the step that writes it.
- `StoppedByChecks` and `RemainsBlock` go from a refusal back to the machine it is
  about: PF-802 and PF-803 come from no other check, whatever else is found.

Besides `FirstStays`, two assumptions on the constants are used: a machine is not named as the cluster's
objects are (`NamesAssumption`, a convention of the model's locations), and neither
of the two things is on a machine before the first command (`OutsideAssumption`); a machine that was somebody else's says so in `Facts`.
`CanBeRunAgain` names both ways in which it may be refused: such a machine, and the
moment between RKE2's directory and its first file.

`RecordProofs`, for the same documents, machines, edits, kills and restarts:

- `RecordHolds`: while a run has seen one document, what it recorded as done holds on
  the machines: the `Check` of every recorded step would succeed now.  Two steps are
  excepted from a moment on: `cilium-applied` and `cilium-current` look at what the helm
  controller makes of Cilium's values, and when it runs the chart again after one of
  them was recorded (`rerendered`) the pods are older than their configuration.  `Engine` has
  this of a world that only its own `Apply` changes, one step at a time
  (`RecordedDoneIsTrue`); here a step is what it writes, and may undo another.
- `PhasesTold` says why none does.  `Asked` are the locations in which any `Check`
  compares a value, `Says` is what the document says there, by location and not by
  step.  Every step of every phase (`Told`) looks for nothing else there and puts
  nothing else there, whichever phase it is of; it takes nothing away; and what it
  compares not with a value but with another location (a process with the file it
  read, Cilium's pods with their settings) comes after the step that brings it
  (`Rests`).
- Three places are not of that kind, and `RecordInv` (`BuildInv` and `RecordTrue`) has
  them besides.  A machine that starts again forgets its modules and its swap, but each
  `Check` that looks there looks at the file they come back from (`Survives`); it starts
  its processes with the configuration that is there, and Cilium's chart is run again
  from the values that are there, which is why `Fulfilled` says of both that they are
  the document's once their steps are recorded.
- `SecondApplyQuiet`: `SecondApplyIsQuiet`.  `Quiet`: after a build all that is
  looked at holds, so a command given again finds nothing to do.  It is not what
  `RecordHolds` says with every step recorded, because a new command begins with an
  empty record.  It is stated with the conditions the code needs for it: that no two
  steps of a document have one key (`KeysDiffer`; a step of a gateway is named by the
  gateway's name alone, `gateway.go:364`, so that in a resumed run the second of two
  gateways of one name is skipped by the record of the first), and that the chart is
  not run again after the run had looked, which ends the state `settled`.
- `BuiltIsAsSaid`: the part of `CompletedMeetsDocument` that is true of every site and
  every edit, also under `KeysDiffer`.  A step puts a value that Checks compare only
  where its own `Check` looks (`Seeks`, in `Told`); so once that `Check` succeeds it has nothing left to put
  there, but for two kinds of place: those its `Check` asks the presence of and no more
  (RKE2's binary, where the document says `latest`), and the default storage class,
  which the manifest of the provisioner sets and only the next step asks for.

With these every safety invariant and every action property that the runs of
`Engine`, `EventLog`, `EventFollower` and `Upgrade` check is a theorem, and of
`ClusterBuild` all but two; `CanBeRunAgain` under `FirstStays` and `SecondApplyIsQuiet`
under `KeysDiffer`, which TLC evaluates for the documents of `MCBuild`.

Only model-checked: liveness (`EveryRunFinishes`, `ResumeConverges`,
`ReaderSettles`, `CommandReturns`, `MoveEnds`, `InterruptedIsFinished`), which is
out of the prover's reach, and `AcceptedIsBuilt` and `CompletedMeetsDocument`.  These
two are not true for every value of the constants.  What no `Check` compares may be
left as it was by somebody else before the first command (`Outside`), or by a document
before the edit, in more places than `Overlooked` names for the edits of `MCBuild`;
what a `Check` does compare is `BuiltIsAsSaid`.  `AcceptedIsBuilt` says that what each
step waits for can come, so it turns on what the site serves, too.

Helpers that TLC has and no prover knows are written out: `++` and `Just` in `Steps`
are TLC's `@@` and `:>`, and `Through` is a function where a fold would do.  `++` is a
`CHOOSE` from a set of one, which has TLC evaluate each side once.

## Where code and documentation part

1. `store.go:59`: two saves of a parallel phase may rename in the opposite order
   of their snapshots, and a one-shot step is then re-run by a resume, which
   `state.go:44-46` excludes (`EngineStaleSave`).
2. `runner.go:130`: a step's own timeout is reported as EX-104, "The run was
   cancelled before completing" (`EngineStepTimeout`).
3. `writer.go:73`: after a short write that fails, the next event is appended to
   the fragment and cannot be read; a failed `Emit` does leave a hole
   (`EventTornLine`).
4. `apply.go:300`: the terminal of a resumed run shows nothing of it
   (`EventResumedTerminal`).
5. `upgrade.go:149`: a run resumed with another `--to` skips what it recorded for
   the old one, and agents can lead their servers, which `upgrade.go:50` excludes
   (`UpgradeOtherTarget`).
6. `run.go:108`: the phases are made from the document, and the plan that was
   shown and approved is used for nothing else: a downgraded dataplane is
   installed and an excluded node joined (`BuildExcluded`).

`upgrade-and-recovery.md:88` says that resume refuses a changed document; it
does not (finding 5 has the cause).  `CompletedMeetsDocument` and
`AcceptedIsBuilt` are therefore stated for runs that saw one document
(`ranWith`).  Without the condition the first fails: a run of one document,
resumed with another that adds mirrors or changes the dataplane, passes over the phases
it has as finished (`runner.go:150`) and over the steps it recorded, and reports a build.

Four more places where what is said and what is done part are the exceptions of a
property that a run checks, each of them necessary: `edited` in `ShownIsHonest`
(`attach.go:211`: a renderer "should say so rather than quietly drawing an incomplete
history", but the first event it meets is compared with nothing), `blind` in
`OneNodeOut` (`phase.go:220`: "a node the cluster already reports on the target is not
drained again", unless the query of its version fails), `inactive` in
`DrainedBeforeRestart` (`phase.go:255`: "each node is drained before its kubelet
restarts", but one that is on the target is not), and `cilium-config` in `Overlooked`
(`dataplane.go:384`: "cilium-config carries what THIS document's values imply", as far as
four keys say).  And one is a gap of `AcceptedIsBuilt`: a document that brings any
certificate has its gateways verified against its own roots alone (`build.go:394`), so
that a publicly trusted chain fails PV-002.

Met while modelling, and not the subject of a run: an intermediate close to its
end hides later ones and the comparison of keys (`preflight/pki.go`); PF-704
blocks a document whose only material is a self-signed registry certificate;
Route 53 without keys passes the rules and fails PF-708; a `byo` listener
without a `secretRef` gets no certificate and no error; the names of a
`pki.byoCert` are first checked on the wire; what block storage needs is never
measured, so DG-020 cannot occur; a `confirm` policy cannot be confirmed
(`run.go:97` passes no approval, so the plan is an error before `--approve` is
looked at); a server newly written as the first of `topology.servers` is
bootstrapped as a cluster of its own.

The hazards without a property are in `PROJECT.json`, each with the reason.

## What is not modelled

Shell text, drawing, log lines and the wording of reports: no state of malmok
depends on them.  How a probe is run on a host: what a machine reports is the
constant `Facts`, and a check is modelled from there.  The concurrency of a
preflight session and the emission of its findings.  The wizard (`internal/tui`)
and the session behind it (`internal/build`): the screens edit one document and
call the same packages in the same order; a third of the code is layout.
Commands that only read (`report`, `certs`, `plan`, `matrix`) and the tables they
read.  In `ClusterBuild`: retries and time limits of steps (`Engine` has them),
two commands at once, values that only decorate a file, the removal of nodes
(the program has none), an edit that makes another machine the first server, two
gateways of one name, and a helm controller that fails.  Of the upgrade's preconditions, those on carried
artifacts and on snapshots (`UP-006`, `UP-103`).  SSH is the outcome of a command.  `NodeStatus`,
`PendingPhases`, `ResumePoint`, `CheckResumable` and `LoadIfExists` of
`internal/state` are not called by the program.

## The plan

Done: `Rollout`, `Engine`, `EngineProofs`; `EventLog`,
`EventFollower`, `EventProofs`; `Upgrade`, `MCUpgrade`, `UpgradeProofs`;
`ClusterBuild` with the modules it extends, `MCBuild`, `CertificateProofs`,
`BuildProofs`, `StepProofs`, `MarkProofs` and `RecordProofs`.

Next: the wizard's session, if its screens can be had in a model shorter than they
are.
