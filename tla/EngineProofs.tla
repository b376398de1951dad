---------------------------- MODULE EngineProofs ----------------------------
(***************************************************************************)
(* Proofs about the runner, for every catalogue of phases, every choice of *)
(* one-shot steps and budgets, and any number of faults.  First: no record *)
(* says more than was reached, in memory or in state.json, steps are begun *)
(* in order, and the runner implements the rollout.  Then what state.json  *)
(* says of a run while it goes on and after it: the failure it names is    *)
(* one, and what it calls finished stays finished.  And what a run is      *)
(* called at its end: a completed one is on the stream step by step, and a *)
(* rechecked one has seen every target; a cancelled one was cancelled; and *)
(* a one-shot step is not applied again by a later process.                *)
(***************************************************************************)
EXTENDS Engine, TLAPS

----------------------------------------------------------------------------
\* The steps of a catalogue.

\* The nodes of a phase and their step counts are numbers (Phase.nodeTargets).
LEMMA CatalogueShape ==
    ASSUME NEW p \in Phases
    PROVE  /\ Nodes(p) \subseteq Nat
           /\ \A n \in Nodes(p) : StepsFor(p, n) \in Nat
           /\ Catalogue[p].traversal \in Traversals
<1> DEFINE Entry == [traversal : Traversals, steps : Seq(Nat)]
<1>1. Catalogue \in Seq(Entry) /\ p \in 1..Len(Catalogue)
  BY CatalogueAssumption DEF Phases
<1>2. Catalogue[p] \in Entry
  <2> HIDE DEF Entry
  <2> QED BY <1>1
<1>3. Catalogue[p].steps \in Seq(Nat)
  BY <1>2
<1>4. QED
  BY <1>2, <1>3 DEF Nodes, StepsFor

\* A place in the catalogue names a step.
LEMMA KeyIn ==
    ASSUME NEW p \in Phases, NEW n \in Nodes(p), NEW i \in 1..StepsFor(p, n)
    PROVE  <<p, n, i>> \in Keys
BY DEF Keys

\* A step is named by its place, and by nothing else.
LEMMA KeyOut ==
    ASSUME NEW k \in Keys
    PROVE  /\ k[1] \in Phases
           /\ k[2] \in Nodes(k[1])
           /\ k[3] \in 1..StepsFor(k[1], k[2])
           /\ k = <<k[1], k[2], k[3]>>
<1>1. PICK p \in Phases : \E n \in Nodes(p) : \E i \in 1..StepsFor(p, n) :
        k = <<p, n, i>>
  BY DEF Keys
<1>2. QED
  BY <1>1

----------------------------------------------------------------------------
\* The record.

\* A new record (state.New) is a record.
LEMMA EmptyRecordType == EmptyRecord \in Record
BY DEF EmptyRecord, Record, Status

\* A new record claims nothing.
LEMMA EmptyRecordTruthful == \A seen : Truthful(EmptyRecord, seen)
<1>1. \A k \in Keys : k[1] \in Phases
  BY KeyOut
<1>2. QED
  BY <1>1 DEF EmptyRecord, Truthful, Done

\* Recording a step's outcome keeps a record a record, changes that step only,
\* and marks no phase but as failed.
LEMMA SetStepEffect ==
    ASSUME NEW rec \in Record, NEW k \in Keys, NEW s \in Status
    PROVE  /\ SetStep(rec, k, s) \in Record
           /\ SetStep(rec, k, s).steps = [rec.steps EXCEPT ![k] = s]
           /\ \A p \in Phases : \/ SetStep(rec, k, s).phases[p] = rec.phases[p]
                                \/ SetStep(rec, k, s).phases[p] = "failed"
<1>1. k[1] \in Phases
  BY KeyOut
<1>2. CASE s = "failed"
  BY <1>1, <1>2 DEF SetStep, Record, Status
<1>3. CASE s # "failed"
  BY <1>1, <1>3 DEF SetStep, Record, Status
<1>4. QED
  BY <1>2, <1>3

\* Recording a phase (State.SetPhase) keeps a record a record and changes no
\* step.
LEMMA SetPhaseEffect ==
    ASSUME NEW rec \in Record, NEW p \in Phases, NEW s \in Status
    PROVE  /\ SetPhase(rec, p, s) \in Record
           /\ SetPhase(rec, p, s).steps = rec.steps
           /\ SetPhase(rec, p, s).phases = [rec.phases EXCEPT ![p] = s]
BY DEF SetPhase, Record, Status

\* A record stays truthful when a step is recorded, done only if it was seen
\* to hold.
LEMMA SetStepTruthful ==
    ASSUME NEW rec \in Record, NEW k \in Keys, NEW s \in Status, NEW seen,
           Truthful(rec, seen),
           s \in Done => k \in seen
    PROVE  Truthful(SetStep(rec, k, s), seen)
<1>1. \A j \in Keys : SetStep(rec, k, s).steps[j] \in Done => j \in seen
  <2>1. SetStep(rec, k, s).steps = [rec.steps EXCEPT ![k] = s]
    BY SetStepEffect
  <2>2. rec.steps \in [Keys -> Status]
    BY DEF Record
  <2>3. QED
    BY <2>1, <2>2 DEF Truthful
<1>2. \A j \in Keys : SetStep(rec, k, s).phases[j[1]] \in Done => j \in seen
  <2>1. \A p \in Phases : \/ SetStep(rec, k, s).phases[p] = rec.phases[p]
                          \/ SetStep(rec, k, s).phases[p] = "failed"
    BY SetStepEffect
  <2>2. SUFFICES ASSUME NEW j \in Keys, SetStep(rec, k, s).phases[j[1]] \in Done
                 PROVE  j \in seen
    OBVIOUS
  <2>3. j[1] \in Phases
    BY KeyOut
  <2>4. rec.phases[j[1]] \in Done
    BY <2>1, <2>2, <2>3 DEF Done
  <2>5. QED
    BY <2>4 DEF Truthful
<1>3. QED
  BY <1>1, <1>2 DEF Truthful

\* ... and when a phase is recorded, done only if all its steps were.
LEMMA SetPhaseTruthful ==
    ASSUME NEW rec \in Record, NEW p \in Phases, NEW s \in Status, NEW seen,
           Truthful(rec, seen),
           s \in Done => \A j \in Keys : j[1] = p => j \in seen
    PROVE  Truthful(SetPhase(rec, p, s), seen)
<1>1. /\ SetPhase(rec, p, s).steps = rec.steps
      /\ SetPhase(rec, p, s).phases = [rec.phases EXCEPT ![p] = s]
  BY SetPhaseEffect
<1>2. rec.phases \in [Phases -> Status]
  BY DEF Record
<1>3. ASSUME NEW j \in Keys, SetPhase(rec, p, s).phases[j[1]] \in Done
      PROVE  j \in seen
  <2>1. j[1] \in Phases
    BY KeyOut
  <2>2. CASE j[1] = p
    BY <1>1, <1>2, <1>3, <2>1, <2>2
  <2>3. CASE j[1] # p
    BY <1>1, <1>2, <1>3, <2>1, <2>3 DEF Truthful
  <2>4. QED
    BY <2>2, <2>3
<1>4. QED
  BY <1>1, <1>3 DEF Truthful

\* A record that is truthful stays so when more has been seen to hold.
LEMMA TruthfulGrows ==
    ASSUME NEW rec, NEW seen, NEW more, seen \subseteq more, Truthful(rec, seen)
    PROVE  Truthful(rec, more)
BY DEF Truthful

----------------------------------------------------------------------------
\* Types.

\* The initial states are well typed.
LEMMA InitType == Init => TypeOK
<1> SUFFICES ASSUME Init PROVE TypeOK
  OBVIOUS
<1>1. MainOK
  <2>1. 1 \in 1..(Len(Catalogue) + 1)
    BY CatalogueAssumption
  <2>2. 0 \in 0..FaultLimit
    BY FaultAssumption
  <2>3. QED
    BY <2>1, <2>2 DEF Init, MainOK
<1>2. NodesOK
  BY DEF Init, NodesOK
<1>3. mem \in Record /\ disk \in Record
  BY EmptyRecordType DEF Init
<1>4. QED
  BY <1>1, <1>2, <1>3 DEF TypeOK

\* What a node that is at a step can rely on.
LEMMA AtStep ==
    ASSUME TypeOK, stage = "nodes", NEW n \in Nodes(phase), pc[n] \notin Between
    PROVE  /\ phase \in Phases
           /\ Key(n) \in Keys
           /\ Budget[Key(n)] \in Nat \ {0}
           /\ \A s \in Status : SetStep(mem, Key(n), s) \in Record
<1>1. phase \in Phases /\ at[n] \in Nat \ {0} /\ at[n] <= StepsFor(phase, n)
  BY DEF TypeOK, MainOK, NodesOK
<1>2. StepsFor(phase, n) \in Nat
  BY <1>1, CatalogueShape
<1>3. Key(n) \in Keys
  BY <1>1, <1>2, KeyIn DEF Key
<1>4. mem \in Record
  BY DEF TypeOK
<1>5. QED
  BY <1>1, <1>3, <1>4, StepAssumption, SetStepEffect

\* The same, for a node about to look at its next step.
LEMMA AtNext ==
    ASSUME TypeOK, stage = "nodes", NEW n \in Nodes(phase),
           at[n] <= StepsFor(phase, n)
    PROVE  /\ Key(n) \in Keys
           /\ Budget[Key(n)] \in Nat \ {0}
           /\ \A s \in Status : SetStep(mem, Key(n), s) \in Record
<1>1. phase \in Phases /\ at[n] \in Nat \ {0}
  BY DEF TypeOK, MainOK, NodesOK
<1>2. StepsFor(phase, n) \in Nat
  BY <1>1, CatalogueShape
<1>3. Key(n) \in Keys
  BY <1>1, <1>2, KeyIn DEF Key
<1>4. mem \in Record
  BY DEF TypeOK
<1>5. QED
  BY <1>3, <1>4, StepAssumption, SetStepEffect

\* A fault is drawn from the budget.
LEMMA FaultBound ==
    ASSUME faults \in 0..FaultLimit, Fault \/ NoFault
    PROVE  faults' \in 0..FaultLimit
BY FaultAssumption DEF Fault, NoFault

\* Every step of a node draws at most one fault.
LEMMA WorkerFaults ==
    ASSUME NEW n, NodeStep(n)
    PROVE  Fault \/ NoFault
BY DEF NodeStep, NextNode, NextStep, EmitSkip, Snapshot, Rename, SaveFails,
       RunningEventFails, Observe, ObserveFails, CommandFails, Apply, ApplyFails,
       EmitSettled, Backoff

\* A node's step leaves the variables of the main goroutine well typed.
LEMMA WorkerMain ==
    ASSUME TypeOK, NEW n, WorkerStep(n)
    PROVE  MainOK'
<1>1. stage = "nodes" /\ n \in Nodes(phase)
  BY DEF WorkerStep
<1>2. pc[n] \notin Between => Key(n) \in Keys
  BY <1>1, AtStep
<1>3. MainOK
  BY DEF TypeOK
<1>4. faults' \in 0..FaultLimit
  BY <1>3, FaultBound, WorkerFaults DEF MainOK, WorkerStep
<1> USE <1>3, <1>4 DEF MainOK, main, workers, stream, world, shots, Stop
<1>5. CASE NextNode(n)
  BY <1>5 DEF NextNode
<1>6. CASE NextStep(n)
  BY <1>6 DEF NextStep
<1>7. CASE EmitSkip(n)
  BY <1>2, <1>7 DEF EmitSkip, Between
<1>8. CASE Snapshot(n)
  BY <1>8 DEF Snapshot
<1>9. CASE Rename(n)
  BY <1>9 DEF Rename
<1>10. CASE SaveFails(n)
  BY <1>10 DEF SaveFails
<1>11. CASE RunningEventFails(n)
  BY <1>11 DEF RunningEventFails
<1>12. CASE Observe(n)
  BY <1>12 DEF Observe
<1>13. CASE ObserveFails(n)
  BY <1>13 DEF ObserveFails, CommandFails
<1>14. CASE Apply(n)
  BY <1>2, <1>14 DEF Apply, Fire, Bring, Between
<1>15. CASE ApplyFails(n)
  BY <1>2, <1>15 DEF ApplyFails, CommandFails, Fire, Bring, Between
<1>16. CASE EmitSettled(n)
  BY <1>2, <1>16 DEF EmitSettled, Between
<1>17. CASE Backoff(n)
  BY <1>17 DEF Backoff
<1>18. QED
  BY <1>5, <1>6, <1>7, <1>8, <1>9, <1>10, <1>11, <1>12, <1>13, <1>14, <1>15,
     <1>16, <1>17 DEF WorkerStep, NodeStep

\* A node's step leaves the records well typed.
LEMMA WorkerRecords ==
    ASSUME TypeOK, NEW n, WorkerStep(n)
    PROVE  mem' \in Record /\ disk' \in Record
<1>1. /\ stage = "nodes" /\ n \in Nodes(phase)
      /\ mem \in Record /\ disk \in Record
  BY DEF WorkerStep, TypeOK
<1>2. pc[n] \notin Between => \A s \in Status : SetStep(mem, Key(n), s) \in Record
  BY <1>1, AtStep
<1>3. at[n] <= StepsFor(phase, n) => \A s \in Status : SetStep(mem, Key(n), s) \in Record
  BY <1>1, AtNext
<1>4. snap[n] \in Record
  BY <1>1 DEF TypeOK, NodesOK
<1> USE <1>1 DEF Between, Status, Done
<1>5. CASE NextNode(n)
  BY <1>5 DEF NextNode
<1>6. CASE NextStep(n)
  BY <1>3, <1>6 DEF NextStep, MarkRunning
<1>7. CASE EmitSkip(n)
  BY <1>2, <1>7 DEF EmitSkip
<1>8. CASE Snapshot(n)
  BY <1>8 DEF Snapshot
<1>9. CASE Rename(n)
  BY <1>4, <1>9 DEF Rename
<1>10. CASE SaveFails(n)
  BY <1>4, <1>10 DEF SaveFails
<1>11. CASE RunningEventFails(n)
  BY <1>11 DEF RunningEventFails
<1>12. CASE Observe(n)
  BY <1>2, <1>12 DEF Observe, RetryOrFail, FailStep
<1>13. CASE ObserveFails(n)
  BY <1>2, <1>13 DEF ObserveFails, FailStep
<1>14. CASE Apply(n)
  BY <1>14 DEF Apply
<1>15. CASE ApplyFails(n)
  BY <1>2, <1>15 DEF ApplyFails, RetryOrFail, FailStep
<1>16. CASE EmitSettled(n)
  BY <1>2, <1>16 DEF EmitSettled, RetryOrFail, FailStep
<1>17. CASE Backoff(n)
  BY <1>2, <1>17 DEF Backoff, MarkRunning
<1>18. QED
  BY <1>5, <1>6, <1>7, <1>8, <1>9, <1>10, <1>11, <1>12, <1>13, <1>14, <1>15,
     <1>16, <1>17 DEF WorkerStep, NodeStep

\* What no step of a node changes.
LEMMA WorkerFrame ==
    ASSUME NEW n, WorkerStep(n)
    PROVE  stage' = stage /\ phase' = phase /\ recheck' = recheck
BY DEF WorkerStep, NodeStep, NextNode, NextStep, EmitSkip, Snapshot, Rename, SaveFails,
       RunningEventFails, Observe, ObserveFails, Apply, ApplyFails, EmitSettled,
       Backoff, main

\* A node's step leaves its own label, index, error and snapshot well typed.
LEMMA WorkerFunctions ==
    ASSUME TypeOK, NEW n, WorkerStep(n)
    PROVE  /\ pc' \in [Nodes(phase) -> Labels]
           /\ at' \in [Nodes(phase) -> Nat \ {0}]
           /\ attempt' \in [Nodes(phase) -> Nat]
           /\ err' \in [Nodes(phase) -> SUBSET {"fatal", "ctx"}]
           /\ then' \in [Nodes(phase) -> Saves]
           /\ snap' \in [Nodes(phase) -> Record]
<1>1. /\ stage = "nodes" /\ n \in Nodes(phase) /\ phase \in Phases
      /\ mem \in Record /\ EmptyRecord \in Record
  BY EmptyRecordType DEF WorkerStep, TypeOK, MainOK
<1>2. NodesOK
  BY DEF TypeOK
<1> USE <1>1, <1>2 DEF NodesOK, Labels, Saves
<1>3. CASE NextNode(n)
  BY <1>3 DEF NextNode, Go, Stop
<1>4. CASE NextStep(n)
  BY <1>4 DEF NextStep, Go, Stop, MarkRunning
<1>5. CASE EmitSkip(n)
  BY <1>5 DEF EmitSkip, Go, Stop
<1>6. CASE Snapshot(n)
  BY <1>6 DEF Snapshot, Go
<1>7. CASE Rename(n)
  BY <1>7 DEF Rename, Go, Stop, StepOver
<1>8. CASE SaveFails(n)
  BY <1>8 DEF SaveFails, Go, Stop, StepOver
<1>9. CASE RunningEventFails(n)
  BY <1>9 DEF RunningEventFails, Go, Stop
<1>10. CASE Observe(n)
  BY <1>10 DEF Observe, Go, RetryOrFail, FailStep
<1>11. CASE ObserveFails(n)
  BY <1>11 DEF ObserveFails, Go, FailStep, CtxIf
<1>12. CASE Apply(n)
  BY <1>12 DEF Apply, Go
<1>13. CASE ApplyFails(n)
  BY <1>13 DEF ApplyFails, Go, RetryOrFail, FailStep, CtxIf
<1>14. CASE EmitSettled(n)
  BY <1>14 DEF EmitSettled, Go, RetryOrFail, FailStep
<1>15. CASE Backoff(n)
  BY <1>15 DEF Backoff, Go, Stop, MarkRunning
<1>16. QED
  BY <1>3, <1>4, <1>5, <1>6, <1>7, <1>8, <1>9, <1>10, <1>11, <1>12, <1>13,
     <1>14, <1>15 DEF WorkerStep, NodeStep

\* A node's step leaves the other nodes where they are.
LEMMA WorkerOthers ==
    ASSUME TypeOK, NEW n, WorkerStep(n), NEW m \in Nodes(phase), m # n
    PROVE  /\ pc'[m] = pc[m] /\ at'[m] = at[m] /\ attempt'[m] = attempt[m]
           /\ err'[m] = err[m] /\ then'[m] = then[m] /\ snap'[m] = snap[m]
<1>1. NodesOK /\ stage = "nodes"
  BY DEF TypeOK, WorkerStep
<1> USE <1>1 DEF NodesOK
<1>2. CASE NextNode(n)
  BY <1>2 DEF NextNode, Go, Stop
<1>3. CASE NextStep(n)
  BY <1>3 DEF NextStep, Go, Stop, MarkRunning
<1>4. CASE EmitSkip(n)
  BY <1>4 DEF EmitSkip, Go, Stop
<1>5. CASE Snapshot(n)
  BY <1>5 DEF Snapshot, Go
<1>6. CASE Rename(n)
  BY <1>6 DEF Rename, Go, Stop, StepOver
<1>7. CASE SaveFails(n)
  BY <1>7 DEF SaveFails, Go, Stop, StepOver
<1>8. CASE RunningEventFails(n)
  BY <1>8 DEF RunningEventFails, Go, Stop
<1>9. CASE Observe(n)
  BY <1>9 DEF Observe, Go, RetryOrFail, FailStep
<1>10. CASE ObserveFails(n)
  BY <1>10 DEF ObserveFails, Go, FailStep, CtxIf
<1>11. CASE Apply(n)
  BY <1>11 DEF Apply, Go
<1>12. CASE ApplyFails(n)
  BY <1>12 DEF ApplyFails, Go, RetryOrFail, FailStep, CtxIf
<1>13. CASE EmitSettled(n)
  BY <1>13 DEF EmitSettled, Go, RetryOrFail, FailStep
<1>14. CASE Backoff(n)
  BY <1>14 DEF Backoff, Go, Stop, MarkRunning
<1>15. QED
  BY <1>2, <1>3, <1>4, <1>5, <1>6, <1>7, <1>8, <1>9, <1>10, <1>11, <1>12,
     <1>13, <1>14 DEF WorkerStep, NodeStep

\* The node that moves stays within its steps and their budgets
\* (Runner.runStep).
LEMMA WorkerBudget ==
    ASSUME TypeOK, NEW n, WorkerStep(n), pc'[n] \notin Between
    PROVE  /\ at'[n] <= StepsFor(phase, n)
           /\ attempt'[n] \in 1..Budget[<<phase, n, at'[n]>>]
           /\ pc'[n] = "backoff" => attempt'[n] < Budget[<<phase, n, at'[n]>>]
<1>1. NodesOK /\ stage = "nodes" /\ n \in Nodes(phase) /\ phase \in Phases
  BY DEF TypeOK, MainOK, WorkerStep
<1>2. at[n] \in Nat \ {0} /\ attempt[n] \in Nat /\ pc[n] \in Labels
  BY <1>1 DEF NodesOK
<1>3. pc[n] \notin Between => /\ at[n] <= StepsFor(phase, n)
                              /\ attempt[n] \in 1..Budget[Key(n)]
                              /\ Budget[Key(n)] \in Nat \ {0}
                              /\ pc[n] = "backoff" => attempt[n] < Budget[Key(n)]
  BY <1>1, AtStep DEF NodesOK
<1>4. at[n] <= StepsFor(phase, n) => Budget[Key(n)] \in Nat \ {0}
  BY <1>1, AtNext
<1> USE <1>1, <1>2, <1>3 DEF NodesOK, Between, Labels, Key
<1>5. CASE NextNode(n)
  BY <1>5 DEF NextNode, Go, Stop
<1>6. CASE NextStep(n)
  BY <1>4, <1>6 DEF NextStep, Go, Stop, MarkRunning
<1>7. CASE EmitSkip(n)
  BY <1>7 DEF EmitSkip, Go, Stop
<1>8. CASE Snapshot(n)
  BY <1>8 DEF Snapshot, Go
<1>9. CASE Rename(n)
  BY <1>9 DEF Rename, Go, Stop, StepOver
<1>10. CASE SaveFails(n)
  BY <1>10 DEF SaveFails, Go, Stop, StepOver
<1>11. CASE RunningEventFails(n)
  BY <1>11 DEF RunningEventFails, Go, Stop
<1>12. CASE Observe(n)
  BY <1>12 DEF Observe, Go, RetryOrFail, FailStep
<1>13. CASE ObserveFails(n)
  BY <1>13 DEF ObserveFails, Go, FailStep
<1>14. CASE Apply(n)
  BY <1>14 DEF Apply, Go
<1>15. CASE ApplyFails(n)
  BY <1>15 DEF ApplyFails, Go, RetryOrFail, FailStep
<1>16. CASE EmitSettled(n)
  BY <1>16 DEF EmitSettled, Go, RetryOrFail, FailStep
<1>17. CASE Backoff(n)
  BY <1>17 DEF Backoff, Go, Stop, MarkRunning
<1>18. QED
  BY <1>5, <1>6, <1>7, <1>8, <1>9, <1>10, <1>11, <1>12, <1>13, <1>14, <1>15,
     <1>16, <1>17 DEF WorkerStep, NodeStep

\* A node's step preserves the types.
LEMMA WorkerType ==
    ASSUME TypeOK, NEW n, WorkerStep(n)
    PROVE  TypeOK'
<1>1. /\ stage' = "nodes" /\ phase' = phase
      /\ stage = "nodes" /\ n \in Nodes(phase)
  BY WorkerFrame DEF WorkerStep
<1>2. ASSUME NEW m \in Nodes(phase), pc'[m] \notin Between
      PROVE  /\ at'[m] <= StepsFor(phase, m)
             /\ attempt'[m] \in 1..Budget[<<phase, m, at'[m]>>]
             /\ pc'[m] = "backoff" => attempt'[m] < Budget[<<phase, m, at'[m]>>]
  <2>1. CASE m = n
    BY <1>2, <2>1, WorkerBudget
  <2>2. CASE m # n
    BY <1>1, <1>2, <2>2, WorkerOthers DEF TypeOK, NodesOK, Key
  <2>3. QED
    BY <2>1, <2>2
<1>3. NodesOK'
  BY <1>1, <1>2, WorkerFunctions DEF NodesOK, Key
<1>4. QED
  BY <1>3, WorkerMain, WorkerRecords DEF TypeOK

\* The main goroutine and the environment.
Other == Start \/ MainStep \/ Crash \/ Cancel \/ Drift

\* Every step that is not a node's draws at most one fault.
LEMMA OtherFaults ==
    ASSUME Other
    PROVE  Fault \/ NoFault
BY DEF Other, MainStep, Start, StartFails, SkipPhase, EnterPhase, EnterPhaseFails,
       PhaseDone, PhaseFailed, AllPhasesDone, Finish, Close, Crash, Cancel, Drift

\* Such a step leaves the main goroutine's variables well typed.
LEMMA OtherMain ==
    ASSUME TypeOK, Other
    PROVE  MainOK'
<1>1. MainOK
  BY DEF TypeOK
<1>2. faults' \in 0..FaultLimit
  BY <1>1, OtherFaults, FaultBound DEF MainOK
<1>3. Len(Catalogue) \in Nat /\ 1 \in 1..(Len(Catalogue) + 1)
  BY CatalogueAssumption
<1> USE <1>1, <1>2, <1>3 DEF MainOK, Phases, main, workers, stream, world, shots
<1>4. CASE Start
  <2>1. fired' \subseteq OneShot /\ firedBefore' \subseteq OneShot /\ lost' \subseteq Keys
    BY <1>4 DEF Start
  <2>2. QED
    BY <1>4, <2>1 DEF Start
<1>5. CASE StartFails
  BY <1>5 DEF StartFails
<1>6. CASE SkipPhase
  BY <1>6 DEF SkipPhase
<1>7. CASE EnterPhase
  BY <1>7 DEF EnterPhase
<1>8. CASE EnterPhaseFails
  BY <1>8 DEF EnterPhaseFails
<1>9. CASE PhaseDone
  BY <1>9 DEF PhaseDone
<1>10. CASE PhaseFailed
  BY <1>10 DEF PhaseFailed
<1>11. CASE AllPhasesDone
  BY <1>11 DEF AllPhasesDone
<1>12. CASE Finish
  BY <1>12 DEF Finish, Outcome
<1>13. CASE Close
  BY <1>13 DEF Close
<1>14. CASE Crash
  BY <1>14 DEF Crash
<1>15. CASE Cancel
  BY <1>15 DEF Cancel
<1>16. CASE Drift
  BY <1>16 DEF Drift
<1>17. QED
  BY <1>4, <1>5, <1>6, <1>7, <1>8, <1>9, <1>10, <1>11, <1>12, <1>13, <1>14,
     <1>15, <1>16 DEF Other, MainStep

\* Such a step leaves the nodes well typed: it enters a phase, leaves it, or
\* leaves them alone.
LEMMA OtherNodes ==
    ASSUME TypeOK, Other
    PROVE  NodesOK'
<1>1. NodesOK /\ MainOK
  BY DEF TypeOK
<1>2. 1 \in Nat \ {0} /\ EmptyRecord \in Record
  BY EmptyRecordType
<1> USE <1>1 DEF NodesOK, main, workers, stream, world, shots, Key
<1>3. CASE Start
  BY <1>3 DEF Start
<1>4. CASE StartFails
  BY <1>4 DEF StartFails
<1>5. CASE SkipPhase
  BY <1>5 DEF SkipPhase
<1>6. CASE EnterPhase
  BY <1>2, <1>6 DEF EnterPhase, Between, Labels, Saves, MainOK
<1>7. CASE EnterPhaseFails
  BY <1>7 DEF EnterPhaseFails
<1>8. CASE PhaseDone
  BY <1>8 DEF PhaseDone, NoWorkers
<1>9. CASE PhaseFailed
  BY <1>9 DEF PhaseFailed, NoWorkers
<1>10. CASE AllPhasesDone
  BY <1>10 DEF AllPhasesDone
<1>11. CASE Finish
  BY <1>11 DEF Finish
<1>12. CASE Close
  BY <1>12 DEF Close
<1>13. CASE Crash
  BY <1>13 DEF Crash, NoWorkers
<1>14. CASE Cancel
  BY <1>14 DEF Cancel
<1>15. CASE Drift
  BY <1>15 DEF Drift
<1>16. QED
  BY <1>3, <1>4, <1>5, <1>6, <1>7, <1>8, <1>9, <1>10, <1>11, <1>12, <1>13,
     <1>14, <1>15 DEF Other, MainStep

\* Such a step leaves the records well typed.
LEMMA OtherRecords ==
    ASSUME TypeOK, Other
    PROVE  mem' \in Record /\ disk' \in Record
<1>1. mem \in Record /\ disk \in Record /\ EmptyRecord \in Record
  BY EmptyRecordType DEF TypeOK
<1>2. phase \in Phases =>
        \A s \in Status : SetPhase(mem, phase, s) \in Record
  BY <1>1, SetPhaseEffect
<1>3. stage = "nodes" => phase \in Phases
  BY DEF TypeOK, MainOK
<1> USE <1>1 DEF Status, Done
<1>4. CASE Start
  BY <1>4 DEF Start
<1>5. CASE StartFails
  BY <1>5 DEF StartFails
<1>6. CASE SkipPhase
  BY <1>6 DEF SkipPhase
<1>7. CASE EnterPhase
  BY <1>2, <1>3, <1>7 DEF EnterPhase
<1>8. CASE EnterPhaseFails
  BY <1>8 DEF EnterPhaseFails
<1>9. CASE PhaseDone
  BY <1>2, <1>3, <1>9 DEF PhaseDone
<1>10. CASE PhaseFailed
  BY <1>2, <1>3, <1>10 DEF PhaseFailed
<1>11. CASE AllPhasesDone
  BY <1>11 DEF AllPhasesDone
<1>12. CASE Finish
  BY <1>12 DEF Finish
<1>13. CASE Close
  BY <1>13 DEF Close
<1>14. CASE Crash
  BY <1>14 DEF Crash
<1>15. CASE Cancel
  BY <1>15 DEF Cancel
<1>16. CASE Drift
  BY <1>16 DEF Drift
<1>17. QED
  BY <1>4, <1>5, <1>6, <1>7, <1>8, <1>9, <1>10, <1>11, <1>12, <1>13, <1>14,
     <1>15, <1>16 DEF Other, MainStep

\* Stuttering preserves the types.
LEMMA StutterType ==
    ASSUME TypeOK, UNCHANGED vars
    PROVE  TypeOK'
BY DEF TypeOK, MainOK, NodesOK, Key, vars, main, workers, stream, world, shots

\* TypeOK holds of every reachable state; in particular no step is attempted
\* more often than its budget allows, across retries and failed events.
THEOREM TypeCorrect == Spec => []TypeOK
<1>1. Init => TypeOK
  BY InitType
<1>2. TypeOK /\ [Next]_vars => TypeOK'
  <2> SUFFICES ASSUME TypeOK, [Next]_vars PROVE TypeOK'
    OBVIOUS
  <2>1. CASE Other
    BY <2>1, OtherMain, OtherNodes, OtherRecords DEF TypeOK
  <2>2. CASE \E p \in Phases : \E n \in Nodes(p) : WorkerStep(n)
    BY <2>2, WorkerType
  <2>3. CASE UNCHANGED vars
    BY <2>3, StutterType
  <2>4. QED
    BY <2>1, <2>2, <2>3 DEF Next, Other
<1>3. QED
  BY <1>1, <1>2, PTL DEF Spec

----------------------------------------------------------------------------
\* Progress.  What TypeOK and RecordedDoneIsTrue need beside them to be
\* inductive: how far the phases, and the nodes of the current one, have come.

PhaseProgress ==
    /\ satisfied \subseteq reached
    /\ stage \in {"phases", "nodes"} =>
         \A k \in Keys : k[1] < phase => k \in reached
    /\ stage \in {"finish", "closing"} /\ cause = "none" => Keys \subseteq reached
    /\ verdict = "ok" => Keys \subseteq reached

\* Where a node says a step is behind it, its target state has held.
NodeSeen(n) ==
    /\ \A i \in 1..StepsFor(phase, n) : i < at[n] => <<phase, n, i>> \in reached
    /\ pc[n] = "done" => at[n] > StepsFor(phase, n)
    /\ pc[n] \in {"skipping", "settled"} => Key(n) \in reached
    /\ pc[n] \in {"snapshot", "rename"} /\ then[n] \in {"skip", "settle"} =>
         Key(n) \in reached

\* A sequential phase has finished with every node before one it has started.
Turn(n) ==
    Catalogue[phase].traversal = "sequential" /\ pc[n] # "idle" =>
      \A m \in Nodes(phase) : m < n => pc[m] = "done"

NodeProgress == stage = "nodes" => \A n \in Nodes(phase) : NodeSeen(n) /\ Turn(n)

\* Types, truthful records, and order: everything behind the current place has
\* been seen to hold.
IInv == TypeOK /\ RecordedDoneIsTrue /\ PhaseProgress /\ NodeProgress

\* What has been reached only grows when a node moves (Apply).
LEMMA WorkerReached ==
    ASSUME TypeOK, PhaseProgress, NEW n, WorkerStep(n)
    PROVE  /\ reached \subseteq reached'
           /\ satisfied' \subseteq reached'
           /\ verdict' = verdict
<1>1. satisfied \subseteq reached
  BY DEF PhaseProgress
<1> USE <1>1 DEF world, stream
<1>2. CASE NextNode(n)
  BY <1>2 DEF NextNode
<1>3. CASE NextStep(n)
  BY <1>3 DEF NextStep
<1>4. CASE EmitSkip(n)
  BY <1>4 DEF EmitSkip
<1>5. CASE Snapshot(n)
  BY <1>5 DEF Snapshot
<1>6. CASE Rename(n)
  BY <1>6 DEF Rename
<1>7. CASE SaveFails(n)
  BY <1>7 DEF SaveFails
<1>8. CASE RunningEventFails(n)
  BY <1>8 DEF RunningEventFails
<1>9. CASE Observe(n)
  BY <1>9 DEF Observe
<1>10. CASE ObserveFails(n)
  BY <1>10 DEF ObserveFails
<1>11. CASE Apply(n)
  BY <1>11 DEF Apply, Bring
<1>12. CASE ApplyFails(n)
  BY <1>12 DEF ApplyFails, Bring
<1>13. CASE EmitSettled(n)
  BY <1>13 DEF EmitSettled
<1>14. CASE Backoff(n)
  BY <1>14 DEF Backoff
<1>15. QED
  BY <1>2, <1>3, <1>4, <1>5, <1>6, <1>7, <1>8, <1>9, <1>10, <1>11, <1>12,
     <1>13, <1>14 DEF WorkerStep, NodeStep

\* A record is truthful of what is reached now and of what is reached next.
LEMMA WorkerTruthMem ==
    ASSUME TypeOK, RecordedDoneIsTrue, PhaseProgress, NEW n, WorkerStep(n)
    PROVE  Truthful(mem', reached')
<1>1. /\ stage = "nodes" /\ n \in Nodes(phase) /\ mem \in Record
      /\ satisfied \subseteq reached
  BY DEF WorkerStep, TypeOK, PhaseProgress
<1>2. SUFFICES Truthful(mem', reached)
  BY WorkerReached, TruthfulGrows
<1>3. Truthful(mem, reached)
  BY DEF RecordedDoneIsTrue
<1>4. pc[n] \notin Between =>
        \A s \in Status : (s \in Done => Key(n) \in reached) =>
          Truthful(SetStep(mem, Key(n), s), reached)
  BY <1>1, <1>3, AtStep, SetStepTruthful
<1>5. at[n] <= StepsFor(phase, n) =>
        \A s \in Status : (s \in Done => Key(n) \in reached) =>
          Truthful(SetStep(mem, Key(n), s), reached)
  BY <1>1, <1>3, AtNext, SetStepTruthful
<1>6. at[n] <= StepsFor(phase, n) /\ mem.steps[Key(n)] \in Done => Key(n) \in reached
  BY <1>1, <1>3, AtNext DEF Truthful
<1> USE <1>1, <1>3 DEF Between, Status, Done
<1>7. CASE NextNode(n)
  BY <1>7 DEF NextNode
<1>8. CASE NextStep(n)
  BY <1>5, <1>6, <1>8 DEF NextStep, MarkRunning, Skips
<1>9. CASE EmitSkip(n)
  BY <1>9 DEF EmitSkip
<1>10. CASE Snapshot(n)
  BY <1>10 DEF Snapshot
<1>11. CASE Rename(n)
  BY <1>11 DEF Rename
<1>12. CASE SaveFails(n)
  BY <1>12 DEF SaveFails
<1>13. CASE RunningEventFails(n)
  BY <1>13 DEF RunningEventFails
<1>14. CASE Observe(n)
  BY <1>4, <1>14 DEF Observe, RetryOrFail, FailStep
<1>15. CASE ObserveFails(n)
  BY <1>4, <1>15 DEF ObserveFails, FailStep
<1>16. CASE Apply(n)
  BY <1>16 DEF Apply
<1>17. CASE ApplyFails(n)
  BY <1>4, <1>17 DEF ApplyFails, RetryOrFail, FailStep
<1>18. CASE EmitSettled(n)
  BY <1>4, <1>18 DEF EmitSettled, RetryOrFail, FailStep
<1>19. CASE Backoff(n)
  BY <1>4, <1>19 DEF Backoff, MarkRunning
<1>20. QED
  BY <1>7, <1>8, <1>9, <1>10, <1>11, <1>12, <1>13, <1>14, <1>15, <1>16, <1>17,
     <1>18, <1>19 DEF WorkerStep, NodeStep

\* state.json and the snapshots stay truthful when a node moves: a save copies
\* what was truthful (State.Save).
LEMMA WorkerTruthCopies ==
    ASSUME TypeOK, RecordedDoneIsTrue, PhaseProgress, NEW n, WorkerStep(n)
    PROVE  /\ Truthful(disk', reached')
           /\ \A m \in Nodes(phase) : Truthful(snap'[m], reached')
<1>1. stage = "nodes" /\ n \in Nodes(phase) /\ NodesOK
  BY DEF WorkerStep, TypeOK
<1>2. /\ Truthful(mem, reached) /\ Truthful(disk, reached)
      /\ \A m \in Nodes(phase) : Truthful(snap[m], reached)
      /\ Truthful(EmptyRecord, reached)
  BY <1>1, EmptyRecordTruthful DEF RecordedDoneIsTrue
<1>3. disk' \in {disk, snap[n]}
  BY DEF WorkerStep, NodeStep, NextNode, NextStep, EmitSkip, Snapshot, Rename,
         SaveFails, RunningEventFails, Observe, ObserveFails, Apply, ApplyFails,
         EmitSettled, Backoff
<1>4. snap'[n] \in {snap[n], mem, EmptyRecord}
  BY <1>1 DEF NodesOK, WorkerStep, NodeStep, NextNode, NextStep, EmitSkip, Snapshot,
         Rename, SaveFails, RunningEventFails, Observe, ObserveFails, Apply,
         ApplyFails, EmitSettled, Backoff
<1>5. /\ Truthful(disk', reached)
      /\ \A m \in Nodes(phase) : Truthful(snap'[m], reached)
  BY <1>1, <1>2, <1>3, <1>4, WorkerOthers
<1>6. reached \subseteq reached'
  BY WorkerReached
<1>7. QED
  BY <1>5, <1>6, TruthfulGrows

\* The node that moves has still seen everything behind it.
LEMMA WorkerSeen ==
    ASSUME TypeOK, RecordedDoneIsTrue, PhaseProgress, NodeProgress,
           NEW n, WorkerStep(n)
    PROVE  NodeSeen(n)'
<1>1. /\ stage = "nodes" /\ n \in Nodes(phase) /\ NodesOK
      /\ NodeSeen(n) /\ satisfied \subseteq reached
      /\ phase' = phase /\ reached \subseteq reached'
  BY WorkerFrame, WorkerReached DEF WorkerStep, TypeOK, NodeProgress, PhaseProgress
<1>2. at[n] \in Nat \ {0} /\ StepsFor(phase, n) \in Nat
  BY <1>1, CatalogueShape DEF NodesOK, TypeOK, MainOK
<1>3. at[n] <= StepsFor(phase, n) /\ mem.steps[Key(n)] \in Done => Key(n) \in reached
  BY <1>1, AtNext DEF RecordedDoneIsTrue, Truthful
<1>4. pc[n] \notin Between => at[n] <= StepsFor(phase, n)
  BY <1>1 DEF NodesOK
<1> USE <1>1, <1>2 DEF NodesOK, NodeSeen, Key, Labels, Saves, Between
<1>5. CASE NextNode(n)
  BY <1>5 DEF NextNode, Go, Stop
<1>6. CASE NextStep(n)
  BY <1>3, <1>6 DEF NextStep, Go, Stop, MarkRunning, Skips, Runs
<1>7. CASE EmitSkip(n)
  BY <1>7 DEF EmitSkip, Go, Stop
<1>8. CASE Snapshot(n)
  BY <1>8 DEF Snapshot, Go
<1>9. CASE Rename(n)
  BY <1>4, <1>9 DEF Rename, Go, Stop, StepOver
<1>10. CASE SaveFails(n)
  BY <1>4, <1>10 DEF SaveFails, Go, Stop, StepOver
<1>11. CASE RunningEventFails(n)
  BY <1>11 DEF RunningEventFails, Go, Stop
<1>12. CASE Observe(n)
  BY <1>12 DEF Observe, Go, RetryOrFail, FailStep
<1>13. CASE ObserveFails(n)
  BY <1>13 DEF ObserveFails, Go, FailStep
<1>14. CASE Apply(n)
  BY <1>14 DEF Apply, Go
<1>15. CASE ApplyFails(n)
  BY <1>15 DEF ApplyFails, Go, RetryOrFail, FailStep
<1>16. CASE EmitSettled(n)
  BY <1>16 DEF EmitSettled, Go, RetryOrFail, FailStep
<1>17. CASE Backoff(n)
  BY <1>17 DEF Backoff, Go, Stop, MarkRunning
<1>18. QED
  BY <1>5, <1>6, <1>7, <1>8, <1>9, <1>10, <1>11, <1>12, <1>13, <1>14, <1>15,
     <1>16, <1>17 DEF WorkerStep, NodeStep

\* A sequential phase gives the turn to a node only after the nodes before it
\* (runNodesSequential).
LEMMA WorkerTurn ==
    ASSUME TypeOK, NodeProgress, NEW n, WorkerStep(n), NEW m \in Nodes(phase)
    PROVE  Turn(m)'
<1>1. /\ stage = "nodes" /\ n \in Nodes(phase) /\ NodesOK /\ phase' = phase
      /\ \A l \in Nodes(phase) : Turn(l)
  BY WorkerFrame DEF WorkerStep, TypeOK, NodeProgress
<1>2. pc[n] # "done"
  BY DEF WorkerStep, NodeStep, NextNode, NextStep, EmitSkip, Snapshot, Rename,
         SaveFails, RunningEventFails, Observe, ObserveFails, Apply, ApplyFails,
         EmitSettled, Backoff
<1>3. \A l \in Nodes(phase) : pc[l] = "done" => pc'[l] = "done"
  BY <1>1, <1>2, WorkerOthers
<1>4. CASE pc[m] # "idle"
  BY <1>1, <1>3, <1>4 DEF Turn
<1>5. CASE pc[m] = "idle" /\ m # n
  BY <1>1, <1>5, WorkerOthers DEF Turn
<1>6. CASE pc[m] = "idle" /\ m = n
  <2>1. \A l \in Nodes(phase) : l < n => pc[l] = "done"
    BY <1>6 DEF WorkerStep, NodeStep, NextNode, NextStep, EmitSkip, Snapshot, Rename,
         SaveFails, RunningEventFails, Observe, ObserveFails, Apply, ApplyFails,
         EmitSettled, Backoff
  <2>2. QED
    BY <1>1, <1>3, <1>6, <2>1 DEF Turn
<1>7. QED
  BY <1>4, <1>5, <1>6

\* A node's step preserves the inductive invariant.
LEMMA WorkerIInv ==
    ASSUME IInv, NEW n, WorkerStep(n)
    PROVE  IInv'
<1>1. /\ TypeOK /\ RecordedDoneIsTrue /\ PhaseProgress /\ NodeProgress
      /\ stage = "nodes" /\ n \in Nodes(phase)
      /\ stage' = "nodes" /\ phase' = phase
  BY WorkerFrame DEF IInv, WorkerStep
<1>2. /\ reached \subseteq reached' /\ satisfied' \subseteq reached'
      /\ verdict' = verdict
  BY <1>1, WorkerReached
<1>3. TypeOK'
  BY <1>1, WorkerType
<1>4. RecordedDoneIsTrue'
  BY <1>1, WorkerTruthMem, WorkerTruthCopies DEF RecordedDoneIsTrue
<1>5. PhaseProgress'
  BY <1>1, <1>2 DEF PhaseProgress
<1>6. \A m \in Nodes(phase) : NodeSeen(m)'
  <2>1. ASSUME NEW m \in Nodes(phase), m # n
        PROVE  NodeSeen(m)'
    <3>1. /\ pc'[m] = pc[m] /\ at'[m] = at[m] /\ then'[m] = then[m]
      BY <1>1, <2>1, WorkerOthers
    <3>2. NodeSeen(m)
      BY <1>1 DEF NodeProgress
    <3>3. QED
      BY <1>1, <1>2, <3>1, <3>2 DEF NodeSeen, Key
  <2>2. QED
    BY <1>1, <2>1, WorkerSeen
<1>7. \A m \in Nodes(phase) : Turn(m)'
  BY <1>1, WorkerTurn
<1>8. QED
  BY <1>1, <1>3, <1>4, <1>5, <1>6, <1>7 DEF IInv, NodeProgress

\* No step but a node's changes what has been reached.
LEMMA OtherReached ==
    ASSUME Other
    PROVE  reached' = reached /\ satisfied' \subseteq satisfied
BY DEF Other, MainStep, Start, StartFails, SkipPhase, EnterPhase, EnterPhaseFails,
       PhaseDone, PhaseFailed, AllPhasesDone, Finish, Close, Crash, Cancel, Drift, world

\* When every node of the phase has returned, its steps have been seen to hold.
LEMMA PhaseSeen ==
    ASSUME TypeOK, NodeProgress, stage = "nodes",
           \A n \in Nodes(phase) : pc[n] = "done",
           NEW k \in Keys, k[1] = phase
    PROVE  k \in reached
<1>1. k[2] \in Nodes(phase) /\ k[3] \in 1..StepsFor(phase, k[2]) /\ k = <<phase, k[2], k[3]>>
  BY KeyOut
<1>2. at[k[2]] > StepsFor(phase, k[2])
  BY <1>1 DEF NodeProgress, NodeSeen
<1>3. at[k[2]] \in Nat /\ StepsFor(phase, k[2]) \in Nat
  BY <1>1, CatalogueShape DEF TypeOK, MainOK, NodesOK
<1>4. k[3] < at[k[2]]
  BY <1>1, <1>2, <1>3
<1>5. <<phase, k[2], k[3]>> \in reached
  BY <1>1, <1>4 DEF NodeProgress, NodeSeen
<1>6. QED
  BY <1>1, <1>5

\* The main goroutine and the environment keep the records truthful; a phase is
\* recorded done when all its steps have been seen (runPhase).
LEMMA OtherTruth ==
    ASSUME TypeOK, RecordedDoneIsTrue, NodeProgress, Other
    PROVE  RecordedDoneIsTrue'
<1>1. /\ reached' = reached
      /\ Truthful(mem, reached) /\ Truthful(disk, reached)
      /\ Truthful(EmptyRecord, reached)
  BY OtherReached, EmptyRecordTruthful DEF RecordedDoneIsTrue
<1>2. phase \in Phases =>
        /\ Truthful(SetPhase(mem, phase, "running"), reached)
        /\ Truthful(SetPhase(mem, phase, "failed"), reached)
  BY <1>1, SetPhaseTruthful DEF TypeOK, Status, Done
<1>3. stage = "nodes" => phase \in Phases
  BY DEF TypeOK, MainOK
<1>4. stage = "nodes" /\ (\A n \in Nodes(phase) : pc[n] = "done") =>
        Truthful(SetPhase(mem, phase, "ok"), reached)
  <2> SUFFICES ASSUME stage = "nodes", \A n \in Nodes(phase) : pc[n] = "done"
               PROVE  Truthful(SetPhase(mem, phase, "ok"), reached)
    OBVIOUS
  <2>1. \A j \in Keys : j[1] = phase => j \in reached
    BY PhaseSeen
  <2>2. mem \in Record /\ phase \in Phases /\ "ok" \in Status
    BY <1>3 DEF TypeOK, Status, Done
  <2>3. QED
    BY <1>1, <2>1, <2>2, SetPhaseTruthful
<1>5. Truthful(mem', reached) /\ Truthful(disk', reached)
  BY <1>1, <1>2, <1>3, <1>4
     DEF Other, MainStep, Start, StartFails, SkipPhase, EnterPhase, EnterPhaseFails,
         PhaseDone, PhaseFailed, AllPhasesDone, Finish, Close, Crash, Cancel, Drift
<1>6. stage' = "nodes" => \A n \in Nodes(phase') : Truthful(snap'[n], reached)
  BY <1>1 DEF RecordedDoneIsTrue, Other, MainStep, Start, StartFails, SkipPhase,
         EnterPhase, EnterPhaseFails, PhaseDone, PhaseFailed, AllPhasesDone, Finish,
         Close, Crash, Cancel, Drift, main, workers
<1>7. QED
  BY <1>1, <1>5, <1>6 DEF RecordedDoneIsTrue

\* The phases before the current one stay reached when the main goroutine moves
\* on.
LEMMA OtherPhases ==
    ASSUME TypeOK, RecordedDoneIsTrue, PhaseProgress, NodeProgress, Other
    PROVE  PhaseProgress'
<1>1. /\ reached' = reached /\ satisfied' \subseteq satisfied
      /\ phase \in Nat /\ Len(Catalogue) \in Nat
  BY OtherReached, CatalogueAssumption DEF TypeOK, MainOK
<1>2. \A k \in Keys : k[1] \in 1..Len(Catalogue)
  BY KeyOut DEF Phases
<1>3. Finished(phase) => \A k \in Keys : k[1] = phase => k \in reached
  BY DEF Finished, RecordedDoneIsTrue, Truthful
<1>4. stage = "nodes" /\ (\A n \in Nodes(phase) : pc[n] = "done") =>
        \A k \in Keys : k[1] = phase => k \in reached
  BY PhaseSeen
<1> USE <1>1, <1>2 DEF PhaseProgress, main, world, stream
<1>5. CASE Start
  BY <1>5 DEF Start
<1>6. CASE StartFails
  BY <1>6 DEF StartFails
<1>7. CASE SkipPhase
  BY <1>3, <1>7 DEF SkipPhase
<1>8. CASE EnterPhase
  BY <1>8 DEF EnterPhase
<1>9. CASE EnterPhaseFails
  BY <1>9 DEF EnterPhaseFails
<1>10. CASE PhaseDone
  BY <1>4, <1>10 DEF PhaseDone
<1>11. CASE PhaseFailed
  BY <1>11 DEF PhaseFailed
<1>12. CASE AllPhasesDone
  BY <1>12 DEF AllPhasesDone
<1>13. CASE Finish
  BY <1>13 DEF Finish, Outcome
<1>14. CASE Close
  BY <1>14 DEF Close
<1>15. CASE Crash
  BY <1>15 DEF Crash
<1>16. CASE Cancel
  BY <1>16 DEF Cancel
<1>17. CASE Drift
  BY <1>17 DEF Drift
<1>18. QED
  BY <1>5, <1>6, <1>7, <1>8, <1>9, <1>10, <1>11, <1>12, <1>13, <1>14, <1>15,
     <1>16, <1>17 DEF Other, MainStep

\* Entering a phase, no node has a step behind it.
LEMMA OtherNodesSeen ==
    ASSUME TypeOK, NodeProgress, Other
    PROVE  NodeProgress'
<1>1. reached' = reached
  BY OtherReached
<1>2. stage' = "nodes" => EnterPhase \/ (stage = "nodes" /\ UNCHANGED <<phase, workers>>)
  BY DEF Other, MainStep, Start, StartFails, SkipPhase, EnterPhase, EnterPhaseFails,
         PhaseDone, PhaseFailed, AllPhasesDone, Finish, Close, Crash, Cancel, Drift, main
<1>3. CASE EnterPhase
  <2>1. \A n \in Nodes(phase) : /\ StepsFor(phase, n) \in Nat
                                /\ pc'[n] = (IF Parallel(phase) THEN "step" ELSE "idle")
                                /\ at'[n] = 1
    BY <1>3, CatalogueShape DEF EnterPhase
  <2>2. phase' = phase
    BY <1>3 DEF EnterPhase
  <2>3. QED
    BY <2>1, <2>2 DEF NodeProgress, NodeSeen, Turn, Parallel
<1>4. CASE stage = "nodes" /\ UNCHANGED <<phase, workers>>
  BY <1>1, <1>4 DEF NodeProgress, NodeSeen, Turn, Key, workers
<1>5. QED
  BY <1>2, <1>3, <1>4 DEF NodeProgress

\* The steps of the main goroutine and of the environment preserve the
\* inductive invariant.
LEMMA OtherIInv ==
    ASSUME IInv, Other
    PROVE  IInv'
<1>1. TypeOK'
  BY OtherMain, OtherNodes, OtherRecords DEF IInv, TypeOK
<1>2. QED
  BY <1>1, OtherTruth, OtherPhases, OtherNodesSeen DEF IInv

\* The inductive invariant holds in the initial states.
LEMMA InitIInv == Init => IInv
<1> SUFFICES ASSUME Init PROVE IInv
  OBVIOUS
<1>1. RecordedDoneIsTrue
  BY EmptyRecordTruthful DEF Init, RecordedDoneIsTrue
<1>2. PhaseProgress /\ NodeProgress
  BY DEF Init, PhaseProgress, NodeProgress
<1>3. QED
  BY <1>1, <1>2, InitType DEF IInv

\* The inductive invariant holds of every reachable state.
THEOREM Inductive == Spec => []IInv
<1>1. Init => IInv
  BY InitIInv
<1>2. IInv /\ [Next]_vars => IInv'
  <2> SUFFICES ASSUME IInv, [Next]_vars PROVE IInv'
    OBVIOUS
  <2>1. CASE Other
    BY <2>1, OtherIInv
  <2>2. CASE \E p \in Phases : \E n \in Nodes(p) : WorkerStep(n)
    BY <2>2, WorkerIInv
  <2>3. CASE UNCHANGED vars
    <3>1. TypeOK'
      BY <2>3, StutterType DEF IInv
    <3>2. QED
      BY <2>3, <3>1
         DEF IInv, RecordedDoneIsTrue, PhaseProgress, NodeProgress, NodeSeen, Turn,
             Key, vars, main, workers, stream, world
  <2>4. QED
    BY <2>1, <2>2, <2>3 DEF Next, Other
<1>3. QED
  BY <1>1, <1>2, PTL DEF Spec

\* Nothing on disk, in memory or on its way to disk claims a step or a phase
\* done that was never observed to hold, whatever crashes, failed saves, stale
\* copies and retries the run has been through.
THEOREM RecordIsTrue == Spec => []RecordedDoneIsTrue
<1>1. IInv => RecordedDoneIsTrue
  BY DEF IInv
<1>2. QED
  BY <1>1, Inductive, PTL

\* The inductive invariant gives the order of application.
LEMMA OrderFromIInv ==
    ASSUME IInv, stage = "nodes", NEW n \in Nodes(phase), pc[n] \notin Between
    PROVE  Before(Key(n)) \subseteq reached
<1>1. /\ Key(n) \in Keys /\ phase \in Phases /\ Nodes(phase) \subseteq Nat
      /\ at[n] \in Nat \ {0} /\ TypeOK
  BY AtStep, CatalogueShape DEF IInv, TypeOK, NodesOK
<1>2. Key(n)[1] = phase /\ Key(n)[2] = n /\ Key(n)[3] = at[n]
  BY DEF Key
<1>3. SUFFICES ASSUME NEW j \in Before(Key(n)) PROVE j \in reached
  OBVIOUS
<1>4. /\ j \in Keys /\ j[1] \in Phases /\ j[2] \in Nodes(j[1])
      /\ j[3] \in 1..StepsFor(j[1], j[2]) /\ j = <<j[1], j[2], j[3]>>
  BY KeyOut DEF Before
<1>5. CASE j[1] < phase
  BY <1>4, <1>5 DEF IInv, PhaseProgress
<1>6. CASE j[1] = phase /\ j[2] = n /\ j[3] < at[n]
  <2>1. <<phase, n, j[3]>> \in reached
    BY <1>4, <1>6 DEF IInv, NodeProgress, NodeSeen
  <2>2. QED
    BY <1>4, <1>6, <2>1
<1>7. CASE j[1] = phase /\ j[2] < n /\ Catalogue[phase].traversal = "sequential"
  <2>1. pc[j[2]] = "done" /\ j[2] \in Nodes(phase)
    BY <1>4, <1>7 DEF IInv, NodeProgress, Turn, Between
  <2>2. at[j[2]] > StepsFor(phase, j[2]) /\ at[j[2]] \in Nat
    BY <2>1, <1>1 DEF IInv, NodeProgress, NodeSeen, TypeOK, NodesOK
  <2>3. j[3] < at[j[2]]
    <3>1. StepsFor(phase, j[2]) \in Nat
      BY <1>1, <2>1, CatalogueShape
    <3>2. QED
      BY <1>4, <1>7, <2>2, <3>1
  <2>4. <<phase, j[2], j[3]>> \in reached
    BY <1>4, <1>7, <2>1, <2>3 DEF IInv, NodeProgress, NodeSeen
  <2>5. QED
    BY <1>4, <1>7, <2>4
<1>8. QED
  BY <1>2, <1>3, <1>5, <1>6, <1>7 DEF Before

\* The cluster is changed in the catalogue's order only: a step is applied on
\* top of everything it builds on, in every resumed and rechecked run as well.
THEOREM OrderKept == Spec => []AppliedInOrder
<1>1. IInv => AppliedInOrder
  BY OrderFromIInv DEF AppliedInOrder, Between
<1>2. QED
  BY <1>1, Inductive, PTL

\* A node's step reaches at most one target, and only by applying it.
LEMMA WorkerReaches ==
    ASSUME TypeOK, NEW n, WorkerStep(n)
    PROVE  \/ reached' = reached
           \/ pc[n] = "apply" /\ reached' = reached \cup {Key(n)}
<1> USE DEF world
<1>1. CASE NextNode(n)
  BY <1>1 DEF NextNode
<1>2. CASE NextStep(n)
  BY <1>2 DEF NextStep
<1>3. CASE EmitSkip(n)
  BY <1>3 DEF EmitSkip
<1>4. CASE Snapshot(n)
  BY <1>4 DEF Snapshot
<1>5. CASE Rename(n)
  BY <1>5 DEF Rename
<1>6. CASE SaveFails(n)
  BY <1>6 DEF SaveFails
<1>7. CASE RunningEventFails(n)
  BY <1>7 DEF RunningEventFails
<1>8. CASE Observe(n)
  BY <1>8 DEF Observe
<1>9. CASE ObserveFails(n)
  BY <1>9 DEF ObserveFails
<1>10. CASE Apply(n)
  BY <1>10 DEF Apply, Bring
<1>11. CASE ApplyFails(n)
  BY <1>11 DEF ApplyFails, Bring
<1>12. CASE EmitSettled(n)
  BY <1>12 DEF EmitSettled
<1>13. CASE Backoff(n)
  BY <1>13 DEF Backoff
<1>14. QED
  BY <1>1, <1>2, <1>3, <1>4, <1>5, <1>6, <1>7, <1>8, <1>9, <1>10, <1>11,
     <1>12, <1>13 DEF WorkerStep, NodeStep

\* The runner implements Rollout: it brings targets about one at a time, in the
\* order they build on each other, and its stream calls a run completed only
\* when all of them have been brought about.
THEOREM Implements == Spec => ImplementsRollout
<1>1. Init => Promise!Init
  BY DEF Init, Promise!Init
<1>2. IInv /\ IInv' /\ [Next]_vars => [Promise!Next]_(Promise!rvars)
  <2> SUFFICES ASSUME IInv, IInv', [Next]_vars
               PROVE  [Promise!Next]_(Promise!rvars)
    OBVIOUS
  <2>1. CASE Other
    <3>1. reached' = reached /\ reached \subseteq Keys
      BY <2>1, OtherReached DEF IInv, TypeOK, MainOK
    <3>2. CASE verdict' = "ok"
      <4>1. Keys \subseteq reached
        BY <3>1, <3>2 DEF IInv, PhaseProgress
      <4>2. QED
        BY <3>1, <3>2, <4>1 DEF Promise!Next, Promise!Complete
    <3>3. CASE verdict' # "ok"
      BY <3>1, <3>3 DEF Promise!Next, Promise!Reopen
    <3>4. QED
      BY <3>2, <3>3
  <2>2. ASSUME NEW n, WorkerStep(n)
        PROVE  [Promise!Next]_(Promise!rvars)
    <3>1. verdict' = verdict /\ stage = "nodes" /\ n \in Nodes(phase)
      BY <2>2, WorkerReached DEF IInv, WorkerStep
    <3>2. CASE reached' = reached
      BY <3>1, <3>2 DEF Promise!rvars
    <3>3. CASE pc[n] = "apply" /\ reached' = reached \cup {Key(n)}
      <4>1. Key(n) \in Keys
        BY <3>1, <3>3, AtStep DEF IInv, Between
      <4>2. Before(Key(n)) \subseteq reached
        BY <3>1, <3>3, OrderFromIInv DEF Between
      <4>3. CASE Key(n) \in reached
        BY <3>1, <3>3, <4>3 DEF Promise!rvars
      <4>4. CASE Key(n) \notin reached
        BY <3>1, <3>3, <4>1, <4>2, <4>4 DEF Promise!Next, Promise!Reach
      <4>5. QED
        BY <4>3, <4>4
    <3>4. QED
      BY <2>2, <3>2, <3>3, WorkerReaches DEF IInv
  <2>3. CASE UNCHANGED vars
    BY <2>3 DEF vars, world, stream, Promise!rvars
  <2>4. QED
    BY <2>1, <2>2, <2>3 DEF Next, Other
<1>3. QED
  BY <1>1, <1>2, Inductive, PTL DEF Spec, ImplementsRollout, Promise!Spec

----------------------------------------------------------------------------
\* The course of a node (runNode, runSteps, runStep, attempt, save): where each
\* label is reached from, and what happened on the way.

FlowOf(n) ==
    /\ \/ at'[n] = at[n]
       \/ /\ at'[n] = at[n] + 1 /\ pc'[n] = "step"
          /\ pc[n] = "rename" /\ then[n] \in {"skip", "settle"}
    /\ pc'[n] = "done" => pc[n] = "step" /\ at[n] > StepsFor(phase, n)
    /\ pc'[n] = "skipping" => /\ pc[n] = "step" /\ at[n] <= StepsFor(phase, n)
                              /\ Skips(Key(n))
                              /\ mem' = SetStep(mem, Key(n), "skipped")
    /\ pc'[n] = "settled" => /\ pc[n] \in {"observe", "reobserve"}
                             /\ Key(n) \in satisfied
                             /\ \E s \in Done : mem' = SetStep(mem, Key(n), s)
    /\ pc'[n] = "snapshot" =>
         \/ /\ then'[n] = "mark" /\ mem' = SetStep(mem, Key(n), "running")
            /\ at[n] <= StepsFor(phase, n)
            /\ pc[n] = "backoff" \/ (pc[n] = "step" /\ Runs(Key(n)))
         \/ /\ then'[n] = "fail" /\ mem' = SetStep(mem, Key(n), "failed")
            /\ pc[n] \in {"observe", "reobserve", "apply", "settled"}
         \/ /\ then'[n] = "skip" /\ mem' = mem
            /\ pc[n] = "skipping" /\ Key(n) \in audited'
         \/ /\ then'[n] = "settle" /\ mem' = mem
            /\ pc[n] = "settled" /\ Key(n) \in audited'
    /\ pc'[n] \notin {"skipping", "settled", "snapshot"} => mem' = mem
    /\ pc'[n] = "rename" => /\ pc[n] = "snapshot" /\ snap'[n] = mem
                            /\ then'[n] = then[n]
    /\ pc'[n] = "observe" => pc[n] = "rename" /\ then[n] = "mark" /\ disk' = snap[n]
    /\ pc'[n] = "apply" => pc[n] = "observe"
    /\ pc'[n] = "reobserve" => pc[n] = "apply"
    /\ pc'[n] = "backoff" => pc[n] \in {"reobserve", "apply", "settled"}
    /\ disk' = disk \/ (pc[n] = "rename" /\ disk' = snap[n])
    /\ snap'[n] \in {snap[n], EmptyRecord} \/ pc'[n] = "rename"
    /\ pc[n] \notin {"done", "stopped"}
    /\ pc[n] = "snapshot" => pc'[n] = "rename"
    /\ pc[n] = "rename" /\ then[n] = "fail" => pc'[n] = "stopped"

\* Every step of a node follows its course.
LEMMA WorkerFlow ==
    ASSUME TypeOK, NEW n, WorkerStep(n)
    PROVE  FlowOf(n)
<1>1. /\ stage = "nodes" /\ n \in Nodes(phase) /\ phase \in Phases /\ NodesOK
      /\ pc[n] \notin Between => at[n] <= StepsFor(phase, n)
  BY DEF WorkerStep, TypeOK, MainOK, NodesOK
<1>2. at[n] \in Nat /\ StepsFor(phase, n) \in Nat
  BY <1>1, CatalogueShape DEF NodesOK
<1> USE <1>1, <1>2 DEF NodesOK, FlowOf, Labels, Between
<1>3. CASE NextNode(n)
  BY <1>3 DEF NextNode, Go, Stop
<1>4. CASE NextStep(n)
  BY <1>4 DEF NextStep, Go, Stop, MarkRunning
<1>5. CASE EmitSkip(n)
  BY <1>5 DEF EmitSkip, Go, Stop
<1>6. CASE Snapshot(n)
  BY <1>6 DEF Snapshot, Go
<1>7. CASE Rename(n)
  BY <1>7 DEF Rename, Go, Stop, StepOver, Saves
<1>8. CASE SaveFails(n)
  BY <1>8 DEF SaveFails, Go, Stop, StepOver
<1>9. CASE RunningEventFails(n)
  BY <1>9 DEF RunningEventFails, Go, Stop
<1>10. CASE Observe(n)
  BY <1>10 DEF Observe, Go, RetryOrFail, FailStep, Done
<1>11. CASE ObserveFails(n)
  BY <1>11 DEF ObserveFails, Go, FailStep
<1>12. CASE Apply(n)
  BY <1>12 DEF Apply, Go
<1>13. CASE ApplyFails(n)
  BY <1>13 DEF ApplyFails, Go, RetryOrFail, FailStep
<1>14. CASE EmitSettled(n)
  BY <1>14 DEF EmitSettled, Go, RetryOrFail, FailStep
<1>15. CASE Backoff(n)
  BY <1>15 DEF Backoff, Go, Stop, MarkRunning
<1>16. QED
  BY <1>3, <1>4, <1>5, <1>6, <1>7, <1>8, <1>9, <1>10, <1>11, <1>12, <1>13,
     <1>14, <1>15 DEF WorkerStep, NodeStep

\* A node records the step it is at.  A step that fails is saved, and no more.
RecordsAs(n, s) ==
    /\ mem' = SetStep(mem, Key(n), s)
    /\ pc[n] \notin {"snapshot", "rename"}
    /\ s = "failed" => /\ pc'[n] = "snapshot" /\ then'[n] = "fail"
                       /\ pc[n] \in {"observe", "reobserve", "apply", "settled"}
    /\ s = "running" => pc[n] = "backoff" \/ (pc[n] = "step" /\ Runs(Key(n)))

\* A node changes the record in memory by recording the step it is at.
LEMMA WorkerMem ==
    ASSUME TypeOK, NEW n, WorkerStep(n)
    PROVE  /\ n \in Nodes(phase) /\ phase \in Phases /\ stage = "nodes"
           /\ \/ mem' = mem
              \/ /\ Key(n) \in Keys /\ at'[n] = at[n]
                 /\ \E s \in Status \ {"none"} : RecordsAs(n, s)
<1>1. /\ n \in Nodes(phase) /\ phase \in Phases /\ stage = "nodes"
      /\ pc[n] \notin Between \/ at[n] <= StepsFor(phase, n) => Key(n) \in Keys
  BY AtStep, AtNext DEF WorkerStep, TypeOK, MainOK
<1>2. FlowOf(n)
  BY WorkerFlow
<1>3. CASE pc'[n] \in {"skipping", "settled"}
  BY <1>1, <1>2, <1>3 DEF FlowOf, Status, Done, Between, RecordsAs
<1>4. CASE pc'[n] = "snapshot"
  BY <1>1, <1>2, <1>4 DEF FlowOf, Status, Done, Between, RecordsAs
<1>5. CASE pc'[n] \notin {"skipping", "settled", "snapshot"}
  BY <1>1, <1>2, <1>5 DEF FlowOf
<1> QED
  BY <1>3, <1>4, <1>5

\* Recording a step changes that step; a failure also marks the step's phase.
LEMMA SetStepParts ==
    ASSUME NEW rec \in Record, NEW k \in Keys, NEW s \in Status
    PROVE  /\ \A j \in Keys : SetStep(rec, k, s).steps[j] = IF j = k THEN s ELSE rec.steps[j]
           /\ \A p \in Phases :
                /\ SetStep(rec, k, s).phases[p] =
                     IF s = "failed" /\ p = k[1] THEN s ELSE rec.phases[p]
                /\ SetStep(rec, k, s).failedStep[p] =
                     IF s = "failed" /\ p = k[1] THEN k ELSE rec.failedStep[p]
<1>1. k[1] \in Phases
  BY KeyOut
<1>2. CASE s = "failed"
  BY <1>1, <1>2 DEF SetStep, Record
<1>3. CASE s # "failed"
  BY <1>1, <1>3 DEF SetStep, Record
<1> QED
  BY <1>2, <1>3

\* Recording a phase changes that phase, and drops its failure or keeps it.
LEMMA SetPhaseParts ==
    ASSUME NEW rec \in Record, NEW p \in Phases, NEW s \in Status
    PROVE  /\ SetPhase(rec, p, s).steps = rec.steps
           /\ \A q \in Phases :
                /\ SetPhase(rec, p, s).phases[q] = IF q = p THEN s ELSE rec.phases[q]
                /\ SetPhase(rec, p, s).failedStep[q] =
                     IF s # "failed" /\ q = p THEN NoStep ELSE rec.failedStep[q]
  BY DEF SetPhase, Record

\* Two nodes are never at the same step, and a step belongs to its phase.
LEMMA KeyParts ==
    \A n : Key(n)[1] = phase /\ Key(n)[2] = n /\ Key(n)[3] = at[n]
  BY DEF Key

----------------------------------------------------------------------------
\* The failure noted on a phase.

\* A failure noted on a phase is that of one of its steps, recorded as failed.
Blames(rec) ==
    \A p \in Phases : rec.failedStep[p] # NoStep =>
      /\ rec.failedStep[p] \in Keys /\ rec.failedStep[p][1] = p
      /\ rec.steps[rec.failedStep[p]] = "failed"

\* A node that has failed, or is about to have.
Failing(n) ==
    pc[n] = "stopped" \/ (pc[n] \in {"snapshot", "rename"} /\ then[n] = "fail")

\* The one noted on the phase being run is that of a node that does nothing more.
Blamed ==
    stage = "nodes" /\ mem.failedStep[phase] # NoStep =>
      \E n \in Nodes(phase) : Failing(n) /\ mem.failedStep[phase] = Key(n)

BlameInv ==
    /\ Blames(mem) /\ Blames(disk)
    /\ stage = "nodes" => \A n \in Nodes(phase) : Blames(snap[n])
    /\ Blamed

\* A new record blames nothing.
LEMMA EmptyBlames == Blames(EmptyRecord)
  BY DEF Blames, EmptyRecord

\* A step of a node keeps the blame true: the step that is noted belongs to
\* another node, which has stopped, or is the one that fails now.
LEMMA WorkerBlame ==
    ASSUME TypeOK, BlameInv, NEW n, WorkerStep(n)
    PROVE  BlameInv'
<1>1. /\ n \in Nodes(phase) /\ phase \in Phases /\ stage = "nodes"
      /\ stage' = stage /\ phase' = phase /\ FlowOf(n) /\ mem \in Record
  BY WorkerMem, WorkerFrame, WorkerFlow DEF TypeOK
<1>2. ASSUME mem' = mem PROVE Blames(mem)' /\ Blamed'
  <2>1. ASSUME NEW m \in Nodes(phase), Failing(m) PROVE Failing(m)' /\ Key(m)' = Key(m)
    <3>1. CASE m = n
      <4>1. pc[n] \in {"snapshot", "rename"} /\ then[n] = "fail"
        BY <1>1, <2>1, <3>1 DEF Failing, FlowOf
      <4>2. Failing(n)' /\ at'[n] = at[n]
        BY <1>1, <4>1 DEF Failing, FlowOf
      <4> QED
        BY <1>1, <3>1, <4>2 DEF Key
    <3>2. CASE m # n
      BY <1>1, <2>1, <3>2, WorkerOthers DEF Failing, Key
    <3> QED
      BY <3>1, <3>2
  <2> QED
    BY <1>1, <1>2, <2>1 DEF BlameInv, Blamed, Blames
<1>3. ASSUME NEW s \in Status \ {"none"}, RecordsAs(n, s), Key(n) \in Keys, at'[n] = at[n]
      PROVE  Blames(mem)' /\ Blamed'
  <2>1. /\ \A j \in Keys : mem'.steps[j] = IF j = Key(n) THEN s ELSE mem.steps[j]
        /\ \A p \in Phases : mem'.failedStep[p] =
             IF s = "failed" /\ p = phase THEN Key(n) ELSE mem.failedStep[p]
    BY <1>1, <1>3, SetStepParts, KeyParts DEF RecordsAs
  <2>2. ~Failing(n)
    BY <1>1, <1>3 DEF Failing, FlowOf, RecordsAs
  <2>3. CASE s = "failed"
    <3>1. Failing(n)' /\ Key(n)' = Key(n)
      BY <1>1, <1>3, <2>3 DEF Failing, RecordsAs, Key
    <3> QED
      BY <1>1, <1>3, <2>1, <2>3, <3>1, KeyParts DEF BlameInv, Blamed, Blames
  <2>4. CASE s # "failed"
    <3>1. ASSUME NEW p \in Phases, mem.failedStep[p] # NoStep PROVE mem.failedStep[p] # Key(n)
      BY <1>1, <2>2, <3>1, KeyParts DEF BlameInv, Blamed, Blames
    <3>2. Blames(mem)'
      BY <2>1, <2>4, <3>1 DEF BlameInv, Blames
    <3>3. ASSUME mem'.failedStep[phase] # NoStep
          PROVE  \E m \in Nodes(phase) : Failing(m)' /\ mem'.failedStep[phase] = Key(m)'
      <4>1. PICK m \in Nodes(phase) : Failing(m) /\ mem.failedStep[phase] = Key(m)
        BY <1>1, <2>1, <2>4, <3>3 DEF BlameInv, Blamed
      <4>2. m # n
        BY <2>2, <4>1
      <4>3. Failing(m)' /\ Key(m)' = Key(m)
        BY <1>1, <4>1, <4>2, WorkerOthers DEF Failing, Key
      <4> QED
        BY <1>1, <2>1, <2>4, <4>1, <4>3
    <3> QED
      BY <1>1, <3>2, <3>3 DEF Blamed
  <2> QED
    BY <2>3, <2>4
<1>4. Blames(mem)' /\ Blamed'
  BY <1>2, <1>3, WorkerMem
<1>5. Blames(disk)'
  BY <1>1 DEF BlameInv, FlowOf, Blames
<1>6. ASSUME NEW m \in Nodes(phase) PROVE Blames(snap[m])'
  <2>1. CASE m = n
    BY <1>1, <2>1, EmptyBlames DEF BlameInv, FlowOf, Blames
  <2>2. CASE m # n
    BY <1>1, <2>2, WorkerOthers DEF BlameInv, Blames
  <2> QED
    BY <2>1, <2>2
<1> QED
  BY <1>1, <1>4, <1>5, <1>6 DEF BlameInv

\* Entering a phase drops what was noted on it (State.SetPhase).
LEMMA SetPhaseBlames ==
    ASSUME NEW rec \in Record, NEW p \in Phases, NEW s \in Status, Blames(rec)
    PROVE  Blames(SetPhase(rec, p, s))
  BY SetPhaseParts DEF Blames

\* The main goroutine and the environment keep the blame true.
LEMMA OtherBlame ==
    ASSUME TypeOK, BlameInv, Other
    PROVE  BlameInv'
<1>1. /\ mem \in Record /\ Blames(mem) /\ Blames(disk)
      /\ stage = "nodes" => phase \in Phases
  BY DEF TypeOK, MainOK, BlameInv
<1>2. phase \in Phases => \A s \in Status : Blames(SetPhase(mem, phase, s))
  BY <1>1, SetPhaseBlames
<1>3. Blames(mem') /\ Blames(disk')
  BY <1>1, <1>2, EmptyBlames
     DEF Status, Done, Other, MainStep, Start, StartFails, SkipPhase, EnterPhase,
         EnterPhaseFails, PhaseDone, PhaseFailed, AllPhasesDone, Finish, Close, Crash,
         Cancel, Drift
<1>4. stage' = "nodes" => EnterPhase \/ (stage = "nodes" /\ UNCHANGED <<phase, workers, mem>>)
  BY DEF Other, MainStep, Start, StartFails, SkipPhase, EnterPhase, EnterPhaseFails,
         PhaseDone, PhaseFailed, AllPhasesDone, Finish, Close, Crash, Cancel, Drift, main
<1>5. CASE EnterPhase
  <2>1. /\ phase \in Phases /\ phase' = phase /\ mem' = SetPhase(mem, phase, "running")
        /\ \A n \in Nodes(phase) : snap'[n] = EmptyRecord
    BY <1>5 DEF EnterPhase
  <2>2. mem'.failedStep[phase] = NoStep
    BY <1>1, <2>1, SetPhaseParts DEF Status
  <2> QED
    BY <1>3, <2>1, <2>2, EmptyBlames DEF BlameInv, Blamed, Blames
<1>6. CASE stage = "nodes" /\ UNCHANGED <<phase, workers, mem>>
  BY <1>3, <1>6 DEF BlameInv, Blamed, Blames, Failing, Key, workers
<1>7. CASE stage' # "nodes"
  BY <1>3, <1>7 DEF BlameInv, Blamed, Blames
<1> QED
  BY <1>4, <1>5, <1>6, <1>7

\* The failure an operator reads at phase level names a step that is recorded as
\* failed, on disk and in memory: no retry, no other node's failure and no stale
\* copy leaves it naming a step that is not (State.SetStep, State.SetPhase).
THEOREM FailureNamed == Spec => []FailedStepIsFailed
<1>1. Init => BlameInv
  BY EmptyBlames DEF Init, BlameInv, Blamed
<1>2. TypeOK /\ BlameInv /\ [Next]_vars => BlameInv'
  <2> SUFFICES ASSUME TypeOK, BlameInv, [Next]_vars PROVE BlameInv'
    OBVIOUS
  <2>1. CASE Other
    BY <2>1, OtherBlame
  <2>2. CASE \E p \in Phases : \E n \in Nodes(p) : WorkerStep(n)
    BY <2>2, WorkerBlame
  <2>3. CASE UNCHANGED vars
    BY <2>3 DEF BlameInv, Blamed, Blames, Failing, Key, vars, main, workers
  <2> QED
    BY <2>1, <2>2, <2>3 DEF Next, Other
<1>3. BlameInv => FailedStepIsFailed
  BY DEF BlameInv, Blames, FailedStepIsFailed
<1> QED
  BY <1>1, <1>2, <1>3, TypeCorrect, PTL DEF Spec

----------------------------------------------------------------------------
\* What is finished.

\* A record agrees with the one in memory on everything but the current phase.
Elsewhere(rec) ==
    /\ \A p \in Phases \ {phase} : rec.phases[p] = mem.phases[p]
    /\ \A k \in Keys : k[1] # phase => rec.steps[k] = mem.steps[k]

\* Between two phases the two records are one.
SavedBetween == stage = "phases" => mem = disk

\* While a phase runs, nobody calls it finished, and the copies differ on nothing
\* else: a stale one is stale on the current phase only.
SavedWithin ==
    stage = "nodes" =>
      /\ mem.phases[phase] \in {"running", "failed"}
      /\ Elsewhere(disk)
      /\ ~recheck => disk.phases[phase] \notin Done
      /\ \A n \in Nodes(phase) : pc[n] = "rename" =>
           /\ Elsewhere(snap[n])
           /\ snap[n].phases[phase] \in {"running", "failed"}

\* The last save takes nothing back.
SavedLast ==
    stage \in {"finish", "closing"} /\ ~recheck =>
      \A p \in Phases : disk.phases[p] \in Done => mem.phases[p] \in Done

AllDone(rec) == \A p \in Phases : rec.phases[p] \in Done

\* The phases before the current one are finished; so is every phase when the run
\* ends without an error, and when the stream has said so.
FinishedBefore ==
    /\ stage \in {"phases", "nodes"} =>
         \A p \in Phases : p < phase => mem.phases[p] \in Done
    /\ stage \in {"finish", "closing"} /\ cause = "none" => AllDone(mem) /\ AllDone(disk)
    /\ verdict = "ok" => /\ AllDone(disk)
                         /\ stage \in {"closing", "down"}
                         /\ stage = "closing" => cause = "none"

SavedInv == SavedBetween /\ SavedWithin /\ SavedLast /\ FinishedBefore

\* A node's step touches nothing of another phase, in any of the records.
LEMMA WorkerSaved ==
    ASSUME TypeOK, SavedInv, NEW n, WorkerStep(n)
    PROVE  SavedInv'
<1>1. /\ n \in Nodes(phase) /\ phase \in Phases /\ stage = "nodes" /\ phase' = phase
      /\ stage' = stage /\ recheck' = recheck /\ FlowOf(n) /\ mem \in Record
  BY WorkerMem, WorkerFrame, WorkerFlow DEF TypeOK
<1> DEFINE HereOnly ==
             /\ \A p \in Phases : p # phase => mem'.phases[p] = mem.phases[p]
             /\ \A k \in Keys : k[1] # phase => mem'.steps[k] = mem.steps[k]
             /\ mem'.phases[phase] \in {"running", "failed"}
<1>2. HereOnly
  <2>1. mem.phases[phase] \in {"running", "failed"}
    BY <1>1 DEF SavedInv, SavedWithin
  <2>2. ASSUME NEW s \in Status, RecordsAs(n, s), Key(n) \in Keys
        PROVE  HereOnly
    BY <1>1, <2>1, <2>2, SetStepParts, KeyParts DEF RecordsAs
  <2> QED
    BY <2>1, <2>2, WorkerMem
<1>3. /\ Elsewhere(disk)'
      /\ ~recheck => disk'.phases[phase] \notin Done
  <2>1. CASE disk' = disk
    BY <1>1, <1>2, <2>1 DEF SavedInv, SavedWithin, Elsewhere
  <2>2. CASE pc[n] = "rename" /\ disk' = snap[n]
    BY <1>1, <1>2, <2>2 DEF SavedInv, SavedWithin, Elsewhere, Done
  <2> QED
    BY <1>1, <2>1, <2>2 DEF FlowOf
<1>4. ASSUME NEW m \in Nodes(phase), pc'[m] = "rename"
      PROVE  Elsewhere(snap[m])' /\ snap'[m].phases[phase] \in {"running", "failed"}
  <2>1. CASE m = n
    <3>1. snap'[n] = mem /\ mem' = mem
      BY <1>1, <1>4, <2>1 DEF FlowOf
    <3> QED
      BY <1>1, <1>2, <2>1, <3>1 DEF Elsewhere
  <2>2. CASE m # n
    <3>1. pc[m] = "rename" /\ snap'[m] = snap[m]
      BY <1>4, <2>2, WorkerOthers
    <3> QED
      BY <1>1, <1>2, <3>1 DEF SavedInv, SavedWithin, Elsewhere
  <2> QED
    BY <2>1, <2>2
<1>5. SavedWithin' /\ SavedBetween' /\ SavedLast'
  BY <1>1, <1>2, <1>3, <1>4 DEF SavedWithin, SavedBetween, SavedLast
<1>6. FinishedBefore'
  <2>1. verdict' = verdict /\ verdict # "ok"
    BY <1>1 DEF SavedInv, FinishedBefore, WorkerStep, NodeStep, NextNode, NextStep,
         EmitSkip, Snapshot, Rename, SaveFails, RunningEventFails, Observe, ObserveFails,
         Apply, ApplyFails, EmitSettled, Backoff, stream
  <2>2. phase \in Nat
    BY <1>1 DEF Phases
  <2> QED
    BY <1>1, <1>2, <2>1, <2>2 DEF SavedInv, FinishedBefore, Phases
<1> QED
  BY <1>5, <1>6 DEF SavedInv

\* The main goroutine saves a finished phase before it goes on, and calls the run
\* finished only after the last of them.
LEMMA OtherSaved ==
    ASSUME TypeOK, SavedInv, Other
    PROVE  SavedInv'
<1>1. /\ mem \in Record /\ disk \in Record
      /\ phase \in Nat /\ Len(Catalogue) \in Nat
      /\ stage = "nodes" => phase \in Phases
      /\ cause \in {"none", "ctx", "other"}
  BY CatalogueAssumption DEF TypeOK, MainOK
<1>2. phase \in Phases => \A s \in Status :
        /\ SetPhase(mem, phase, s).steps = mem.steps
        /\ \A q \in Phases : SetPhase(mem, phase, s).phases[q] =
             IF q = phase THEN s ELSE mem.phases[q]
  BY <1>1, SetPhaseParts
<1> USE <1>1 DEF SavedInv, SavedBetween, SavedWithin, SavedLast, FinishedBefore, AllDone,
                 main, stream
<1>3. CASE Start
  BY <1>3 DEF Start, Phases
<1>4. CASE StartFails
  BY <1>4 DEF StartFails
<1>5. CASE SkipPhase
  <2>1. CASE stage' = "finish"
    BY <1>5, <2>1 DEF SkipPhase
  <2>2. CASE stage' = stage /\ phase' = phase + 1
    BY <1>5, <2>2 DEF SkipPhase, Finished, Phases
  <2> QED
    BY <1>5, <2>1, <2>2 DEF SkipPhase
<1>6. CASE EnterPhase
  <2>1. /\ phase \in Phases /\ ~Finished(phase) /\ mem' = SetPhase(mem, phase, "running")
        /\ stage = "phases" /\ stage' = "nodes"
        /\ UNCHANGED <<phase, recheck, cause, disk, verdict>>
        /\ \A n \in Nodes(phase) : pc'[n] # "rename"
    BY <1>6 DEF EnterPhase
  <2>2. Elsewhere(disk)' /\ mem'.phases[phase] = "running"
    BY <1>2, <2>1 DEF Elsewhere, Status
  <2>3. \A q \in Phases : q < phase => mem'.phases[q] \in Done
    BY <1>2, <2>1 DEF Status, Phases
  <2> QED
    BY <2>1, <2>2, <2>3 DEF Finished
<1>7. CASE EnterPhaseFails
  BY <1>7 DEF EnterPhaseFails
<1>8. CASE PhaseDone
  <2>1. /\ phase \in Phases /\ mem' = SetPhase(mem, phase, "ok") /\ disk' \in {disk, mem'}
        /\ stage = "nodes" /\ UNCHANGED <<recheck, verdict>>
    BY <1>8 DEF PhaseDone
  <2>2. \A q \in Phases : q <= phase => mem'.phases[q] \in Done
    BY <1>2, <2>1 DEF Status, Done, Phases
  <2>3. CASE stage' = "phases" /\ disk' = mem' /\ phase' = phase + 1
    BY <2>1, <2>2, <2>3 DEF Phases
  <2>4. CASE stage' = "finish" /\ cause' = "other"
    <3>1. \A q \in Phases : disk'.phases[q] \in Done => mem'.phases[q] \in Done
      BY <1>2, <2>1, <2>2 DEF Elsewhere, Status, Done
    <3> QED
      BY <2>1, <2>4, <3>1
  <2> QED
    BY <1>8, <2>3, <2>4 DEF PhaseDone
<1>9. CASE PhaseFailed
  <2>1. /\ phase \in Phases /\ mem' = SetPhase(mem, phase, "failed")
        /\ stage = "nodes" /\ stage' = "finish" /\ cause' # "none"
        /\ UNCHANGED <<recheck, verdict, disk>>
    BY <1>9 DEF PhaseFailed
  <2>2. ~recheck => \A q \in Phases : disk.phases[q] \in Done => mem'.phases[q] \in Done
    BY <1>2, <2>1 DEF Elsewhere, Status
  <2> QED
    BY <2>1, <2>2
<1>10. CASE AllPhasesDone
  <2>1. AllDone(mem) /\ mem = disk
    BY <1>10 DEF AllPhasesDone, Phases
  <2> QED
    BY <1>10, <2>1 DEF AllPhasesDone
<1>11. CASE Finish
  BY <1>11 DEF Finish, Outcome
<1>12. CASE Close
  BY <1>12 DEF Close
<1>13. CASE Crash
  BY <1>13 DEF Crash
<1>14. CASE Cancel
  BY <1>14 DEF Cancel, workers, Elsewhere
<1>15. CASE Drift
  BY <1>15 DEF Drift, workers, Elsewhere
<1> QED
  BY <1>3, <1>4, <1>5, <1>6, <1>7, <1>8, <1>9, <1>10, <1>11, <1>12, <1>13, <1>14, <1>15
     DEF Other, MainStep

\* SavedInv is an invariant.
THEOREM Saved == Spec => [](TypeOK /\ SavedInv)
<1>1. Init => SavedInv
  BY DEF Init, SavedInv, SavedBetween, SavedWithin, SavedLast, FinishedBefore
<1>2. TypeOK /\ SavedInv /\ [Next]_vars => SavedInv'
  <2> SUFFICES ASSUME TypeOK, SavedInv, [Next]_vars PROVE SavedInv'
    OBVIOUS
  <2>1. CASE Other
    BY <2>1, OtherSaved
  <2>2. CASE \E p \in Phases : \E n \in Nodes(p) : WorkerStep(n)
    BY <2>2, WorkerSaved
  <2>3. CASE UNCHANGED vars
    BY <2>3 DEF SavedInv, SavedBetween, SavedWithin, SavedLast, FinishedBefore, AllDone,
         Elsewhere, vars, main, workers, stream
  <2> QED
    BY <2>1, <2>2, <2>3 DEF Next, Other
<1> QED
  BY <1>1, <1>2, TypeCorrect, PTL DEF Spec

\* A run that the stream calls completed has a state.json that says the same,
\* before its last save as well as after it, whatever that save comes to.
THEOREM RunDurable == Spec => []CompletedRunIsDurable
<1>1. SavedInv => CompletedRunIsDurable
  BY DEF SavedInv, FinishedBefore, AllDone, CompletedRunIsDurable
<1> QED
  BY <1>1, Saved, PTL

\* A phase that state.json calls finished stays finished until a recheck: no save
\* of any node, stale or not, and no last save of a failed run takes it back.
THEOREM PhasesKept == Spec => DurablePhasesKept
<1> DEFINE Kept == \A p \in Phases :
             ~recheck /\ disk.phases[p] \in Done => disk'.phases[p] \in Done
<1>1. TypeOK /\ SavedInv /\ [Next]_vars => [Kept]_vars
  <2> SUFFICES ASSUME TypeOK, SavedInv, Next PROVE Kept
    OBVIOUS
  <2>1. mem \in Record /\ (stage = "nodes" => phase \in Phases)
    BY DEF TypeOK, MainOK
  <2>2. ASSUME NEW n, WorkerStep(n) PROVE Kept
    <3>1. disk' = disk \/ (pc[n] = "rename" /\ disk' = snap[n])
      BY <2>2, WorkerFlow DEF FlowOf
    <3> QED
      BY <2>2, <3>1 DEF WorkerStep, SavedInv, SavedWithin, Elsewhere
  <2>3. CASE PhaseDone
    <3>1. disk' \in {disk, mem'} /\ mem' = SetPhase(mem, phase, "ok") /\ stage = "nodes"
      BY <2>3 DEF PhaseDone
    <3>2. \A q \in Phases : mem'.phases[q] = IF q = phase THEN "ok" ELSE mem.phases[q]
      BY <2>1, <3>1, SetPhaseParts DEF Status, Done
    <3> QED
      BY <3>1, <3>2 DEF SavedInv, SavedWithin, Elsewhere, Done
  <2>4. CASE Close
    BY <2>4 DEF Close, SavedInv, SavedLast
  <2>5. CASE Other /\ ~PhaseDone /\ ~Close
    BY <2>5 DEF Other, MainStep, Start, StartFails, SkipPhase, EnterPhase,
         EnterPhaseFails, PhaseFailed, AllPhasesDone, Finish, Crash, Cancel, Drift
  <2> QED
    BY <2>2, <2>3, <2>4, <2>5 DEF Next, Other
<1> QED
  BY <1>1, Saved, PTL DEF Spec, DurablePhasesKept

----------------------------------------------------------------------------
\* The steps of the phases whose nodes do not run at once.

\* A node at work on a step it has not finished, in memory or in a save.
Unfinished(n) ==
    \/ pc[n] \in {"observe", "apply", "reobserve", "settled", "backoff"}
    \/ pc[n] \in {"snapshot", "rename"} /\ then[n] \in {"mark", "fail"}

\* What is on disk of such a step is not taken back in memory.
StepsAhead ==
    stage # "down" =>
      \A k \in Keys : ~Parallel(k[1]) =>
        /\ disk.steps[k] # "none" => mem.steps[k] # "none"
        /\ ~recheck /\ disk.steps[k] \in Done => mem.steps[k] \in Done

\* Where a node stands: its copies are not stale, the step it is at is marked
\* before it is run, and is not called done before it is.
InStep(n) ==
    /\ pc[n] = "rename" => snap[n] = mem
    /\ pc[n] \notin Between => mem.steps[Key(n)] # "none"
    /\ pc[n] \in {"observe", "apply"} => disk.steps[Key(n)] # "none"
    /\ pc[n] \in {"snapshot", "rename"} /\ then[n] \in {"mark", "fail"} =>
         mem.steps[Key(n)] \notin Done
    /\ ~recheck /\ Unfinished(n) => disk.steps[Key(n)] \notin Done

LineInv ==
    /\ StepsAhead
    /\ stage = "nodes" /\ ~Parallel(phase) => \A n \in Nodes(phase) : InStep(n)

\* One node at a time works in a phase that is not parallel.
LEMMA OneAtATime ==
    ASSUME IInv, stage = "nodes", ~Parallel(phase),
           NEW m \in Nodes(phase), NEW n \in Nodes(phase), m # n,
           pc[n] \notin {"idle", "done", "stopped"}
    PROVE  pc[m] \in {"idle", "done", "stopped"}
<1>1. phase \in Phases /\ Nodes(phase) \subseteq Nat
  BY CatalogueShape DEF IInv, TypeOK, MainOK
<1>2. CASE Catalogue[phase].traversal = "cluster"
  BY <1>1, <1>2, CatalogueAssumption
<1>3. CASE Catalogue[phase].traversal = "sequential"
  <2>1. Turn(m) /\ Turn(n) /\ (m < n \/ n < m)
    BY <1>1 DEF IInv, NodeProgress
  <2> QED
    BY <1>3, <2>1 DEF Turn
<1> QED
  BY <1>1, <1>2, <1>3, CatalogueShape DEF Parallel, Traversals

\* The node that works in such a phase keeps what is true of it.
LEMMA WorkerInStep ==
    ASSUME IInv, SavedInv, LineInv, ~Parallel(phase), NEW n, WorkerStep(n)
    PROVE  InStep(n)'
<1>1. /\ n \in Nodes(phase) /\ phase \in Phases /\ stage = "nodes" /\ phase' = phase
      /\ recheck' = recheck /\ FlowOf(n) /\ mem \in Record /\ TypeOK /\ InStep(n)
  BY WorkerMem, WorkerFrame, WorkerFlow DEF IInv, TypeOK, LineInv
<1>2. pc[n] \in Labels /\ pc'[n] \in Labels
  BY <1>1, WorkerFunctions DEF TypeOK, NodesOK
<1>3. ASSUME pc'[n] \notin Between
      PROVE  at'[n] = at[n] /\ Key(n)' = Key(n) /\ Key(n) \in Keys
  <2>1. at'[n] = at[n]
    BY <1>1, <1>3 DEF FlowOf, Between
  <2>2. pc[n] \notin Between \/ at[n] <= StepsFor(phase, n)
    BY <1>1, <1>2, <1>3 DEF FlowOf, Between, Labels
  <2> QED
    BY <1>1, <2>1, <2>2, AtStep, AtNext DEF Key
<1>4. ASSUME NEW s \in Status, mem' = SetStep(mem, Key(n), s), Key(n) \in Keys
      PROVE  mem'.steps[Key(n)] = s
  BY <1>1, <1>4, SetStepParts
<1>5. pc'[n] = "rename" => snap'[n] = mem'
  BY <1>1 DEF FlowOf
<1>6. pc'[n] \notin Between => mem'.steps[Key(n)] # "none"
  <2>1. CASE pc'[n] = "snapshot"
    BY <1>1, <1>3, <1>4, <2>1 DEF FlowOf, Between, InStep, Status
  <2>2. CASE pc'[n] \in {"skipping", "settled"}
    BY <1>1, <1>3, <1>4, <2>2 DEF FlowOf, Between, Status, Done
  <2>3. CASE pc'[n] \notin {"snapshot", "skipping", "settled"}
    BY <1>1, <1>2, <2>3 DEF FlowOf, Between, InStep, Labels
  <2> QED
    BY <2>1, <2>2, <2>3
<1>7. pc'[n] \in {"observe", "apply"} => disk'.steps[Key(n)] # "none"
  BY <1>1 DEF FlowOf, Between, InStep
<1>8. pc'[n] \in {"snapshot", "rename"} /\ then'[n] \in {"mark", "fail"} =>
        mem'.steps[Key(n)] \notin Done
  <2>1. CASE pc'[n] = "snapshot"
    BY <1>1, <1>3, <1>4, <2>1 DEF FlowOf, Between, Status, Done
  <2>2. CASE pc'[n] = "rename"
    BY <1>1, <2>2 DEF FlowOf, InStep
  <2> QED
    BY <2>1, <2>2
<1>9. ASSUME ~recheck, Unfinished(n)' PROVE disk'.steps[Key(n)] \notin Done
  <2>1. CASE pc'[n] = "observe"
    BY <1>1, <2>1 DEF FlowOf, InStep
  <2>2. CASE pc'[n] = "snapshot"
    <3>1. disk' = disk /\ then'[n] \in {"mark", "fail"}
      BY <1>1, <1>9, <2>2 DEF FlowOf, Unfinished
    <3>2. CASE pc[n] = "step"
      <4>1. Runs(Key(n)) /\ Key(n) \in Keys /\ ~Parallel(Key(n)[1])
        BY <1>1, <1>3, <2>2, <3>1, <3>2, KeyParts DEF FlowOf, Between
      <4>2. mem.steps[Key(n)] \notin Done
        BY <1>9, <4>1 DEF Runs, Skips
      <4> QED
        BY <1>1, <1>9, <3>1, <4>1, <4>2 DEF LineInv, StepsAhead
    <3>3. CASE pc[n] # "step"
      BY <1>1, <1>9, <2>2, <3>1, <3>3 DEF FlowOf, InStep, Unfinished
    <3> QED
      BY <3>2, <3>3
  <2>3. CASE pc'[n] \in {"apply", "reobserve", "settled", "backoff", "rename"}
    BY <1>1, <1>9, <2>3 DEF FlowOf, InStep, Unfinished
  <2> QED
    BY <1>9, <2>1, <2>2, <2>3 DEF Unfinished
<1>10. CASE pc'[n] \in Between
  BY <1>10 DEF InStep, Unfinished, Between
<1>11. CASE pc'[n] \notin Between
  BY <1>1, <1>3, <1>5, <1>6, <1>7, <1>8, <1>9, <1>11 DEF InStep
<1> QED
  BY <1>10, <1>11

\* What a save by a node puts on disk of the steps of a phase that is not
\* parallel is what the record in memory says of them.
LEMMA SaveIsFresh ==
    ASSUME IInv, SavedInv, LineInv, NEW n, WorkerStep(n), pc[n] = "rename",
           NEW k \in Keys, ~Parallel(k[1])
    PROVE  snap[n].steps[k] = mem.steps[k]
<1>1. n \in Nodes(phase) /\ stage = "nodes"
  BY DEF WorkerStep
<1>2. CASE k[1] # phase
  BY <1>1, <1>2 DEF SavedInv, SavedWithin, Elsewhere
<1>3. CASE k[1] = phase
  BY <1>1, <1>3 DEF LineInv, InStep
<1> QED
  BY <1>2, <1>3

\* A step of a node keeps the record in memory ahead of the one on disk.
LEMMA WorkerAhead ==
    ASSUME IInv, SavedInv, LineInv, NEW n, WorkerStep(n)
    PROVE  StepsAhead'
<1>1. /\ n \in Nodes(phase) /\ phase \in Phases /\ stage = "nodes" /\ stage' = stage
      /\ recheck' = recheck /\ FlowOf(n) /\ mem \in Record /\ TypeOK
  BY WorkerMem, WorkerFrame, WorkerFlow DEF IInv, TypeOK
<1> DEFINE Ahead(k) ==
             /\ disk'.steps[k] # "none" => mem'.steps[k] # "none"
             /\ ~recheck /\ disk'.steps[k] \in Done => mem'.steps[k] \in Done
<1>2. SUFFICES ASSUME NEW k \in Keys, ~Parallel(k[1]) PROVE Ahead(k)
  BY <1>1 DEF StepsAhead
<1>3. /\ disk.steps[k] # "none" => mem.steps[k] # "none"
      /\ ~recheck /\ disk.steps[k] \in Done => mem.steps[k] \in Done
  BY <1>1, <1>2 DEF LineInv, StepsAhead
<1>4. disk' = disk \/ (pc[n] = "rename" /\ disk'.steps[k] = mem.steps[k])
  BY <1>1, <1>2, SaveIsFresh DEF FlowOf
<1>5. CASE mem' = mem
  BY <1>3, <1>4, <1>5
<1>6. ASSUME NEW s \in Status \ {"none"}, RecordsAs(n, s), Key(n) \in Keys
      PROVE  Ahead(k)
  <2>1. disk' = disk
    BY <1>4, <1>6 DEF RecordsAs
  <2>2. mem'.steps[k] = IF k = Key(n) THEN s ELSE mem.steps[k]
    BY <1>1, <1>6, SetStepParts DEF RecordsAs
  <2>3. CASE k # Key(n)
    BY <1>3, <2>1, <2>2, <2>3
  <2>4. CASE k = Key(n)
    <3>1. ~Parallel(phase) /\ InStep(n)
      BY <1>1, <1>2, <2>4, KeyParts DEF LineInv
    <3>2. ASSUME ~recheck, s \notin Done PROVE disk.steps[k] \notin Done
      <4>1. CASE s = "failed"
        BY <1>6, <2>4, <3>1, <3>2, <4>1 DEF RecordsAs, InStep, Unfinished
      <4>2. CASE s = "running" /\ pc[n] = "backoff"
        BY <2>4, <3>1, <3>2, <4>2 DEF InStep, Unfinished
      <4>3. CASE s = "running" /\ Runs(Key(n))
        BY <1>3, <2>4, <3>2, <4>3 DEF Runs, Skips
      <4> QED
        BY <1>6, <3>2, <4>1, <4>2, <4>3 DEF RecordsAs, Status, Done
    <3> QED
      BY <1>6, <2>1, <2>2, <2>4, <3>2
  <2> QED
    BY <2>3, <2>4
<1> QED
  BY <1>1, <1>5, <1>6, WorkerMem

\* A node's step keeps LineInv: where another node can be at work as well, there
\* is nothing to keep.
LEMMA WorkerLine ==
    ASSUME IInv, SavedInv, LineInv, NEW n, WorkerStep(n)
    PROVE  LineInv'
<1>1. /\ n \in Nodes(phase) /\ stage = "nodes" /\ stage' = stage /\ phase' = phase
      /\ recheck' = recheck /\ FlowOf(n) /\ TypeOK
  BY WorkerFrame, WorkerFlow DEF IInv, WorkerStep
<1>2. ASSUME ~Parallel(phase), NEW m \in Nodes(phase), m # n PROVE InStep(m)'
  <2>1. /\ pc'[m] = pc[m] /\ at'[m] = at[m] /\ then'[m] = then[m] /\ snap'[m] = snap[m]
    BY <1>2, WorkerOthers, <1>1
  <2>2. CASE pc[n] = "idle"
    <3>1. mem' = mem /\ disk' = disk
      BY <1>1, <2>2 DEF WorkerStep, NodeStep, NextNode, NextStep, EmitSkip, Snapshot,
         Rename, SaveFails, RunningEventFails, Observe, ObserveFails, Apply, ApplyFails,
         EmitSettled, Backoff
    <3>2. InStep(m)
      BY <1>1, <1>2 DEF LineInv
    <3> QED
      BY <1>1, <2>1, <3>1, <3>2 DEF InStep, Unfinished, Key
  <2>3. CASE pc[n] # "idle"
    <3>1. pc[m] \in {"idle", "done", "stopped"}
      BY <1>1, <1>2, <2>3, OneAtATime DEF FlowOf
    <3> QED
      BY <2>1, <3>1 DEF InStep, Unfinished, Between
  <2> QED
    BY <2>2, <2>3
<1> QED
  BY <1>1, <1>2, WorkerAhead, WorkerInStep DEF LineInv

\* The main goroutine records no step, and copies the whole record.
LEMMA OtherLine ==
    ASSUME TypeOK, SavedInv, LineInv, Other
    PROVE  LineInv'
<1>1. mem \in Record /\ (stage = "nodes" => phase \in Phases)
  BY DEF TypeOK, MainOK
<1>2. phase \in Phases => \A s \in Status : SetPhase(mem, phase, s).steps = mem.steps
  BY <1>1, SetPhaseParts
<1>3. stage' # "down" => \/ Start
                         \/ stage # "down" /\ recheck' = recheck /\ mem'.steps = mem.steps
                              /\ disk'.steps \in {disk.steps, mem.steps}
  BY <1>1, <1>2
     DEF Status, Done, Other, MainStep, Start, StartFails, SkipPhase, EnterPhase,
         EnterPhaseFails, PhaseDone, PhaseFailed, AllPhasesDone, Finish, Close, Crash,
         Cancel, Drift, main
<1>4. StepsAhead'
  <2>1. CASE Start
    BY <2>1 DEF Start, StepsAhead
  <2>2. CASE ~Start
    BY <1>3, <2>2 DEF LineInv, StepsAhead
  <2> QED
    BY <2>1, <2>2
<1>5. stage' = "nodes" =>
        EnterPhase \/ (stage = "nodes" /\ UNCHANGED <<phase, recheck, workers, mem, disk>>)
  BY DEF Other, MainStep, Start, StartFails, SkipPhase, EnterPhase, EnterPhaseFails,
         PhaseDone, PhaseFailed, AllPhasesDone, Finish, Close, Crash, Cancel, Drift, main
<1>6. CASE EnterPhase
  <2>1. \A n \in Nodes(phase) : pc'[n] \in {"step", "idle"}
    BY <1>6 DEF EnterPhase
  <2>2. phase' = phase
    BY <1>6 DEF EnterPhase
  <2> QED
    BY <1>4, <2>1, <2>2 DEF LineInv, InStep, Unfinished, Between
<1>7. CASE stage = "nodes" /\ UNCHANGED <<phase, recheck, workers, mem, disk>>
  BY <1>4, <1>7 DEF LineInv, InStep, Unfinished, Key, workers
<1> QED
  BY <1>4, <1>5, <1>6, <1>7 DEF LineInv

\* LineInv is an invariant.
THEOREM Lined == Spec => [](IInv /\ SavedInv /\ LineInv)
<1>1. Init => LineInv
  BY DEF Init, LineInv, StepsAhead
<1>2. IInv /\ SavedInv /\ LineInv /\ [Next]_vars => LineInv'
  <2> SUFFICES ASSUME IInv, SavedInv, LineInv, [Next]_vars PROVE LineInv'
    OBVIOUS
  <2>1. CASE Other
    BY <2>1, OtherLine DEF IInv
  <2>2. CASE \E p \in Phases : \E n \in Nodes(p) : WorkerStep(n)
    BY <2>2, WorkerLine
  <2>3. CASE UNCHANGED vars
    BY <2>3 DEF LineInv, StepsAhead, InStep, Unfinished, Key, vars, main, workers
  <2> QED
    BY <2>1, <2>2, <2>3 DEF Next, Other
<1> QED
  BY <1>1, <1>2, Inductive, Saved, PTL DEF Spec

\* A step that state.json calls done stays done until a recheck, whatever run
\* resumes it and whichever save fails, where the nodes do not run at once: there a
\* save never puts back what an older copy said.
THEOREM StepsKept == Spec => DurableStepsKept
<1> DEFINE Kept == \A k \in Keys :
             ~Parallel(k[1]) /\ ~recheck /\ disk.steps[k] \in Done =>
               disk'.steps[k] \in Done
<1>1. IInv /\ SavedInv /\ LineInv /\ [Next]_vars => [Kept]_vars
  <2> SUFFICES ASSUME IInv, SavedInv, LineInv, Next PROVE Kept
    OBVIOUS
  <2>1. mem \in Record /\ (stage = "nodes" => phase \in Phases)
    BY DEF IInv, TypeOK, MainOK
  <2>2. ASSUME NEW n, WorkerStep(n) PROVE Kept
    <3>1. disk' = disk \/ (pc[n] = "rename" /\ disk' = snap[n])
      BY <2>2, WorkerFlow DEF FlowOf, IInv
    <3>2. ASSUME NEW k \in Keys, ~Parallel(k[1]), ~recheck, disk.steps[k] \in Done
          PROVE  mem.steps[k] \in Done
      BY <2>2, <3>2 DEF LineInv, StepsAhead, WorkerStep
    <3> QED
      BY <2>2, <3>1, <3>2, SaveIsFresh
  <2>3. CASE PhaseDone \/ Close
    <3>1. disk' \in {disk, mem'} \/ disk' \in {disk, mem}
      BY <2>3 DEF PhaseDone, Close
    <3>2. PhaseDone => mem'.steps = mem.steps
      BY <2>1, SetPhaseParts DEF PhaseDone, Status, Done
    <3>3. disk'.steps \in {disk.steps, mem.steps} /\ stage # "down"
      BY <2>3, <3>1, <3>2 DEF PhaseDone, Close
    <3> QED
      BY <3>3 DEF LineInv, StepsAhead
  <2>4. CASE Other /\ ~PhaseDone /\ ~Close
    BY <2>4 DEF Other, MainStep, Start, StartFails, SkipPhase, EnterPhase,
         EnterPhaseFails, PhaseFailed, AllPhasesDone, Finish, Crash, Cancel, Drift
  <2> QED
    BY <2>2, <2>3, <2>4 DEF Next, Other
<1> QED
  BY <1>1, Lined, PTL DEF Spec, DurableStepsKept

----------------------------------------------------------------------------
\* What a node has behind it, for any set that collects steps.

\* The steps before the node's place, and the one it is about to leave, are in S.
Passed(n, S) ==
    /\ \A i \in 1..StepsFor(phase, n) : i < at[n] => <<phase, n, i>> \in S
    /\ pc[n] \in {"snapshot", "rename"} /\ then[n] \in {"skip", "settle"} => Key(n) \in S

\* A node passes a step when it has saved it; what it saved is in S by then.
LEMMA WorkerPassed ==
    ASSUME TypeOK, NEW n, WorkerStep(n), NEW S, NEW T, S \subseteq T,
           \A m \in Nodes(phase) : Passed(m, S),
           pc'[n] = "snapshot" /\ then'[n] \in {"skip", "settle"} => Key(n) \in T,
           NEW m \in Nodes(phase)
    PROVE  /\ \A i \in 1..StepsFor(phase, m) : i < at'[m] => <<phase, m, i>> \in T
           /\ pc'[m] \in {"snapshot", "rename"} /\ then'[m] \in {"skip", "settle"} =>
                <<phase, m, at'[m]>> \in T
<1>1. /\ FlowOf(n) /\ n \in Nodes(phase) /\ at[m] \in Nat
      /\ StepsFor(phase, m) \in Nat
  BY WorkerFlow, CatalogueShape DEF WorkerStep, TypeOK, MainOK, NodesOK
<1>2. CASE m # n
  BY <1>2, WorkerOthers DEF Passed, Key
<1>3. CASE m = n
  <2>1. CASE at'[n] = at[n]
    BY <1>1, <1>3, <2>1 DEF Passed, FlowOf, Key
  <2>2. CASE at'[n] = at[n] + 1 /\ pc'[n] = "step"
    <3>1. pc[n] = "rename" /\ then[n] \in {"skip", "settle"}
      <4>1. at'[n] # at[n]
        BY <1>1, <1>3, <2>2
      <4> QED
        BY <1>1, <4>1 DEF FlowOf
    <3>2. Key(n) \in S
      BY <1>1, <3>1 DEF Passed
    <3>3. \A i \in 1..StepsFor(phase, n) : i < at[n] + 1 => i < at[n] \/ i = at[n]
      BY <1>1, <1>3
    <3> QED
      BY <1>1, <1>3, <2>2, <3>2, <3>3 DEF Passed, Key
  <2> QED
    BY <1>1, <2>1, <2>2 DEF FlowOf
<1> QED
  BY <1>2, <1>3

\* When every node has returned, every step of the phase was passed.
LEMMA PassedAll ==
    ASSUME TypeOK, NodeProgress, stage = "nodes",
           \A n \in Nodes(phase) : pc[n] = "done",
           NEW S, \A n \in Nodes(phase) : Passed(n, S),
           NEW k \in Keys, k[1] = phase
    PROVE  k \in S
<1>1. k[2] \in Nodes(phase) /\ k[3] \in 1..StepsFor(phase, k[2]) /\ k = <<phase, k[2], k[3]>>
  BY KeyOut
<1>2. at[k[2]] > StepsFor(phase, k[2]) /\ at[k[2]] \in Nat /\ StepsFor(phase, k[2]) \in Nat
  BY <1>1, CatalogueShape DEF NodeProgress, NodeSeen, TypeOK, MainOK, NodesOK
<1>3. k[3] < at[k[2]]
  BY <1>1, <1>2
<1> QED
  BY <1>1, <1>3 DEF Passed

\* The main goroutine leaves the nodes alone, or begins with new ones.
LEMMA OtherPassed ==
    ASSUME TypeOK, Other, NEW S, stage = "nodes" => \A n \in Nodes(phase) : Passed(n, S),
           stage' = "nodes", NEW m \in Nodes(phase')
    PROVE  /\ \A i \in 1..StepsFor(phase', m) : i < at'[m] => <<phase', m, i>> \in S
           /\ pc'[m] \in {"snapshot", "rename"} /\ then'[m] \in {"skip", "settle"} =>
                <<phase', m, at'[m]>> \in S
<1>1. EnterPhase \/ (stage = "nodes" /\ UNCHANGED <<phase, workers>>)
  BY DEF Other, MainStep, Start, StartFails, SkipPhase, EnterPhase, EnterPhaseFails,
         PhaseDone, PhaseFailed, AllPhasesDone, Finish, Close, Crash, Cancel, Drift, main
<1>2. CASE EnterPhase
  <2>1. /\ phase' = phase /\ phase \in Phases
        /\ at'[m] = 1 /\ pc'[m] \in {"step", "idle"}
    BY <1>2 DEF EnterPhase
  <2> QED
    BY <2>1, CatalogueShape
<1>3. CASE stage = "nodes" /\ UNCHANGED <<phase, workers>>
  BY <1>3 DEF Passed, Key, workers
<1> QED
  BY <1>1, <1>2, <1>3

\* Where the main goroutine stands, the steps of the phases behind it are in S;
\* all of them are when it ends without an error.
Through(S) ==
    /\ stage \in {"phases", "nodes"} => \A k \in Keys : k[1] < phase => k \in S
    /\ stage \in {"finish", "closing"} /\ cause = "none" => Keys \subseteq S
    /\ verdict = "ok" => Keys \subseteq S

\* It goes past a phase whose steps are in S, and past no other.
LEMMA OtherThrough ==
    ASSUME TypeOK, Other, NEW S, NEW T, S \subseteq T \/ Start, Through(S),
           SkipPhase => \A k \in Keys : k[1] = phase => k \in S,
           PhaseDone => \A k \in Keys : k[1] = phase => k \in S
    PROVE  /\ stage' \in {"phases", "nodes"} => \A k \in Keys : k[1] < phase' => k \in T
           /\ stage' \in {"finish", "closing"} /\ cause' = "none" => Keys \subseteq T
           /\ verdict' = "ok" => Keys \subseteq T
<1>1. phase \in Nat /\ Len(Catalogue) \in Nat
  BY CatalogueAssumption DEF TypeOK, MainOK
<1>2. \A k \in Keys : k[1] \in 1..Len(Catalogue)
  BY KeyOut DEF Phases
<1> USE <1>1, <1>2 DEF Through, main, stream
<1>3. CASE Start
  BY <1>3 DEF Start
<1>4. CASE StartFails \/ Crash
  BY <1>4 DEF StartFails, Crash, Start
<1>5. CASE SkipPhase
  BY <1>5 DEF SkipPhase, Start
<1>6. CASE EnterPhase \/ EnterPhaseFails
  BY <1>6 DEF EnterPhase, EnterPhaseFails, Start
<1>7. CASE PhaseDone
  BY <1>7 DEF PhaseDone, Start
<1>8. CASE PhaseFailed
  BY <1>8 DEF PhaseFailed, Start
<1>9. CASE AllPhasesDone
  BY <1>9 DEF AllPhasesDone, Start
<1>10. CASE Finish
  BY <1>10 DEF Finish, Outcome, Start
<1>11. CASE Close
  BY <1>11 DEF Close, Start
<1>12. CASE Cancel \/ Drift
  <2>1. UNCHANGED <<stage, phase, cause, verdict>> /\ (stage = "down" => ~Cancel)
    BY <1>12 DEF Cancel, Drift
  <2>2. CASE S \subseteq T
    BY <2>1, <2>2
  <2>3. CASE Start
    BY <1>3, <2>3
  <2> QED
    BY <2>2, <2>3
<1> QED
  BY <1>3, <1>4, <1>5, <1>6, <1>7, <1>8, <1>9, <1>10, <1>11, <1>12 DEF Other, MainStep

----------------------------------------------------------------------------
\* The stream.

\* A record calls a phase finished only when the stream has its every step.
PhaseAudited(rec) == \A k \in Keys : rec.phases[k[1]] \in Done => k \in audited

AuditInv ==
    /\ PhaseAudited(mem) /\ PhaseAudited(disk)
    /\ stage = "nodes" =>
         \A n \in Nodes(phase) : PhaseAudited(snap[n]) /\ Passed(n, audited)
    /\ Through(audited)

\* A new record calls no phase finished.
LEMMA EmptyAudited == PhaseAudited(EmptyRecord)
  BY KeyOut DEF PhaseAudited, EmptyRecord, Done

\* The stream is only appended to, and a node's step leaves the verdict alone.
LEMMA WorkerStream ==
    ASSUME TypeOK, NEW n, WorkerStep(n)
    PROVE  audited \subseteq audited' /\ verdict' = verdict
<1> USE DEF stream
<1>1. CASE EmitSkip(n) \/ EmitSettled(n)
  BY <1>1 DEF EmitSkip, EmitSettled
<1>2. CASE ~EmitSkip(n) /\ ~EmitSettled(n)
  BY <1>2 DEF WorkerStep, NodeStep, NextNode, NextStep, Snapshot, Rename, SaveFails,
         RunningEventFails, Observe, ObserveFails, Apply, ApplyFails, Backoff
<1> QED
  BY <1>1, <1>2

\* A node saves a step as passed only after the stream has it.
LEMMA WorkerAudited ==
    ASSUME TypeOK, AuditInv, NEW n, WorkerStep(n)
    PROVE  AuditInv'
<1>1. /\ n \in Nodes(phase) /\ phase \in Phases /\ stage = "nodes" /\ stage' = stage
      /\ phase' = phase /\ FlowOf(n) /\ mem \in Record
      /\ audited \subseteq audited' /\ verdict' = verdict
  BY WorkerMem, WorkerFrame, WorkerFlow, WorkerStream DEF TypeOK
<1>2. PhaseAudited(mem)'
  <2>1. CASE mem' = mem
    BY <1>1, <2>1 DEF AuditInv, PhaseAudited
  <2>2. ASSUME NEW s \in Status, RecordsAs(n, s), Key(n) \in Keys
        PROVE  PhaseAudited(mem)'
    <3>1. \A p \in Phases : mem'.phases[p] \in {mem.phases[p], "failed"}
      BY <1>1, <2>2, SetStepParts DEF RecordsAs
    <3> QED
      BY <1>1, <3>1, KeyOut DEF AuditInv, PhaseAudited, Done
  <2> QED
    BY <2>1, <2>2, WorkerMem
<1>3. PhaseAudited(disk)'
  BY <1>1 DEF AuditInv, PhaseAudited, FlowOf
<1>4. ASSUME NEW m \in Nodes(phase) PROVE PhaseAudited(snap[m])'
  <2>1. CASE m = n
    BY <1>1, <2>1, EmptyAudited DEF AuditInv, PhaseAudited, FlowOf
  <2>2. CASE m # n
    BY <1>1, <2>2, WorkerOthers DEF AuditInv, PhaseAudited
  <2> QED
    BY <2>1, <2>2
<1>5. ASSUME NEW m \in Nodes(phase) PROVE Passed(m, audited)'
  <2>1. pc'[n] = "snapshot" /\ then'[n] \in {"skip", "settle"} => Key(n) \in audited'
    BY <1>1 DEF FlowOf
  <2> QED
    BY <1>1, <2>1, WorkerPassed DEF AuditInv, Passed, Key
<1>6. Through(audited)'
  BY <1>1 DEF AuditInv, Through
<1> QED
  BY <1>1, <1>2, <1>3, <1>4, <1>5, <1>6 DEF AuditInv

\* The main goroutine finishes a phase, or passes one that is finished, only when
\* the stream has its every step.
LEMMA OtherAudited ==
    ASSUME IInv, AuditInv, Other
    PROVE  AuditInv'
<1>1. /\ TypeOK /\ NodeProgress /\ mem \in Record /\ audited' = audited
      /\ stage = "nodes" => phase \in Phases
  BY DEF IInv, TypeOK, MainOK, Other, MainStep, Start, StartFails, SkipPhase, EnterPhase,
         EnterPhaseFails, PhaseDone, PhaseFailed, AllPhasesDone, Finish, Close, Crash,
         Cancel, Drift, stream
<1>2. PhaseDone => \A k \in Keys : k[1] = phase => k \in audited
  BY <1>1, PassedAll DEF AuditInv, PhaseDone
<1>3. SkipPhase => \A k \in Keys : k[1] = phase => k \in audited
  BY DEF AuditInv, PhaseAudited, SkipPhase, Finished
<1>4. Through(audited)'
  BY <1>1, <1>2, <1>3, OtherThrough DEF AuditInv, Through
<1>5. phase \in Phases =>
        /\ \A s \in {"running", "failed"} : PhaseAudited(SetPhase(mem, phase, s))
        /\ PhaseDone => PhaseAudited(SetPhase(mem, phase, "ok"))
  <2> SUFFICES ASSUME phase \in Phases, NEW s \in {"running", "failed", "ok"},
                      s = "ok" => PhaseDone
               PROVE  PhaseAudited(SetPhase(mem, phase, s))
    OBVIOUS
  <2>1. \A q \in Phases : SetPhase(mem, phase, s).phases[q] =
          IF q = phase THEN s ELSE mem.phases[q]
    BY <1>1, SetPhaseParts DEF Status, Done
  <2> QED
    BY <1>2, <2>1, KeyOut DEF AuditInv, PhaseAudited, Done
<1>6. PhaseAudited(mem') /\ PhaseAudited(disk')
  BY <1>1, <1>5, EmptyAudited
     DEF AuditInv, Other, MainStep, Start, StartFails, SkipPhase, EnterPhase,
         EnterPhaseFails, PhaseDone, PhaseFailed, AllPhasesDone, Finish, Close, Crash,
         Cancel, Drift
<1>7. ASSUME stage' = "nodes", NEW m \in Nodes(phase') PROVE Passed(m, audited)'
  BY <1>1, <1>7, OtherPassed DEF AuditInv, Passed, Key
<1>8. ASSUME stage' = "nodes", NEW m \in Nodes(phase') PROVE PhaseAudited(snap'[m])
  <2>1. \/ phase' = phase /\ snap'[m] = EmptyRecord
        \/ stage = "nodes" /\ phase' = phase /\ snap' = snap
    BY <1>8 DEF Other, MainStep, Start, StartFails, SkipPhase, EnterPhase, EnterPhaseFails,
         PhaseDone, PhaseFailed, AllPhasesDone, Finish, Close, Crash, Cancel, Drift, main,
         workers
  <2> QED
    BY <1>8, <2>1, EmptyAudited DEF AuditInv
<1> QED
  BY <1>1, <1>4, <1>6, <1>7, <1>8 DEF AuditInv, PhaseAudited

\* A run that the stream calls completed has an event in the stream for its every
\* step, of this attempt or of an earlier one: no skipped phase, no lost save and
\* no failed emit leaves one out (Runner.attempt, Runner.runStep, Runner.finish).
THEOREM CompletedAudited == Spec => []CompletedRunIsAudited
<1>1. Init => AuditInv
  BY EmptyAudited DEF Init, AuditInv, Through
<1>2. IInv /\ AuditInv /\ [Next]_vars => AuditInv'
  <2> SUFFICES ASSUME IInv, AuditInv, [Next]_vars PROVE AuditInv'
    OBVIOUS
  <2>1. CASE Other
    BY <2>1, OtherAudited
  <2>2. CASE \E p \in Phases : \E n \in Nodes(p) : WorkerStep(n)
    BY <2>2, WorkerAudited DEF IInv
  <2>3. CASE UNCHANGED vars
    BY <2>3 DEF AuditInv, PhaseAudited, Passed, Through, Key, vars, main, workers, stream
  <2> QED
    BY <2>1, <2>2, <2>3 DEF Next, Other
<1>3. IInv /\ AuditInv => CompletedRunIsAudited
  BY DEF IInv, TypeOK, MainOK, AuditInv, Through, CompletedRunIsAudited
<1> QED
  BY <1>1, <1>2, <1>3, Inductive, PTL DEF Spec

----------------------------------------------------------------------------
\* The blame for a run that stopped.

\* A context error comes from a cancelled run or a step's own timeout, or it comes
\* after the phase already has its error.
CtxInv ==
    /\ cause = "ctx" => cancelled \/ timedOut
    /\ stage = "nodes" =>
         \A n \in Nodes(phase) : "ctx" \in err[n] => cancelled \/ timedOut \/ cause # "none"
    /\ verdict = "EX-104" => cancelled \/ timedOut

\* Where the error of a node, and of its phase, comes from.
CauseOf(n) ==
    /\ cancelled' = cancelled /\ verdict' = verdict /\ (timedOut => timedOut')
    /\ cause' # cause => /\ cause = "none" /\ cause' \in {"ctx", "other"}
                         /\ cause' = "ctx" => CtxDone \/ "ctx" \in err[n]
    /\ "ctx" \in err'[n] => "ctx" \in err[n] \/ CtxDone \/ timedOut'

\* A node stops with a context error only when its context is done, or when that
\* is what failed its step.
LEMMA WorkerCause ==
    ASSUME TypeOK, NEW n, WorkerStep(n)
    PROVE  CauseOf(n)
<1>1. n \in Nodes(phase) /\ NodesOK /\ stage = "nodes"
  BY DEF WorkerStep, TypeOK
<1> USE <1>1 DEF NodesOK, CauseOf, stream
<1>2. CASE NextNode(n)
  BY <1>2 DEF NextNode, Go, Stop, CtxDone
<1>3. CASE NextStep(n)
  BY <1>3 DEF NextStep, Go, Stop, MarkRunning
<1>4. CASE EmitSkip(n)
  BY <1>4 DEF EmitSkip, Go, Stop
<1>5. CASE Snapshot(n)
  BY <1>5 DEF Snapshot, Go
<1>6. CASE Rename(n)
  BY <1>6 DEF Rename, Go, Stop, StepOver
<1>7. CASE SaveFails(n)
  BY <1>7 DEF SaveFails, Go, Stop, StepOver
<1>8. CASE RunningEventFails(n)
  BY <1>8 DEF RunningEventFails, Go, Stop
<1>9. CASE Observe(n)
  BY <1>9 DEF Observe, Go, RetryOrFail, FailStep
<1>10. CASE ObserveFails(n)
  <2>1. PICK ctx \in BOOLEAN : CommandFails(ctx) /\ FailStep(n, {"fatal"} \cup CtxIf(ctx))
    BY <1>10 DEF ObserveFails
  <2>2. UNCHANGED <<cause, cancelled, verdict>>
    BY <1>10 DEF ObserveFails
  <2> QED
    BY <2>1, <2>2 DEF CommandFails, FailStep, CtxIf
<1>11. CASE Apply(n)
  BY <1>11 DEF Apply
<1>12. CASE ApplyFails(n)
  <2>1. PICK ctx, fatal \in BOOLEAN :
          /\ CommandFails(ctx)
          /\ RetryOrFail(n, CtxIf(ctx) \cup (IF fatal THEN {"fatal"} ELSE {}))
    BY <1>12 DEF ApplyFails
  <2>2. UNCHANGED <<cause, cancelled, verdict>>
    BY <1>12 DEF ApplyFails
  <2>3. (timedOut => timedOut') /\ (ctx => CtxDone \/ timedOut')
    BY <2>1 DEF CommandFails
  <2>4. "ctx" \in err'[n] => "ctx" \in err[n] \/ ctx
    BY <2>1 DEF RetryOrFail, FailStep, CtxIf
  <2> QED
    BY <2>2, <2>3, <2>4
<1>13. CASE EmitSettled(n)
  BY <1>13 DEF EmitSettled, Go, RetryOrFail, FailStep
<1>14. CASE Backoff(n)
  BY <1>14 DEF Backoff, Go, Stop, MarkRunning
<1> QED
  BY <1>2, <1>3, <1>4, <1>5, <1>6, <1>7, <1>8, <1>9, <1>10, <1>11, <1>12, <1>13,
     <1>14 DEF WorkerStep, NodeStep

\* A node's step keeps the blame where it belongs.
LEMMA WorkerCtx ==
    ASSUME TypeOK, CtxInv, NEW n, WorkerStep(n)
    PROVE  CtxInv'
<1>1. /\ n \in Nodes(phase) /\ stage = "nodes" /\ stage' = stage /\ phase' = phase
      /\ CauseOf(n)
  BY WorkerFrame, WorkerCause DEF WorkerStep
<1>2. "ctx" \in err[n] => cancelled \/ timedOut \/ cause # "none"
  BY <1>1 DEF CtxInv
<1>3. cause' = "ctx" => cancelled' \/ timedOut'
  BY <1>1, <1>2 DEF CtxInv, CauseOf, CtxDone
<1>4. cause # "none" => cause' # "none"
  BY <1>1 DEF CauseOf
<1>5. ASSUME NEW m \in Nodes(phase), "ctx" \in err'[m]
      PROVE  cancelled' \/ timedOut' \/ cause' # "none"
  <2>1. CASE m = n
    BY <1>1, <1>2, <1>4, <1>5, <2>1 DEF CauseOf, CtxDone
  <2>2. CASE m # n
    BY <1>1, <1>4, <1>5, <2>2, WorkerOthers DEF CtxInv, CauseOf
  <2> QED
    BY <2>1, <2>2
<1> QED
  BY <1>1, <1>3, <1>5 DEF CtxInv, CauseOf

\* The main goroutine passes the error on, and adds none of the context's.
LEMMA OtherCtx ==
    ASSUME TypeOK, CtxInv, Other
    PROVE  CtxInv'
<1> USE DEF CtxInv, main, stream, workers
<1>1. CASE Start
  BY <1>1 DEF Start
<1>2. CASE EnterPhase
  BY <1>2 DEF EnterPhase
<1>3. CASE Finish
  BY <1>3 DEF Finish, Outcome
<1>4. CASE Cancel
  BY <1>4 DEF Cancel
<1>5. CASE Drift
  BY <1>5 DEF Drift
<1>6. CASE StartFails \/ SkipPhase \/ EnterPhaseFails \/ AllPhasesDone \/ Close
  BY <1>6 DEF StartFails, SkipPhase, EnterPhaseFails, AllPhasesDone, Close
<1>7. CASE PhaseDone \/ PhaseFailed \/ Crash
  BY <1>7 DEF PhaseDone, PhaseFailed, Crash
<1> QED
  BY <1>1, <1>2, <1>3, <1>4, <1>5, <1>6, <1>7 DEF Other, MainStep

\* A run is called cancelled only when it was, or when a step outlived its own
\* timeout: what a parallel phase cancels because one node failed arrives after
\* that failure, and never replaces it (Runner.runNodesParallel, Runner.finish).
THEOREM NotBlamed == Spec => []SiblingNotBlamed
<1>1. Init => CtxInv
  BY DEF Init, CtxInv
<1>2. TypeOK /\ CtxInv /\ [Next]_vars => CtxInv'
  <2> SUFFICES ASSUME TypeOK, CtxInv, [Next]_vars PROVE CtxInv'
    OBVIOUS
  <2>1. CASE Other
    BY <2>1, OtherCtx
  <2>2. CASE \E p \in Phases : \E n \in Nodes(p) : WorkerStep(n)
    BY <2>2, WorkerCtx
  <2>3. CASE UNCHANGED vars
    BY <2>3 DEF CtxInv, vars, main, workers, stream
  <2> QED
    BY <2>1, <2>2, <2>3 DEF Next, Other
<1>3. CtxInv => SiblingNotBlamed
  BY DEF CtxInv, SiblingNotBlamed
<1> QED
  BY <1>1, <1>2, <1>3, TypeCorrect, PTL DEF Spec

----------------------------------------------------------------------------
\* A recheck.

\* The steps a recheck has seen, or need not look at: those that hold, those that
\* stopped holding while it ran, and the one-shot ones.
Seen == satisfied \cup lost \cup OneShot

RecheckInv ==
    recheck =>
      /\ stage = "nodes" => \A n \in Nodes(phase) :
           /\ Passed(n, Seen)
           /\ pc[n] \in {"skipping", "settled"} => Key(n) \in Seen
      /\ Through(Seen)

\* A node's step brings a target to hold, and undoes none.
LEMMA WorkerWorld ==
    ASSUME NEW n, WorkerStep(n)
    PROVE  satisfied \subseteq satisfied' /\ lost' = lost
<1>1. CASE Apply(n) \/ ApplyFails(n)
  BY <1>1 DEF Apply, ApplyFails, Bring, world
<1>2. CASE ~Apply(n) /\ ~ApplyFails(n)
  BY <1>2 DEF WorkerStep, NodeStep, NextNode, NextStep, EmitSkip, Snapshot, Rename,
         SaveFails, RunningEventFails, Observe, ObserveFails, EmitSettled, Backoff, world
<1> QED
  BY <1>1, <1>2

\* During a recheck a node passes a step that holds, or a one-shot step.
LEMMA WorkerRecheck ==
    ASSUME TypeOK, RecheckInv, NEW n, WorkerStep(n)
    PROVE  RecheckInv'
<1>1. /\ n \in Nodes(phase) /\ stage = "nodes" /\ stage' = stage
      /\ phase' = phase /\ recheck' = recheck /\ FlowOf(n)
      /\ Seen \subseteq Seen' /\ verdict' = verdict
  BY WorkerFrame, WorkerFlow, WorkerStream, WorkerWorld DEF WorkerStep, Seen
<1>2. SUFFICES ASSUME recheck PROVE RecheckInv'
  BY <1>1 DEF RecheckInv
<1>3. Through(Seen)'
  BY <1>1, <1>2 DEF RecheckInv, Through
<1>4. ASSUME NEW m \in Nodes(phase) PROVE Passed(m, Seen)'
  <2>1. pc'[n] = "snapshot" /\ then'[n] \in {"skip", "settle"} => Key(n) \in Seen'
    BY <1>1, <1>2 DEF FlowOf, RecheckInv
  <2> QED
    BY <1>1, <1>2, <2>1, WorkerPassed DEF RecheckInv, Passed, Key
<1>5. ASSUME NEW m \in Nodes(phase), pc'[m] \in {"skipping", "settled"}
      PROVE  Key(m)' \in Seen'
  <2>1. CASE m = n
    <3>1. at'[n] = at[n]
      BY <1>1, <1>5, <2>1 DEF FlowOf
    <3>2. CASE pc'[n] = "skipping"
      BY <1>1, <1>2, <2>1, <3>1, <3>2 DEF FlowOf, Skips, Seen, Key
    <3>3. CASE pc'[n] = "settled"
      BY <1>1, <1>2, <2>1, <3>1, <3>3 DEF FlowOf, Seen, Key
    <3> QED
      BY <1>5, <2>1, <3>2, <3>3
  <2>2. CASE m # n
    BY <1>1, <1>2, <1>5, <2>2, WorkerOthers DEF RecheckInv, Key
  <2> QED
    BY <2>1, <2>2
<1> QED
  BY <1>1, <1>3, <1>4, <1>5 DEF RecheckInv

\* During a recheck no phase is skipped; what drifts is known to have held.
LEMMA OtherRecheck ==
    ASSUME IInv, RecheckInv, Other
    PROVE  RecheckInv'
<1>1. TypeOK /\ NodeProgress
  BY DEF IInv
<1>2. Seen \subseteq Seen' \/ Start
  BY DEF Seen, Other, MainStep, StartFails, SkipPhase, EnterPhase,
         EnterPhaseFails, PhaseDone, PhaseFailed, AllPhasesDone, Finish, Close, Crash,
         Cancel, Drift, world
<1>3. CASE Start
  BY <1>1, <1>3, KeyOut DEF Start, RecheckInv, Through, TypeOK, MainOK, Phases
<1>4. CASE ~Start
  <2>1. recheck' = recheck
    BY <1>4 DEF Other, MainStep, StartFails, SkipPhase, EnterPhase,
         EnterPhaseFails, PhaseDone, PhaseFailed, AllPhasesDone, Finish, Close, Crash,
         Cancel, Drift, main
  <2>2. SUFFICES ASSUME recheck PROVE RecheckInv'
    BY <2>1 DEF RecheckInv
  <2>3. PhaseDone => \A k \in Keys : k[1] = phase => k \in Seen
    BY <1>1, <2>2, PassedAll DEF RecheckInv, PhaseDone
  <2>4. ~SkipPhase
    BY <2>2 DEF SkipPhase, Finished
  <2>5. Through(Seen)'
    BY <1>1, <1>2, <1>4, <2>2, <2>3, <2>4, OtherThrough DEF RecheckInv, Through
  <2>6. ASSUME stage' = "nodes", NEW m \in Nodes(phase')
        PROVE  /\ Passed(m, Seen)'
               /\ pc'[m] \in {"skipping", "settled"} => Key(m)' \in Seen'
    <3>1. /\ \A i \in 1..StepsFor(phase', m) : i < at'[m] => <<phase', m, i>> \in Seen
          /\ pc'[m] \in {"snapshot", "rename"} /\ then'[m] \in {"skip", "settle"} =>
               <<phase', m, at'[m]>> \in Seen
      BY <1>1, <2>2, <2>6, OtherPassed DEF RecheckInv
    <3>2. \/ pc'[m] \in {"step", "idle"}
          \/ stage = "nodes" /\ UNCHANGED <<phase, workers>>
      BY <2>6 DEF Other, MainStep, Start, StartFails, SkipPhase, EnterPhase,
         EnterPhaseFails, PhaseDone, PhaseFailed, AllPhasesDone, Finish, Close, Crash,
         Cancel, Drift, main
    <3> QED
      BY <1>2, <1>4, <2>2, <2>6, <3>1, <3>2 DEF RecheckInv, Passed, Key, workers
  <2> QED
    BY <2>5, <2>6 DEF RecheckInv
<1> QED
  BY <1>3, <1>4

\* A completed run that was asked to recheck has seen its every target hold, even
\* one that had drifted before it (Runner.runPhase, Decide): no phase, and no step
\* but a one-shot one, is taken from the record.
THEOREM RecheckHolds == Spec => []RecheckedRunHolds
<1>1. Init => RecheckInv
  BY DEF Init, RecheckInv
<1>2. IInv /\ RecheckInv /\ [Next]_vars => RecheckInv'
  <2> SUFFICES ASSUME IInv, RecheckInv, [Next]_vars PROVE RecheckInv'
    OBVIOUS
  <2>1. CASE Other
    BY <2>1, OtherRecheck
  <2>2. CASE \E p \in Phases : \E n \in Nodes(p) : WorkerStep(n)
    BY <2>2, WorkerRecheck DEF IInv
  <2>3. CASE UNCHANGED vars
    BY <2>3 DEF RecheckInv, Passed, Through, Seen, Key, vars, main, workers, stream, world
  <2> QED
    BY <2>1, <2>2, <2>3 DEF Next, Other
<1>3. RecheckInv => RecheckedRunHolds
  BY DEF RecheckInv, Through, Seen, RecheckedRunHolds
<1> QED
  BY <1>1, <1>2, <1>3, Inductive, PTL DEF Spec

----------------------------------------------------------------------------
\* One-shot steps.

\* What was fired where nodes do not run at once is on disk, in some state; the
\* steps a node is at work on there were not fired by an earlier process.
OnceInv ==
    /\ \A k \in fired \cup firedBefore : ~Parallel(k[1]) => disk.steps[k] # "none"
    /\ stage = "nodes" /\ ~Parallel(phase) =>
         \A n \in Nodes(phase) : Unfinished(n) => Key(n) \notin firedBefore

\* A node fires the step it applies.
LEMMA WorkerFires ==
    ASSUME NEW n, WorkerStep(n)
    PROVE  /\ firedBefore' = firedBefore
           /\ fired' = fired \/ (fired' \subseteq fired \cup {Key(n)} /\ pc[n] = "apply")
<1>1. CASE Apply(n) \/ ApplyFails(n)
  BY <1>1 DEF Apply, ApplyFails, Fire
<1>2. CASE ~Apply(n) /\ ~ApplyFails(n)
  BY <1>2 DEF WorkerStep, NodeStep, NextNode, NextStep, EmitSkip, Snapshot, Rename,
         SaveFails, RunningEventFails, Observe, ObserveFails, EmitSettled, Backoff, shots
<1> QED
  BY <1>1, <1>2

\* A node fires no step that is not saved, and takes up none that an earlier
\* process fired: what is on disk of it makes Decide skip it or stop.
LEMMA WorkerOnce ==
    ASSUME IInv, SavedInv, LineInv, OnceInv, NEW n, WorkerStep(n)
    PROVE  OnceInv'
<1>1. /\ n \in Nodes(phase) /\ phase \in Phases /\ stage = "nodes" /\ stage' = stage
      /\ phase' = phase /\ FlowOf(n) /\ TypeOK
      /\ firedBefore' = firedBefore
      /\ fired \subseteq Keys /\ firedBefore \subseteq OneShot /\ OneShot \subseteq Keys
  BY WorkerMem, WorkerFrame, WorkerFlow, WorkerFires, StepAssumption
     DEF IInv, TypeOK, MainOK
<1>2. ASSUME NEW k \in fired' \cup firedBefore', ~Parallel(k[1])
      PROVE  disk'.steps[k] # "none"
  <2>1. CASE k \in fired \cup firedBefore
    <3>1. disk.steps[k] # "none" /\ k \in Keys
      BY <1>1, <1>2, <2>1 DEF OnceInv
    <3>2. mem.steps[k] # "none"
      BY <1>1, <1>2, <3>1 DEF LineInv, StepsAhead
    <3> QED
      BY <1>1, <1>2, <3>1, <3>2, SaveIsFresh DEF FlowOf
  <2>2. CASE k \notin fired \cup firedBefore
    <3>1. k = Key(n) /\ pc[n] = "apply"
      BY <1>2, <2>2, WorkerFires
    <3>2. disk.steps[Key(n)] # "none"
      BY <1>1, <1>2, <3>1, KeyParts DEF LineInv, InStep
    <3> QED
      BY <1>1, <3>1, <3>2 DEF FlowOf
  <2> QED
    BY <2>1, <2>2
<1>3. ASSUME ~Parallel(phase), NEW m \in Nodes(phase), Unfinished(m)'
      PROVE  Key(m)' \notin firedBefore
  <2>1. CASE m # n
    BY <1>1, <1>3, <2>1, WorkerOthers DEF OnceInv, Unfinished, Key
  <2>2. CASE m = n
    <3>1. at'[n] = at[n]
      BY <1>1, <1>3, <2>2 DEF FlowOf, Unfinished
    <3>2. CASE Unfinished(n)
      BY <1>1, <1>3, <2>2, <3>1, <3>2 DEF OnceInv, Key
    <3>3. CASE ~Unfinished(n)
      <4>1. Runs(Key(n))
        BY <1>1, <1>3, <2>2, <3>3 DEF FlowOf, Unfinished
      <4>2. ASSUME Key(n) \in firedBefore PROVE FALSE
        <5>1. mem.steps[Key(n)] # "none"
          BY <1>1, <1>3, <4>2, KeyParts DEF OnceInv, LineInv, StepsAhead
        <5>2. mem.steps[Key(n)] \in Status
          BY <1>1, <4>2 DEF TypeOK, Record
        <5> QED
          BY <1>1, <4>1, <4>2, <5>1, <5>2 DEF Runs, Confirms, Skips, Status
      <4> QED
        BY <1>1, <2>2, <3>1, <4>2 DEF Key
    <3> QED
      BY <3>2, <3>3
  <2> QED
    BY <2>1, <2>2
<1> QED
  BY <1>1, <1>2, <1>3 DEF OnceInv

\* The main goroutine saves the record in memory, which is ahead; a new process
\* inherits what was fired, and begins at no step.
LEMMA OtherOnce ==
    ASSUME IInv, LineInv, OnceInv, Other
    PROVE  OnceInv'
<1>1. /\ mem \in Record /\ (stage = "nodes" => phase \in Phases)
      /\ fired \cup firedBefore \subseteq Keys
  BY StepAssumption DEF IInv, TypeOK, MainOK
<1>2. phase \in Phases => \A s \in Status : SetPhase(mem, phase, s).steps = mem.steps
  BY <1>1, SetPhaseParts
<1>3. /\ disk'.steps = disk.steps \/ (stage # "down" /\ disk'.steps = mem.steps)
      /\ fired' \cup firedBefore' = fired \cup firedBefore
  <2>1. CASE PhaseDone
    BY <1>1, <1>2, <2>1 DEF PhaseDone, Status, Done, shots
  <2>2. CASE ~PhaseDone
    BY <2>2
       DEF Other, MainStep, Start, StartFails, SkipPhase, EnterPhase, EnterPhaseFails,
           PhaseFailed, AllPhasesDone, Finish, Close, Crash, Cancel, Drift, shots
  <2> QED
    BY <2>1, <2>2
<1>4. \A k \in fired' \cup firedBefore' : ~Parallel(k[1]) => disk'.steps[k] # "none"
  BY <1>1, <1>3 DEF OnceInv, LineInv, StepsAhead
<1>5. stage' = "nodes" =>
        EnterPhase \/ (stage = "nodes" /\ UNCHANGED <<phase, workers, firedBefore>>)
  BY DEF Other, MainStep, Start, StartFails, SkipPhase, EnterPhase, EnterPhaseFails,
         PhaseDone, PhaseFailed, AllPhasesDone, Finish, Close, Crash, Cancel, Drift, main,
         shots
<1>6. CASE EnterPhase
  <2>1. phase' = phase /\ \A n \in Nodes(phase) : pc'[n] \in {"step", "idle"}
    BY <1>6 DEF EnterPhase
  <2> QED
    BY <1>4, <2>1 DEF OnceInv, Unfinished
<1>7. CASE stage = "nodes" /\ UNCHANGED <<phase, workers, firedBefore>>
  BY <1>4, <1>7 DEF OnceInv, Unfinished, Key, workers
<1> QED
  BY <1>4, <1>5, <1>6, <1>7 DEF OnceInv

\* What an earlier process fired, where nodes do not run at once, is not applied.
InLine ==
    stage = "nodes" /\ ~Parallel(phase) =>
      \A n \in Nodes(phase) : pc[n] = "apply" => Key(n) \notin firedBefore

\* A one-shot step that an earlier process began to apply is not applied again,
\* where the nodes of its phase do not run at once (Decide, Runner.attempt): its
\* mark is on disk before it is applied, no later save takes the mark back, and a
\* process that finds the mark skips the step or stops for the operator.
THEOREM OnceInLine == Spec => []InLine
<1>1. Init => OnceInv
  BY DEF Init, OnceInv
<1>2. IInv /\ SavedInv /\ LineInv /\ OnceInv /\ [Next]_vars => OnceInv'
  <2> SUFFICES ASSUME IInv, SavedInv, LineInv, OnceInv, [Next]_vars PROVE OnceInv'
    OBVIOUS
  <2>1. CASE Other
    BY <2>1, OtherOnce
  <2>2. CASE \E p \in Phases : \E n \in Nodes(p) : WorkerStep(n)
    BY <2>2, WorkerOnce
  <2>3. CASE UNCHANGED vars
    BY <2>3 DEF OnceInv, Unfinished, Key, vars, main, workers, shots
  <2> QED
    BY <2>1, <2>2, <2>3 DEF Next, Other
<1>3. OnceInv => InLine
  BY DEF OnceInv, Unfinished, InLine
<1> QED
  BY <1>1, <1>2, <1>3, Lined, PTL DEF Spec

\* In a catalogue whose one-shot steps are in no parallel phase, a one-shot step is
\* never resumed.  The program's own catalogue has none at all (Once is set by tests
\* only); in a parallel phase the code does not keep this promise.
THEOREM NeverResumed ==
    ASSUME \A k \in OneShot : ~Parallel(k[1])
    PROVE  Spec => []OneShotNeverResumed
<1>1. TypeOK /\ InLine => OneShotNeverResumed
  BY KeyParts DEF TypeOK, MainOK, InLine, OneShotNeverResumed
<1> QED
  BY <1>1, OnceInLine, TypeCorrect, PTL

=============================================================================
