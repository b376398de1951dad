------------------------------- MODULE Engine -------------------------------
(***************************************************************************)
(* The runner (internal/engine) together with the record it keeps          *)
(* (internal/state): phases in order, the nodes of a phase at once or one  *)
(* by one, each step observed, applied and observed again, every outcome   *)
(* written to state.json by a snapshot and a rename, and a run that died   *)
(* resumed from that file.                                                 *)
(*                                                                         *)
(* A step is named by its place, <<phase, node, index>>: a node is its     *)
(* position in the phase's traversal order, an index its position in the   *)
(* node's list of steps.  The world is the set of steps whose target state *)
(* holds.  Everything that can go wrong outside the runner's control (a    *)
(* crash, a cancelled context, a step that fails or lies, a failed save or *)
(* emit, a target that stops holding) draws on the FaultLimit budget.      *)
(*                                                                         *)
(* A definition whose comment begins with "Wrong" is not part of the       *)
(* specification: it is the next definition with a plausible mistake in    *)
(* it, which a property below must refuse.                                 *)
(***************************************************************************)
EXTENDS Naturals, Sequences, FiniteSets

CONSTANTS
    Catalogue,      \* the phases, in order: [traversal, steps per node]
    OneShot,        \* the steps that must not be run twice
    Budget,         \* attempts allowed to each step
    FaultLimit      \* bound: how many faults a behaviour may contain

Traversals == {"cluster", "parallel", "sequential"}

Phases == 1..Len(Catalogue)
Nodes(p) == 1..Len(Catalogue[p].steps)
StepsFor(p, n) == Catalogue[p].steps[n]
Parallel(p) == Catalogue[p].traversal = "parallel"

Keys == UNION { UNION { {<<p, n, i>> : i \in 1..StepsFor(p, n)} :
                        n \in Nodes(p) } : p \in Phases }

\* nodeTargets never returns an empty list: a cluster phase, and a phase with
\* no node, has the one unnamed target.
ASSUME CatalogueAssumption ==
    /\ Catalogue \in Seq([traversal : Traversals, steps : Seq(Nat)])
    /\ \A p \in Phases : /\ Nodes(p) # {}
                         /\ Catalogue[p].traversal = "cluster" => Nodes(p) = {1}

ASSUME StepAssumption ==
    /\ OneShot \subseteq Keys
    /\ Budget \in [Keys -> Nat \ {0}]

ASSUME FaultAssumption == FaultLimit \in Nat

----------------------------------------------------------------------------
\* The record: state.json and its copy in memory.

Done == {"ok", "skipped"}
Status == {"none", "running", "failed"} \cup Done
NoStep == <<0, 0, 0>>

Record == [steps : [Keys -> Status],
           phases : [Phases -> Status],
           failedStep : [Phases -> Keys \cup {NoStep}]]

\* state.New: a step or a phase with no entry has never been attempted.
EmptyRecord == [steps |-> [k \in Keys |-> "none"],
                phases |-> [p \in Phases |-> "none"],
                failedStep |-> [p \in Phases |-> NoStep]]

\* A failed step is also noted on its phase.
SetStep(rec, k, s) ==
    IF s = "failed"
      THEN [rec EXCEPT !.steps[k] = s, !.phases[k[1]] = s, !.failedStep[k[1]] = k]
      ELSE [rec EXCEPT !.steps[k] = s]

\* Wrong: a failure noted on a phase stays there when the phase is retried.
SetPhaseKeepingFailure(rec, p, s) == [rec EXCEPT !.phases[p] = s]

\* Moving a phase to any other status drops the failure noted on it.
SetPhase(rec, p, s) ==
    IF s = "failed"
      THEN [rec EXCEPT !.phases[p] = s]
      ELSE [rec EXCEPT !.phases[p] = s, !.failedStep[p] = NoStep]

----------------------------------------------------------------------------
VARIABLES
    stage,          \* the main goroutine: down, phases, nodes, finish, closing
    phase,          \* the phase it is at
    cause,          \* the first error: none, ctx (a context error), other
    recheck,        \* this run was started with --recheck
    cancelled,      \* this run's context is cancelled or past its deadline
    pc,             \* per node of the phase being run: where its steps stand
    at,             \* ... the index of the step it is at
    attempt,        \* ... the attempt that step is on
    err,            \* ... what is known of the last error: fatal, ctx
    then,           \* ... what follows the save in progress
    snap,           \* ... the snapshot that save will rename into place
    mem,            \* the record in memory
    disk,           \* the record in state.json
    audited,        \* steps with a terminal success event in events.jsonl
    verdict,        \* the run's terminal event: none, ok, EX-103, EX-104
    satisfied,      \* the steps whose target state holds
    faults,         \* faults so far
    reached,        \* history: the steps whose target state has ever held
    lost,           \* history: targets that stopped holding during this run
    fired,          \* history: one-shot steps applied by this run
    firedBefore,    \* history: one-shot steps applied by an earlier process
    timedOut        \* history: a step of this run hit its own timeout

main == <<stage, phase, recheck>>
workers == <<pc, at, attempt, err, then, snap>>
stream == <<audited, verdict>>
world == <<satisfied, reached, lost>>
shots == <<fired, firedBefore>>
vars == <<main, cause, cancelled, workers, mem, disk, stream, world, shots,
          timedOut, faults>>

Fault == faults < FaultLimit /\ faults' = faults + 1
NoFault == UNCHANGED faults

Labels == {"idle", "step", "skipping", "snapshot", "rename", "observe", "apply",
           "reobserve", "settled", "backoff", "done", "stopped"}
Saves == {"mark", "skip", "settle", "fail"}

Init ==
    /\ stage = "down" /\ phase = 1 /\ cause = "none"
    /\ recheck = FALSE /\ cancelled = FALSE
    /\ pc = <<>> /\ at = <<>> /\ attempt = <<>>
    /\ err = <<>> /\ then = <<>> /\ snap = <<>>
    /\ mem = EmptyRecord /\ disk = EmptyRecord
    /\ audited = {} /\ verdict = "none"
    /\ satisfied \in SUBSET Keys
    /\ reached = satisfied
    /\ lost = {} /\ fired = {} /\ firedBefore = {}
    /\ timedOut = FALSE /\ faults = 0

----------------------------------------------------------------------------
\* One node of the phase being run.

Key(n) == <<phase, n, at[n]>>

\* The context the node's steps run under: a parallel phase cancels its group
\* at the first failure.
CtxDone == cancelled \/ (Parallel(phase) /\ cause # "none")

Go(n, label) == pc' = [pc EXCEPT ![n] = label]

\* Wrong: the last error to arrive is the phase's, not the first.
StopLast(n, kind) == Go(n, "stopped") /\ cause' = kind

\* Wrong: whoever brings the first error keeps the lock, and the next node
\* that brings one waits for it.
StopKeepingLock(n, kind) ==
    IF cause = "none" THEN Go(n, "stopped") /\ cause' = kind
                      ELSE UNCHANGED <<pc, cause>>

\* The node returns an error; the first one becomes the phase's.
Stop(n, kind) ==
    /\ Go(n, "stopped")
    /\ cause' = IF cause = "none" THEN kind ELSE cause

\* The step's outcome goes into the record, and the record to disk.
MarkRunning(n) ==
    /\ mem' = SetStep(mem, Key(n), "running")
    /\ Go(n, "snapshot")
    /\ then' = [then EXCEPT ![n] = "mark"]

FailStep(n, e) ==
    /\ mem' = SetStep(mem, Key(n), "failed")
    /\ err' = [err EXCEPT ![n] = e]
    /\ Go(n, "snapshot")
    /\ then' = [then EXCEPT ![n] = "fail"]

\* Wrong: one attempt more than the budget.
RetryPastBudget(n, e) ==
    IF "fatal" \in e \/ CtxDone \/ attempt[n] > Budget[Key(n)]
      THEN FailStep(n, e)
      ELSE Go(n, "backoff") /\ UNCHANGED <<mem, err, then>>

\* After a failed attempt: try again, unless that cannot help.
RetryOrFail(n, e) ==
    IF "fatal" \in e \/ CtxDone \/ attempt[n] = Budget[Key(n)]
      THEN FailStep(n, e)
      ELSE Go(n, "backoff") /\ UNCHANGED <<mem, err, then>>

StepOver(n) ==
    /\ at' = [at EXCEPT ![n] = @ + 1]
    /\ Go(n, "step")

\* runNodesSequential: the next node, unless the context is done.
NextNode(n) ==
    /\ pc[n] = "idle"
    /\ \A m \in Nodes(phase) : m < n => pc[m] = "done"
    /\ IF cancelled THEN Stop(n, "ctx") ELSE Go(n, "step") /\ UNCHANGED cause
    /\ NoFault
    /\ UNCHANGED <<main, cancelled, at, attempt, err, then, snap, mem, disk,
                   stream, world, shots, timedOut>>

\* Wrong: a one-shot step that was interrupted is run again.
ConfirmsFailed(k) == k \in OneShot /\ mem.steps[k] = "failed"

\* Wrong: any unfinished step waits for the operator.
ConfirmsAny(k) == mem.steps[k] \in {"running", "failed"}

\* Wrong: an interrupted step is taken for a finished one.
SkipsInterrupted(k) ==
    mem.steps[k] \in Done \cup {"running"} /\ (k \in OneShot \/ ~recheck)

\* Wrong: only one-shot steps are ever skipped.
SkipsOneShot(k) == mem.steps[k] \in Done /\ k \in OneShot

\* Decide, in three answers.
Confirms(k) == k \in OneShot /\ mem.steps[k] \in {"running", "failed"}
Skips(k) == mem.steps[k] \in Done /\ (k \in OneShot \/ ~recheck)
Runs(k) == ~Confirms(k) /\ ~Skips(k)

\* runSteps, and runStep as far as its first save or emit.
NextStep(n) ==
    /\ pc[n] = "step"
    /\ \/ /\ at[n] > StepsFor(phase, n)
          /\ Go(n, "done")
          /\ UNCHANGED <<cause, attempt, then, mem>>
       \/ /\ at[n] <= StepsFor(phase, n)
          /\ \/ CtxDone /\ Stop(n, "ctx")
             \/ ~CtxDone /\ Confirms(Key(n)) /\ Stop(n, "other")
          /\ UNCHANGED <<attempt, then, mem>>
       \/ /\ at[n] <= StepsFor(phase, n)
          /\ ~CtxDone /\ Skips(Key(n))
          /\ mem' = SetStep(mem, Key(n), "skipped")
          /\ Go(n, "skipping")
          /\ attempt' = [attempt EXCEPT ![n] = 1]
          /\ UNCHANGED <<cause, then>>
       \/ /\ at[n] <= StepsFor(phase, n)
          /\ ~CtxDone /\ Runs(Key(n))
          /\ MarkRunning(n)
          /\ attempt' = [attempt EXCEPT ![n] = 1]
          /\ UNCHANGED cause
    /\ NoFault
    /\ UNCHANGED <<main, cancelled, at, err, snap, disk, stream, world, shots,
                   timedOut>>

\* The skip event.  A line may have been written even when Emit reports an
\* error: the sync comes after the write.
EmitSkip(n) ==
    /\ pc[n] = "skipping"
    /\ \/ /\ NoFault
          /\ audited' = audited \cup {Key(n)}
          /\ Go(n, "snapshot")
          /\ then' = [then EXCEPT ![n] = "skip"]
          /\ UNCHANGED cause
       \/ /\ Fault
          /\ audited' \in {audited, audited \cup {Key(n)}}
          /\ Stop(n, "other")
          /\ UNCHANGED then
    /\ UNCHANGED <<main, cancelled, at, attempt, err, snap, mem, disk, verdict,
                   world, shots, timedOut>>

\* State.Save, first half: copy the record under its lock.
Snapshot(n) ==
    /\ pc[n] = "snapshot"
    /\ snap' = [snap EXCEPT ![n] = mem]
    /\ Go(n, "rename")
    /\ NoFault
    /\ UNCHANGED <<main, cause, cancelled, at, attempt, err, then, mem, disk,
                   stream, world, shots, timedOut>>

\* State.Save, second half: the copy replaces state.json.  Then the caller of
\* save goes on; after a failed step it emits the failure and returns.
Rename(n) ==
    /\ pc[n] = "rename"
    /\ disk' = snap[n]
    /\ snap' = [snap EXCEPT ![n] = EmptyRecord]
    /\ \/ /\ then[n] = "mark"
          /\ Go(n, "observe")
          /\ NoFault
          /\ UNCHANGED <<cause, at>>
       \/ /\ then[n] \in {"skip", "settle"}
          /\ StepOver(n)
          /\ NoFault
          /\ UNCHANGED cause
       \/ /\ then[n] = "fail"
          /\ \/ NoFault /\ Stop(n, IF "ctx" \in err[n] THEN "ctx" ELSE "other")
             \/ Fault /\ Stop(n, "other")
          /\ UNCHANGED at
    /\ UNCHANGED <<main, cancelled, attempt, err, then, mem, stream, world,
                   shots, timedOut>>

\* A save that reports an error, before or after the rename.  After a settled
\* step the error is dropped: attempt has already said done.
SaveFails(n) ==
    /\ pc[n] = "rename"
    /\ Fault
    /\ disk' \in {disk, snap[n]}
    /\ snap' = [snap EXCEPT ![n] = EmptyRecord]
    /\ IF then[n] = "settle"
         THEN StepOver(n) /\ UNCHANGED cause
         ELSE Stop(n, "other") /\ UNCHANGED at
    /\ UNCHANGED <<main, cancelled, attempt, err, then, mem, stream, world,
                   shots, timedOut>>

\* The running event cannot be emitted.  When it can, it changes nothing here.
RunningEventFails(n) ==
    /\ pc[n] = "observe"
    /\ Fault
    /\ Stop(n, "other")
    /\ UNCHANGED <<main, cancelled, at, attempt, err, then, snap, mem, disk,
                   stream, world, shots, timedOut>>

\* Observe, before Apply and after it, tells the truth.
Observe(n) ==
    /\ pc[n] \in {"observe", "reobserve"}
    /\ \/ /\ Key(n) \in satisfied
          /\ mem' = SetStep(mem, Key(n), IF pc[n] = "observe" THEN "skipped" ELSE "ok")
          /\ Go(n, "settled")
          /\ UNCHANGED <<err, then>>
       \/ /\ Key(n) \notin satisfied /\ pc[n] = "observe"
          /\ Go(n, "apply")
          /\ UNCHANGED <<mem, err, then>>
       \/ /\ Key(n) \notin satisfied /\ pc[n] = "reobserve"
          /\ RetryOrFail(n, {})
    /\ NoFault
    /\ UNCHANGED <<main, cause, cancelled, at, attempt, snap, disk, stream,
                   world, shots, timedOut>>

\* A command that fails because its context is done is no fault; one that
\* fails by itself, or outlives its own timeout, is.
CommandFails(ctx) ==
    /\ IF ctx /\ CtxDone THEN NoFault ELSE Fault
    /\ timedOut' = (timedOut \/ (ctx /\ ~CtxDone))

CtxIf(ctx) == IF ctx THEN {"ctx"} ELSE {}

\* Nothing was learned: the step fails and is not retried.
ObserveFails(n) ==
    /\ pc[n] \in {"observe", "reobserve"}
    /\ \E ctx \in BOOLEAN :
         /\ CommandFails(ctx)
         /\ FailStep(n, {"fatal"} \cup CtxIf(ctx))
    /\ UNCHANGED <<main, cause, cancelled, at, attempt, snap, disk, stream,
                   world, shots>>

Fire(n) == fired' = fired \cup ({Key(n)} \cap OneShot)

Bring(k) ==
    /\ satisfied' = satisfied \cup {k}
    /\ reached' = reached \cup {k}
    /\ UNCHANGED lost

\* Apply reports success, and the target state holds or (a fault) does not.
Apply(n) ==
    /\ pc[n] = "apply"
    /\ Fire(n)
    /\ Go(n, "reobserve")
    /\ \/ NoFault /\ Bring(Key(n))
       \/ Fault /\ UNCHANGED world
    /\ UNCHANGED <<main, cause, cancelled, at, attempt, err, then, snap, mem, disk,
                   stream, firedBefore, timedOut>>

\* Apply reports an error, whatever it changed before that.
ApplyFails(n) ==
    /\ pc[n] = "apply"
    /\ Fire(n)
    /\ \E ctx, fatal \in BOOLEAN :
         /\ ~(ctx /\ fatal)
         /\ CommandFails(ctx)
         /\ RetryOrFail(n, CtxIf(ctx) \cup (IF fatal THEN {"fatal"} ELSE {}))
    /\ Bring(Key(n)) \/ UNCHANGED world
    /\ UNCHANGED <<main, cause, cancelled, at, attempt, snap, disk, stream,
                   firedBefore>>

\* Wrong: an event that could not be emitted is let go.
EmitSettledOrNot(n) ==
    /\ pc[n] = "settled"
    /\ \/ NoFault /\ audited' = audited \cup {Key(n)}
       \/ Fault /\ UNCHANGED audited
    /\ Go(n, "snapshot")
    /\ then' = [then EXCEPT ![n] = "settle"]
    /\ UNCHANGED <<main, cause, cancelled, at, attempt, err, snap, mem, disk,
                   verdict, world, shots, timedOut>>

\* The terminal success event, then the save.  When the event cannot be
\* emitted the attempt counts as failed.
EmitSettled(n) ==
    /\ pc[n] = "settled"
    /\ \/ /\ NoFault
          /\ audited' = audited \cup {Key(n)}
          /\ Go(n, "snapshot")
          /\ then' = [then EXCEPT ![n] = "settle"]
          /\ UNCHANGED <<mem, err>>
       \/ /\ Fault
          /\ audited' \in {audited, audited \cup {Key(n)}}
          /\ RetryOrFail(n, {})
    /\ UNCHANGED <<main, cause, cancelled, at, attempt, snap, disk, verdict,
                   world, shots, timedOut>>

\* The timer and the context race; the context wins only when it is done.
Backoff(n) ==
    /\ pc[n] = "backoff"
    /\ \/ CtxDone /\ Stop(n, "ctx") /\ UNCHANGED <<attempt, then, mem>>
       \/ /\ MarkRunning(n)
          /\ attempt' = [attempt EXCEPT ![n] = @ + 1]
          /\ UNCHANGED cause
    /\ NoFault
    /\ UNCHANGED <<main, cancelled, at, err, snap, disk, stream, world, shots,
                   timedOut>>

NodeStep(n) ==
    \/ NextNode(n) \/ NextStep(n) \/ EmitSkip(n)
    \/ Snapshot(n) \/ Rename(n) \/ SaveFails(n)
    \/ RunningEventFails(n) \/ Observe(n) \/ ObserveFails(n)
    \/ Apply(n) \/ ApplyFails(n) \/ EmitSettled(n) \/ Backoff(n)

WorkerStep(n) == stage = "nodes" /\ n \in Nodes(phase) /\ NodeStep(n)

----------------------------------------------------------------------------
\* The main goroutine: Run, runPhase, finish.

NoWorkers == /\ pc' = <<>> /\ at' = <<>> /\ attempt' = <<>>
             /\ err' = <<>> /\ then' = <<>> /\ snap' = <<>>

\* A process is started: state.json is read when there is one, and the run and
\* every phase of it are announced.
Start ==
    /\ stage = "down"
    /\ stage' = "phases" /\ phase' = 1
    /\ recheck' \in BOOLEAN
    /\ cause' = "none" /\ cancelled' = FALSE /\ verdict' = "none"
    /\ mem' = disk
    /\ lost' = {} /\ timedOut' = FALSE
    /\ fired' = {} /\ firedBefore' = firedBefore \cup fired
    /\ NoFault
    /\ UNCHANGED <<workers, disk, audited, satisfied, reached>>

\* An announcement cannot be emitted: Run returns without a terminal event.
StartFails ==
    /\ stage = "phases" /\ phase = 1
    /\ Fault
    /\ stage' = "down" /\ mem' = EmptyRecord
    /\ UNCHANGED <<phase, recheck, cause, cancelled, workers, disk, stream, world,
                   shots, timedOut>>

\* Wrong: a phase that was entered is taken for a finished one.
FinishedIfEntered(p) == mem.phases[p] # "none" /\ ~recheck

\* Wrong: a phase recorded ok is entered again.
FinishedIfSkipped(p) == mem.phases[p] = "skipped" /\ ~recheck

\* Wrong: --recheck looks at the steps only, not at the phases.
FinishedRegardless(p) == mem.phases[p] \in Done

\* A phase recorded as finished is not entered again.
Finished(p) == mem.phases[p] \in Done /\ ~recheck

SkipPhase ==
    /\ stage = "phases" /\ phase \in Phases /\ Finished(phase)
    /\ \/ NoFault /\ phase' = phase + 1 /\ UNCHANGED <<stage, cause>>
       \/ Fault /\ stage' = "finish" /\ cause' = "other" /\ UNCHANGED phase
    /\ UNCHANGED <<recheck, cancelled, workers, mem, disk, stream, world, shots,
                   timedOut>>

EnterPhase ==
    /\ stage = "phases" /\ phase \in Phases /\ ~Finished(phase)
    /\ stage' = "nodes"
    /\ mem' = SetPhase(mem, phase, "running")
    /\ pc' = [n \in Nodes(phase) |-> IF Parallel(phase) THEN "step" ELSE "idle"]
    /\ at' = [n \in Nodes(phase) |-> 1]
    /\ attempt' = [n \in Nodes(phase) |-> 1]
    /\ err' = [n \in Nodes(phase) |-> {}]
    /\ then' = [n \in Nodes(phase) |-> "mark"]
    /\ snap' = [n \in Nodes(phase) |-> EmptyRecord]
    /\ NoFault
    /\ UNCHANGED <<phase, recheck, cause, cancelled, disk, stream, world, shots,
                   timedOut>>

\* The phase's running event cannot be emitted.
EnterPhaseFails ==
    /\ stage = "phases" /\ phase \in Phases /\ ~Finished(phase)
    /\ Fault
    /\ stage' = "finish" /\ cause' = "other"
    /\ UNCHANGED <<phase, recheck, cancelled, workers, mem, disk, stream, world,
                   shots, timedOut>>

\* Wrong: the finished phase is not saved.
PhaseDoneUnsaved ==
    /\ stage = "nodes" /\ cause = "none"
    /\ \A n \in Nodes(phase) : pc[n] = "done"
    /\ mem' = SetPhase(mem, phase, "ok")
    /\ NoFault
    /\ stage' = "phases" /\ phase' = phase + 1
    /\ NoWorkers
    /\ UNCHANGED <<recheck, cause, cancelled, disk, stream, world, shots, timedOut>>

\* Every node returned nil: the phase is recorded, announced and saved.
PhaseDone ==
    /\ stage = "nodes" /\ cause = "none"
    /\ \A n \in Nodes(phase) : pc[n] = "done"
    /\ mem' = SetPhase(mem, phase, "ok")
    /\ \/ /\ NoFault
          /\ disk' = mem'
          /\ stage' = "phases" /\ phase' = phase + 1 /\ UNCHANGED cause
       \/ /\ Fault
          /\ disk' \in {disk, mem'}
          /\ stage' = "finish" /\ cause' = "other" /\ UNCHANGED phase
    /\ NoWorkers
    /\ UNCHANGED <<recheck, cancelled, stream, world, shots, timedOut>>

\* A parallel phase waits for every node; a sequential one that has met an
\* error has no further node to wait for.
NodesReturned == \A n \in Nodes(phase) : pc[n] \in {"idle", "done", "stopped"}

\* A node returned an error.
PhaseFailed ==
    /\ stage = "nodes" /\ cause # "none"
    /\ NodesReturned
    /\ mem' = SetPhase(mem, phase, "failed")
    /\ stage' = "finish"
    /\ \/ NoFault /\ UNCHANGED cause
       \/ Fault /\ cause' = "other"
    /\ NoWorkers
    /\ UNCHANGED <<phase, recheck, cancelled, disk, stream, world, shots, timedOut>>

AllPhasesDone ==
    /\ stage = "phases" /\ phase = Len(Catalogue) + 1
    /\ stage' = "finish"
    /\ NoFault
    /\ UNCHANGED <<phase, recheck, cause, cancelled, workers, mem, disk, stream,
                   world, shots, timedOut>>

Outcome == CASE cause = "none" -> "ok" [] cause = "ctx" -> "EX-104" [] OTHER -> "EX-103"

\* finish, the terminal event.  If it cannot be emitted the run still saves,
\* unless it was about to report success.
Finish ==
    /\ stage = "finish"
    /\ \/ NoFault /\ verdict' = Outcome /\ stage' = "closing" /\ UNCHANGED mem
       \/ /\ Fault /\ UNCHANGED verdict
          /\ IF cause = "none" THEN stage' = "down" /\ mem' = EmptyRecord
                               ELSE stage' = "closing" /\ UNCHANGED mem
    /\ UNCHANGED <<phase, recheck, cause, cancelled, workers, disk, audited, world,
                   shots, timedOut>>

\* finish, the last save; the process ends.
Close ==
    /\ stage = "closing"
    /\ stage' = "down" /\ mem' = EmptyRecord
    /\ \/ NoFault /\ disk' = mem
       \/ Fault /\ disk' \in {disk, mem}
    /\ UNCHANGED <<phase, recheck, cause, cancelled, workers, stream, world, shots,
                   timedOut>>

MainStep ==
    \/ StartFails \/ SkipPhase \/ EnterPhase \/ EnterPhaseFails
    \/ PhaseDone \/ PhaseFailed \/ AllPhasesDone \/ Finish \/ Close

----------------------------------------------------------------------------
\* The environment.

\* The process dies; state.json, events.jsonl and the nodes remain.
Crash ==
    /\ stage # "down"
    /\ Fault
    /\ stage' = "down" /\ mem' = EmptyRecord
    /\ NoWorkers
    /\ UNCHANGED <<phase, recheck, cause, cancelled, disk, stream, world, shots,
                   timedOut>>

\* An interrupt, or the run's own time limit.
Cancel ==
    /\ stage # "down" /\ ~cancelled
    /\ Fault
    /\ cancelled' = TRUE
    /\ UNCHANGED <<main, cause, workers, mem, disk, stream, world, shots, timedOut>>

\* Somebody undoes a target state behind the tool's back.
Drift ==
    /\ Fault
    /\ \E k \in satisfied : /\ satisfied' = satisfied \ {k}
                            /\ lost' = lost \cup {k}
    /\ UNCHANGED <<main, cause, cancelled, workers, mem, disk, stream, reached,
                   shots, timedOut>>

Next ==
    \/ Start
    \/ MainStep
    \/ \E p \in Phases : \E n \in Nodes(p) : WorkerStep(n)
    \/ Crash \/ Cancel \/ Drift

Spec == Init /\ [][Next]_vars

\* The operator goes on resuming a run that stopped, every step and every
\* command returns, and the Go scheduler starves no goroutine.
Fairness ==
    /\ WF_vars(Start)
    /\ WF_vars(MainStep)
    /\ \A p \in Phases : \A n \in Nodes(p) : WF_vars(phase = p /\ WorkerStep(n))

FairSpec == Spec /\ Fairness

----------------------------------------------------------------------------
\* Correctness.

\* What a step builds on: the earlier phases, the node's earlier steps and,
\* in a sequential phase, every step of the nodes before it.
Before(k) == { j \in Keys : \/ j[1] < k[1]
                            \/ j[1] = k[1] /\ j[2] = k[2] /\ j[3] < k[3]
                            \/ /\ j[1] = k[1] /\ j[2] < k[2]
                               /\ Catalogue[k[1]].traversal = "sequential" }

\* The variables of the main goroutine, of the environment and of the history.
MainOK ==
    /\ stage \in {"down", "phases", "nodes", "finish", "closing"}
    /\ phase \in 1..(Len(Catalogue) + 1)
    /\ stage = "nodes" => phase \in Phases
    /\ cause \in {"none", "ctx", "other"}
    /\ recheck \in BOOLEAN /\ cancelled \in BOOLEAN /\ timedOut \in BOOLEAN
    /\ verdict \in {"none", "ok", "EX-103", "EX-104"}
    /\ audited \subseteq Keys
    /\ satisfied \subseteq Keys /\ reached \subseteq Keys /\ lost \subseteq Keys
    /\ fired \subseteq OneShot /\ firedBefore \subseteq OneShot
    /\ faults \in 0..FaultLimit

\* A node between two steps, or not at one, has no step of its own.
Between == {"idle", "step", "done", "stopped"}

\* The nodes of the phase being run; there is none outside it.
NodesOK ==
    IF stage = "nodes"
      THEN /\ pc \in [Nodes(phase) -> Labels]
           /\ at \in [Nodes(phase) -> Nat \ {0}]
           /\ attempt \in [Nodes(phase) -> Nat]
           /\ err \in [Nodes(phase) -> SUBSET {"fatal", "ctx"}]
           /\ then \in [Nodes(phase) -> Saves]
           /\ snap \in [Nodes(phase) -> Record]
           /\ \A n \in Nodes(phase) :
                pc[n] \notin Between => /\ at[n] <= StepsFor(phase, n)
                                        /\ attempt[n] \in 1..Budget[Key(n)]
                                        /\ pc[n] = "backoff" =>
                                             attempt[n] < Budget[Key(n)]
      ELSE pc = <<>>

\* The types of the variables: what each may hold at any moment.  A step is
\* never attempted more often than its budget allows.
TypeOK == /\ MainOK
          /\ NodesOK
          /\ mem \in Record /\ disk \in Record

\* A record claims no step done, and no phase, that is not among those seen
\* to hold.
Truthful(rec, seen) ==
    /\ \A k \in Keys : rec.steps[k] \in Done => k \in seen
    /\ \A k \in Keys : rec.phases[k[1]] \in Done => k \in seen

\* state.json, the record it is a copy of and every copy on its way there are
\* truthful: an exit code, an interrupted step or a stale copy is never taken
\* for the target state.
RecordedDoneIsTrue ==
    /\ Truthful(mem, reached) /\ Truthful(disk, reached)
    /\ stage = "nodes" => \A n \in Nodes(phase) : Truthful(snap[n], reached)

\* A step changes the cluster only when everything it builds on has been
\* reached, whatever was skipped, resumed or re-run on the way there.
AppliedInOrder ==
    stage = "nodes" =>
      \A n \in Nodes(phase) : pc[n] = "apply" => Before(Key(n)) \subseteq reached

\* The failure an operator reads at phase level names a step that is recorded
\* as failed: it does not outlive the retry that fixed it.
FailedStepIsFailed ==
    \A rec \in {mem, disk} : \A p \in Phases :
      rec.failedStep[p] # NoStep => rec.steps[rec.failedStep[p]] = "failed"

\* A run that the stream calls completed has, for every step, an event in the
\* stream that says so: nothing was done off the record, in any attempt.
CompletedRunIsAudited == verdict = "ok" => audited = Keys

\* A run that the stream calls completed has a state.json that says the same,
\* before the last save as well as after it.
CompletedRunIsDurable ==
    verdict = "ok" => \A p \in Phases : disk.phases[p] \in Done

\* A run is called cancelled only when it was cancelled or a step outlived its
\* own timeout: the nodes a parallel phase cancels because one of them failed
\* never hide that failure.
SiblingNotBlamed == verdict = "EX-104" => cancelled \/ timedOut

\* A completed run started with --recheck has seen every target hold, whatever
\* had drifted before it; one-shot steps are not looked at again.
RecheckedRunHolds ==
    verdict = "ok" /\ recheck => Keys \ OneShot \subseteq satisfied \cup lost

\* A one-shot step that an earlier process began to apply is not applied again
\* by a later one.
OneShotNeverResumed ==
    stage = "nodes" =>
      \A n \in Nodes(phase) : pc[n] = "apply" => Key(n) \notin firedBefore

\* A phase that state.json calls finished stays finished, unless the run was
\* asked to recheck it.
DurablePhasesKept ==
    [][ \A p \in Phases :
          ~recheck /\ disk.phases[p] \in Done => disk'.phases[p] \in Done ]_vars

\* A step that state.json calls done stays done, unless the run was asked to
\* recheck it, or another node's stale copy is saved over it (a parallel phase).
DurableStepsKept ==
    [][ \A k \in Keys :
          ~Parallel(k[1]) /\ ~recheck /\ disk.steps[k] \in Done =>
            disk'.steps[k] \in Done ]_vars

\* Every process ends, cancelled, failed or complete: the main goroutine's wait
\* for every node of a parallel phase is over however many of them fail, are
\* cancelled for another's failure, or are still saving when they are.
EveryRunFinishes == (stage # "down") ~> (stage = "down")

\* Resuming converges: once the faults are over a run completes, or it stops
\* for a one-shot step that was left unfinished.
ResumeConverges ==
    <>( \/ verdict = "ok"
        \/ \E k \in OneShot : disk.steps[k] \in {"running", "failed"} )

\* The runner keeps the promise Rollout states.
Promise == INSTANCE Rollout WITH Targets <- Keys, complete <- (verdict = "ok")

ImplementsRollout == Promise!Spec

\* What the documentation says and the code does not do.

\* A run that is called cancelled was cancelled (EX-104, "The run was cancelled
\* before completing").
CancelledOnlyIfCancelled == verdict = "EX-104" => cancelled
=============================================================================
