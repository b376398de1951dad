------------------------------ MODULE Upgrade ------------------------------
(***************************************************************************)
(* malmok upgrade: the version move of a cluster (internal/upgrade), run   *)
(* and resumed as the engine runs and resumes a sequential phase.          *)
(*                                                                         *)
(* The nodes are numbered in the order they are moved, servers first.  On  *)
(* each of them a binary is installed, a process runs, and the API server  *)
(* says what it last heard of it: a version and whether it is Ready, which *)
(* lag behind the process.  A command measures the nodes, decides whether  *)
(* the move is legal, and takes the steps of each node in turn.  One       *)
(* process at a time, and one run directory: the one of the last new run.  *)
(*                                                                         *)
(* Engine models what happens around a step in full.  Here a settled step  *)
(* and its record are one action: a crash between them leaves what a crash *)
(* before them does, a target that holds and is not recorded.              *)
(***************************************************************************)
EXTENDS Naturals, Sequences

CONSTANTS
    ServerCount,    \* the servers are the first nodes
    AgentCount,     \* the agents are the others
    Minor,          \* the minor release of each version, oldest first
    FaultLimit      \* bound: how many faults a behaviour may contain

ASSUME ClusterAssumption == ServerCount \in Nat \ {0} /\ AgentCount \in Nat

ASSUME VersionAssumption ==
    /\ Minor \in Seq(Nat) /\ Minor # <<>>
    /\ \A v, w \in 1..Len(Minor) : v <= w => Minor[v] <= Minor[w]

ASSUME FaultAssumption == FaultLimit \in Nat

NodeCount == ServerCount + AgentCount
Nodes == 1..NodeCount
Servers == 1..ServerCount
Agents == Nodes \ Servers
Versions == 1..Len(Minor)
NoTarget == 0

VARIABLES
    binary,         \* per node: the version installed on it
    process,        \* ... the version of the process it runs
    current,        \* ... the process is younger than the binary
    service,        \* ... up, restarted (by a step), bounced (by itself)
    kubelet,        \* ... the version the API server reports
    ready,          \* ... the condition it reports
    sched,          \* ... open, cordoned, drained: cordoned with no pod left
    stage,          \* the command: idle, moving, completed
    to,             \* its target
    node, at,       \* the node being moved and the step it is at
    pc,             \* step, observe, apply, reobserve
    recorded,       \* the steps state.json calls done
    runTarget,      \* history: the target the run directory was made for
    mixed,          \* history: a run was resumed with another target
    abandoned,      \* history: an unfinished run was given up for another target
    stale,          \* history: a node was believed up that had not registered
    blind,          \* history: a check took a failed query for an answer
    inactive,       \* history: a restart's check found the unit not active
    faults          \* faults so far

machines == <<binary, process, current, service>>
reports == <<kubelet, ready>>
command == <<stage, to, node, at, pc>>
history == <<runTarget, mixed, abandoned, stale, blind, inactive>>
vars == <<machines, reports, sched, command, recorded, history, faults>>

Fault == faults < FaultLimit /\ faults' = faults + 1
NoFault == UNCHANGED faults

\* A cluster at rest: the servers on one version, the agents on one that does
\* not lead it.
Init ==
    /\ \E v, w \in Versions :
         /\ w <= v
         /\ kubelet = [n \in Nodes |-> IF n \in Servers THEN v ELSE w]
    /\ binary = kubelet /\ process = kubelet
    /\ current = [n \in Nodes |-> TRUE]
    /\ service = [n \in Nodes |-> "up"]
    /\ ready = [n \in Nodes |-> TRUE]
    /\ sched = [n \in Nodes |-> "open"]
    /\ stage = "idle" /\ to = NoTarget /\ node = 1 /\ at = 1 /\ pc = "step"
    /\ recorded = {}
    /\ runTarget = NoTarget /\ mixed = FALSE /\ abandoned = FALSE
    /\ stale = FALSE /\ blind = FALSE /\ inactive = FALSE /\ faults = 0

----------------------------------------------------------------------------
\* Read and Check: what the API server reports, and what follows from it.

\* Wrong: what an interrupted upgrade left to do is not looked at.
TargetIsNewer(t, low) == t > low

\* UP-002.  A target the servers are already on is accepted while a node is
\* behind it, or was left cordoned.
NotOlder(t, low) ==
    \/ t > low
    \/ t = low /\ \E n \in Nodes : kubelet[n] < t \/ sched[n] # "open"

\* Wrong: the newest server is taken for the control plane's level.
LevelOfNewest(low) ==
    (\E s \in Servers : kubelet[s] = low) /\ \A s \in Servers : kubelet[s] <= low

\* The control plane's level is its oldest server.
Level(low) ==
    (\E s \in Servers : kubelet[s] = low) /\ \A s \in Servers : kubelet[s] >= low

\* UP-101.
EveryNodeReady == \A n \in Nodes : ready[n]

\* Wrong: the target is compared with nothing but its minor release.
AllowedIfNear(t) ==
    \E low \in Versions : /\ Level(low) /\ EveryNodeReady
                         /\ Minor[t] <= Minor[low] + 1

\* The findings that would stop the upgrade, none of them: UP-002 to UP-005 and
\* UP-101.  What the artifacts and snapshots add (UP-006, UP-103) is left out.
Allowed(t) ==
    \E low \in Versions :
      /\ Level(low)
      /\ NotOlder(t, low)
      /\ Minor[t] <= Minor[low] + 1
      /\ \A n \in Nodes : kubelet[n] <= t
      /\ \A a \in Agents : \E s \in Servers : kubelet[a] <= kubelet[s]
      /\ EveryNodeReady

\* Wrong: the agents' phase comes first.
BeginWithAgents(t) ==
    stage' = "moving" /\ to' = t /\ node' = ServerCount + 1 /\ at' = 1 /\ pc' = "step"

Begin(t) == stage' = "moving" /\ to' = t /\ node' = 1 /\ at' = 1 /\ pc' = "step"

\* malmok upgrade --to t, in a new run directory.
NewRun(t) ==
    /\ stage = "idle" /\ Allowed(t)
    /\ Begin(t)
    /\ recorded' = {}
    /\ runTarget' = t
    /\ abandoned' = (abandoned \/ (to \notin {NoTarget, t}))
    /\ stale' = (stale \/ \E n \in Nodes : service[n] # "up")
    /\ NoFault
    /\ UNCHANGED <<machines, reports, sched, mixed, blind, inactive>>

\* malmok upgrade --to t --resume: nothing compares t with the run's target.
ResumeRun(t) ==
    /\ stage = "idle" /\ Allowed(t)
    /\ runTarget # NoTarget
    /\ Begin(t)
    /\ mixed' = (mixed \/ t # runTarget)
    /\ stale' = (stale \/ \E n \in Nodes : service[n] # "up")
    /\ NoFault
    /\ UNCHANGED <<machines, reports, sched, recorded, runTarget, abandoned, blind,
                   inactive>>

----------------------------------------------------------------------------
\* NodeSteps, and what each step checks.

\* Wrong: work is let back before the node is known to be up.
StepsWithoutWaiting ==
    IF NodeCount = 1 THEN <<"install", "restart", "upgraded">>
                     ELSE <<"drain", "install", "restart", "uncordon">>

\* Wrong: nobody lets work back.
StepsLeavingCordoned ==
    IF NodeCount = 1 THEN <<"install", "restart", "upgraded">>
                     ELSE <<"drain", "install", "restart", "upgraded">>

\* With a single node there is nowhere to drain to.
Steps == IF NodeCount = 1
           THEN <<"install", "restart", "upgraded">>
           ELSE <<"drain", "install", "restart", "upgraded", "uncordon">>

Step == Steps[at]

\* Wrong: a cordoned node is taken for a drained one.
DrainedIfCordoned == sched[node] # "open" \/ kubelet[node] = to

\* Wrong: a node that was moved before is drained again.
DrainedAgain == sched[node] = "drained"

\* A node the cluster reports on the target needs no drain.
Drained == sched[node] = "drained" \/ kubelet[node] = to

\* A step's Check, for as long as its queries are answered.  The unit's start is
\* compared with the binary's change time; see ObserveMissing for a unit that is
\* not active just then.
Holds ==
    \/ Step = "drain" /\ Drained
    \/ Step = "install" /\ binary[node] = to
    \/ Step = "restart" /\ current[node]
    \/ Step = "upgraded" /\ kubelet[node] = to /\ ready[node]
    \/ Step = "uncordon" /\ sched[node] = "open"

\* The last query of a Check fails, and its silence is an answer: no pod is
\* left, or nothing says unschedulable.  (The restart's look at the binary is a
\* local one, at a file that the install's has just found.)
HoldsBlindly ==
    /\ ~Holds
    /\ \/ Step = "drain" /\ sched[node] = "cordoned"
       \/ Step = "uncordon"

----------------------------------------------------------------------------
\* The run.

Key == <<node, Steps[at]>>
Moving(label) == stage = "moving" /\ pc = label

\* A recorded step is skipped, any other is looked at.  A phase recorded as
\* done is skipped as a whole, which comes to the same: its steps are recorded.
NextStep ==
    /\ Moving("step") /\ node \in Nodes /\ at <= Len(Steps)
    /\ IF Key \in recorded THEN at' = at + 1 /\ UNCHANGED pc
                           ELSE pc' = "observe" /\ UNCHANGED at
    /\ NoFault
    /\ UNCHANGED <<machines, reports, sched, stage, to, node, recorded, history>>

\* Wrong: the next node begins before its first step.
NextNodeFromZero ==
    /\ Moving("step") /\ node \in Nodes /\ at > Len(Steps)
    /\ node' = node + 1 /\ at' = 0
    /\ NoFault
    /\ UNCHANGED <<machines, reports, sched, stage, to, pc, recorded, history>>

NextNode ==
    /\ Moving("step") /\ node \in Nodes /\ at > Len(Steps)
    /\ node' = node + 1 /\ at' = 1
    /\ NoFault
    /\ UNCHANGED <<machines, reports, sched, stage, to, pc, recorded, history>>

\* Run returns nil; the command says the cluster is on the target.
Complete ==
    /\ Moving("step") /\ node \notin Nodes
    /\ stage' = "completed"
    /\ NoFault
    /\ UNCHANGED <<machines, reports, sched, to, node, at, pc, recorded, history>>

End == stage' = "idle" /\ node' = 1 /\ at' = 1 /\ pc' = "step"

\* The command ends.
Return ==
    /\ stage = "completed"
    /\ End
    /\ to' = NoTarget
    /\ NoFault
    /\ UNCHANGED <<machines, reports, sched, recorded, history>>

\* Observe, before Apply and after it.  What holds is recorded.
Observe ==
    /\ Moving("observe") \/ Moving("reobserve")
    /\ \/ Holds /\ NoFault /\ UNCHANGED blind
       \/ HoldsBlindly /\ Fault /\ blind' = TRUE
    /\ recorded' = recorded \cup {Key}
    /\ stale' = (stale \/ (Step = "upgraded" /\ service[node] # "up"))
    /\ pc' = "step" /\ at' = at + 1
    /\ UNCHANGED <<machines, reports, sched, stage, to, node, runTarget, mixed,
                   abandoned, inactive>>

\* The Check fails: because the step's state is not there, because the unit is
\* not active at that moment, or because a query failed and its silence is no
\* answer (the version a drain asks for first, the installed binary's).
ObserveMissing ==
    /\ Moving("observe")
    /\ \/ ~Holds /\ NoFault /\ UNCHANGED <<blind, inactive>>
       \/ /\ Step = "restart" /\ service[node] # "up"
          /\ inactive' = TRUE /\ NoFault /\ UNCHANGED blind
       \/ Holds /\ Fault /\ blind' = TRUE /\ UNCHANGED inactive
    /\ pc' = "apply"
    /\ UNCHANGED <<machines, reports, sched, stage, to, node, at, recorded,
                   runTarget, mixed, abandoned, stale>>

\* kubectl drain, in two moves.
Drain ==
    /\ Moving("apply") /\ Step = "drain"
    /\ sched' = [sched EXCEPT ![node] = IF @ = "open" THEN "cordoned" ELSE "drained"]
    /\ pc' = IF sched[node] = "open" THEN "apply" ELSE "reobserve"
    /\ NoFault
    /\ UNCHANGED <<machines, reports, stage, to, node, at, recorded, history>>

Install ==
    /\ Moving("apply") /\ Step = "install"
    /\ binary' = [binary EXCEPT ![node] = to]
    /\ current' = [current EXCEPT ![node] = FALSE]
    /\ pc' = "reobserve"
    /\ NoFault
    /\ UNCHANGED <<process, service, reports, sched, stage, to, node, at, recorded,
                   history>>

\* systemctl restart: the new process has not registered yet.
Restart ==
    /\ Moving("apply") /\ Step = "restart"
    /\ process' = [process EXCEPT ![node] = binary[node]]
    /\ current' = [current EXCEPT ![node] = TRUE]
    /\ service' = [service EXCEPT ![node] = "restarted"]
    /\ pc' = "reobserve"
    /\ NoFault
    /\ UNCHANGED <<binary, reports, sched, stage, to, node, at, recorded, history>>

\* The wait for the control plane to agree.
Await ==
    /\ Moving("apply") /\ Step = "upgraded" /\ Holds
    /\ pc' = "reobserve"
    /\ NoFault
    /\ UNCHANGED <<machines, reports, sched, stage, to, node, at, recorded, history>>

Uncordon ==
    /\ Moving("apply") /\ Step = "uncordon"
    /\ sched' = [sched EXCEPT ![node] = "open"]
    /\ pc' = "reobserve"
    /\ NoFault
    /\ UNCHANGED <<machines, reports, stage, to, node, at, recorded, history>>

\* A check or a command fails, and with it the run: only the install and the
\* uncordon are tried again.  A wait for a version the node was not given comes
\* to its end by itself.
StepFails ==
    /\ stage = "moving" /\ pc # "step"
    /\ IF Step = "upgraded" /\ process[node] # to THEN NoFault ELSE Fault
    /\ \/ End
       \/ /\ Step \in {"install", "uncordon"} /\ pc # "observe"
          /\ pc' = "observe" /\ UNCHANGED <<stage, node, at>>
    /\ UNCHANGED <<machines, reports, sched, to, recorded, history>>

Crash ==
    /\ stage = "moving"
    /\ Fault
    /\ End
    /\ UNCHANGED <<machines, reports, sched, to, recorded, history>>

Apply == Drain \/ Install \/ Restart \/ Await \/ Uncordon

RunStep == NextStep \/ NextNode \/ Complete \/ Return \/ Observe
             \/ ObserveMissing \/ Apply \/ StepFails

----------------------------------------------------------------------------
\* The cluster.

\* The kubelet comes up and registers.
Register(n) ==
    /\ service[n] # "up"
    /\ service' = [service EXCEPT ![n] = "up"]
    /\ kubelet' = [kubelet EXCEPT ![n] = process[n]]
    /\ ready' = [ready EXCEPT ![n] = TRUE]
    /\ NoFault
    /\ UNCHANGED <<binary, process, current, sched, command, recorded, history>>

\* The control plane notices, after a while, that a kubelet is silent.
Notice(n) ==
    /\ service[n] # "up" /\ ready[n]
    /\ ready' = [ready EXCEPT ![n] = FALSE]
    /\ NoFault
    /\ UNCHANGED <<machines, kubelet, sched, command, recorded, history>>

\* A node reboots, or its service restarts, by itself.
Bounce(n) ==
    /\ service[n] = "up"
    /\ Fault
    /\ service' = [service EXCEPT ![n] = "bounced"]
    /\ process' = [process EXCEPT ![n] = binary[n]]
    /\ current' = [current EXCEPT ![n] = TRUE]
    /\ UNCHANGED <<binary, reports, sched, command, recorded, history>>

Next ==
    \/ \E t \in Versions : NewRun(t) \/ ResumeRun(t)
    \/ RunStep
    \/ Crash
    \/ \E n \in Nodes : Register(n) \/ Notice(n) \/ Bounce(n)

Spec == Init /\ [][Next]_vars

\* The operator gives an interrupted command again, as the guide says; every
\* command on a node ends, and a kubelet that was started registers.
Fairness ==
    /\ \A t \in Versions : WF_vars(to = t /\ NewRun(t))
    /\ WF_vars(RunStep)
    /\ \A n \in Nodes : WF_vars(Register(n))

FairSpec == Spec /\ Fairness

----------------------------------------------------------------------------
\* Correctness.

\* The types of the variables.
TypeOK ==
    /\ binary \in [Nodes -> Versions] /\ process \in [Nodes -> Versions]
    /\ current \in [Nodes -> BOOLEAN]
    /\ service \in [Nodes -> {"up", "restarted", "bounced"}]
    /\ kubelet \in [Nodes -> Versions] /\ ready \in [Nodes -> BOOLEAN]
    /\ sched \in [Nodes -> {"open", "cordoned", "drained"}]
    /\ stage \in {"idle", "moving", "completed"}
    /\ to \in Versions \cup {NoTarget} /\ (stage # "idle" => to # NoTarget)
    /\ node \in 1..(NodeCount + 1) /\ at \in 1..(Len(Steps) + 1)
    /\ pc \in {"step", "observe", "apply", "reobserve"}
    /\ pc # "step" => node \in Nodes /\ at <= Len(Steps)
    /\ recorded \subseteq Nodes \X {Steps[i] : i \in 1..Len(Steps)}
    /\ runTarget \in Versions \cup {NoTarget}
    /\ mixed \in BOOLEAN /\ abandoned \in BOOLEAN
    /\ stale \in BOOLEAN /\ blind \in BOOLEAN /\ inactive \in BOOLEAN
    /\ faults \in 0..FaultLimit

\* When a step restarts the unit of a node, nothing is left on it, in whatever
\* run it was drained: except for a node that had moved before, whose unit was
\* found inactive, or after a failed query was believed.
DrainedBeforeRestart ==
    NodeCount > 1 /\ ~mixed /\ ~blind /\ Moving("apply") /\ Step = "restart" =>
      sched[node] = "drained" \/ (inactive /\ kubelet[node] = to)

\* At most one node is kept from work, over every interruption, as long as the
\* operator finishes one move before asking for another and no failed query was
\* taken for an answer: a drain that could not read the version of a node that
\* has moved drains it beside the interrupted one.
OneNodeOut ==
    ~mixed /\ ~abandoned /\ ~blind =>
      \A m, n \in Nodes : sched[m] # "open" /\ sched[n] # "open" => m = n

\* No step restarts a node while one that a step restarted has not come back,
\* unless the API server had yet to notice that it went.
OneNodeDown ==
    ~stale => \A m, n \in Nodes :
                service[m] = "restarted" /\ service[n] = "restarted" => m = n

\* A kubelet never leads its API server, in any interruption of a move, unless
\* a run is resumed with a target that is not its own.
AgentsFollow ==
    ~mixed => \A a \in Agents : \A s \in Servers : process[a] <= process[s]

\* The control plane moves one minor version at a time: two of its members are
\* never further apart, whatever was interrupted, repeated or given up, unless a
\* run is resumed with a target that is not its own.
ServersStayTogether ==
    ~mixed => \A r, s \in Servers : Minor[process[r]] <= Minor[process[s]] + 1

\* No process is replaced by an older one, as long as the operator finishes one
\* move before asking for another.
NoDowngrade ==
    [][ ~mixed /\ ~abandoned => \A n \in Nodes : process'[n] >= process[n] ]_vars

\* When the command says that the cluster is on the target, every node is, and
\* every node takes work.
CompletedIsMoved ==
    stage = "completed" /\ ~mixed /\ ~blind =>
      \A n \in Nodes : process[n] = to /\ sched[n] = "open"

Finished == \A n \in Nodes : kubelet[n] = runTarget /\ sched[n] = "open"

\* Wherever a move was interrupted, the same command is accepted again once
\* the nodes are up, until there is nothing left to do.
CanBeFinished ==
    stage = "idle" /\ runTarget # NoTarget /\ ~mixed /\ ~abandoned
      /\ EveryNodeReady /\ ~Finished => Allowed(runTarget)

\* A move that was begun is brought to its end by giving the same command.
MoveEnds ==
    <>[](runTarget # NoTarget => Finished \/ mixed \/ abandoned \/ blind)

\* What the documentation says and the code does not do.

\* "A kubelet must never lead its API server" (malmok upgrade), whatever
\* commands the tool accepts.
AgentsNeverLead == \A a \in Agents : \A s \in Servers : process[a] <= process[s]
=============================================================================
