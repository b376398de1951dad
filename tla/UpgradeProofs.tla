---------------------------- MODULE UpgradeProofs ----------------------------
(***************************************************************************)
(* Proofs about Upgrade, for every number of servers and agents, every     *)
(* list of versions and every number of faults: first what the move keeps  *)
(* of versions, restarts and reports, then what is promised of the nodes   *)
(* being moved.  A node is drained before its unit restarts, one node at a *)
(* time is out or down, no process goes back, and a move that was          *)
(* interrupted can be asked for again.                                     *)
(***************************************************************************)
EXTENDS Upgrade, TLAPS

\* What is used of the steps of a node: there are some, a node is restarted
\* after an install, reported after a restart, and its last report is waited for.
LEMMA StepsInOrder ==
    /\ Len(Steps) \in Nat /\ Len(Steps) >= 3
    /\ \A i \in 1..Len(Steps) :
         /\ Steps[i] = "restart" => \E j \in 1..(i - 1) : Steps[j] = "install"
         /\ Steps[i] = "upgraded" => \E j \in 1..(i - 1) : Steps[j] = "restart"
    /\ \E i \in 1..Len(Steps) : Steps[i] = "upgraded"
<1>1. CASE NodeCount = 1
  <2>1. Steps = <<"install", "restart", "upgraded">>
    BY <1>1 DEF Steps
  <2> QED
    BY <2>1
<1>2. CASE NodeCount # 1
  <2>1. Steps = <<"drain", "install", "restart", "upgraded", "uncordon">>
    BY <1>2 DEF Steps
  <2> QED
    BY <2>1
<1> QED
  BY <1>1, <1>2

----------------------------------------------------------------------------
\* Types.

\* The first states are well typed.
LEMMA TypeInit == Init => TypeOK
<1> USE ClusterAssumption, VersionAssumption, FaultAssumption
<1> SUFFICES ASSUME Init PROVE TypeOK
  OBVIOUS
<1>1. 1 \in Versions /\ Len(Minor) \in Nat
  BY DEF Versions
<1>2. PICK v, w \in Versions : kubelet = [n \in Nodes |-> IF n \in Servers THEN v ELSE w]
  BY DEF Init
<1>3. kubelet \in [Nodes -> Versions]
  BY <1>2
<1>4. /\ service \in [Nodes -> {"up", "restarted", "bounced"}]
      /\ sched \in [Nodes -> {"open", "cordoned", "drained"}]
      /\ current \in [Nodes -> BOOLEAN] /\ ready \in [Nodes -> BOOLEAN]
  BY DEF Init
<1>5. /\ node \in 1..(NodeCount + 1) /\ at \in 1..(Len(Steps) + 1) /\ faults \in 0..FaultLimit
      /\ recorded = {} /\ to = NoTarget /\ runTarget = NoTarget /\ stage = "idle" /\ pc = "step"
  BY StepsInOrder DEF Init, NodeCount
<1>6. /\ mixed \in BOOLEAN /\ abandoned \in BOOLEAN /\ stale \in BOOLEAN /\ blind \in BOOLEAN
      /\ inactive \in BOOLEAN /\ binary = kubelet /\ process = kubelet
  BY DEF Init
<1> QED
  BY <1>3, <1>4, <1>5, <1>6 DEF TypeOK

\* Every step keeps the types.
LEMMA TypeStep == TypeOK /\ [Next]_vars => TypeOK'
<1> USE ClusterAssumption, VersionAssumption, FaultAssumption, StepsInOrder
<1> SUFFICES ASSUME TypeOK, [Next]_vars PROVE TypeOK'
  OBVIOUS
<1> USE DEF TypeOK, machines, reports, history, Fault, NoFault
<1>1. ASSUME NEW t \in Versions, NewRun(t) PROVE TypeOK'
  <2>1. abandoned' \in BOOLEAN /\ stale' \in BOOLEAN
    BY <1>1, Zenon DEF NewRun
  <2>2. t # NoTarget
    BY DEF Versions, NoTarget
  <2> QED
    BY <1>1, <2>1, <2>2 DEF NewRun, Begin, Nodes, NodeCount
<1>2. ASSUME NEW t \in Versions, ResumeRun(t) PROVE TypeOK'
  <2>1. mixed' \in BOOLEAN /\ stale' \in BOOLEAN
    BY <1>2, Zenon DEF ResumeRun
  <2>2. t # NoTarget
    BY DEF Versions, NoTarget
  <2> QED
    BY <1>2, <2>1, <2>2 DEF ResumeRun, Begin, Nodes, NodeCount
<1>3. CASE NextStep
  <2>1. node \in Nodes /\ at \in Nat /\ at <= Len(Steps)
    BY <1>3 DEF NextStep, Moving
  <2>2. CASE at' = at + 1 /\ UNCHANGED pc
    BY <1>3, <2>1, <2>2 DEF NextStep, Moving
  <2>3. CASE pc' = "observe" /\ UNCHANGED at
    BY <1>3, <2>1, <2>3 DEF NextStep, Moving
  <2> QED
    BY <1>3, <2>2, <2>3 DEF NextStep
<1>4. CASE NextNode
  BY <1>4 DEF NextNode, Moving, Nodes, NodeCount
<1>5. CASE Complete
  BY <1>5 DEF Complete, Moving
<1>6. CASE Return
  BY <1>6 DEF Return, End, Nodes, NodeCount
<1>7. CASE Observe
  <2>1. node \in Nodes /\ at \in 1..Len(Steps) /\ Key \in Nodes \X {Steps[i] : i \in 1..Len(Steps)}
    BY <1>7 DEF Observe, Moving, Key
  <2>2. stale' \in BOOLEAN /\ blind' \in BOOLEAN
    BY <1>7, Zenon DEF Observe
  <2>3. faults' \in 0..FaultLimit
    BY <1>7 DEF Observe
  <2> QED
    BY <1>7, <2>1, <2>2, <2>3 DEF Observe, Moving
<1>8. CASE ObserveMissing
  <2>1. blind' \in BOOLEAN /\ inactive' \in BOOLEAN
    BY <1>8, Zenon DEF ObserveMissing
  <2>2. faults' \in 0..FaultLimit
    BY <1>8 DEF ObserveMissing
  <2> QED
    BY <1>8, <2>1, <2>2 DEF ObserveMissing, Moving
<1>9. CASE Drain
  BY <1>9 DEF Drain, Moving
<1>10. CASE Install
  BY <1>10 DEF Install, Moving
<1>11. CASE Restart
  BY <1>11 DEF Restart, Moving
<1>12. CASE Await
  BY <1>12 DEF Await, Moving
<1>13. CASE Uncordon
  BY <1>13 DEF Uncordon, Moving
<1>14. CASE StepFails
  <2>1. faults' \in 0..FaultLimit
    BY <1>14 DEF StepFails
  <2>2. CASE End
    BY <1>14, <2>1, <2>2 DEF StepFails, End, Nodes, NodeCount
  <2>3. CASE ~End
    <3>1. pc' = "observe" /\ UNCHANGED <<stage, node, at>> /\ pc # "step"
      BY <1>14, <2>3 DEF StepFails
    <3> QED
      BY <1>14, <2>1, <3>1 DEF StepFails
  <2> QED
    BY <2>2, <2>3
<1>15. CASE Crash
  BY <1>15 DEF Crash, End, Nodes, NodeCount
<1>16. ASSUME NEW n \in Nodes, Register(n) PROVE TypeOK'
  BY <1>16 DEF Register, command, Steps
<1>17. ASSUME NEW n \in Nodes, Notice(n) PROVE TypeOK'
  BY <1>17 DEF Notice, command, Steps
<1>18. ASSUME NEW n \in Nodes, Bounce(n) PROVE TypeOK'
  BY <1>18 DEF Bounce, command, Steps
<1>19. CASE UNCHANGED vars
  BY <1>19 DEF vars, command
<1> QED
  BY <1>1, <1>2, <1>3, <1>4, <1>5, <1>6, <1>7, <1>8, <1>9, <1>10, <1>11, <1>12, <1>13,
     <1>14, <1>15, <1>16, <1>17, <1>18, <1>19 DEF Next, RunStep, Apply

\* The variables of every behaviour of malmok upgrade keep their types; in
\* particular the command is never past the last step of a node or the last node.
THEOREM TypeCorrect == Spec => []TypeOK
  BY TypeInit, TypeStep, PTL DEF Spec

----------------------------------------------------------------------------
\* The invariant behind what a move keeps apart.  It speaks of behaviours in
\* which no run is resumed with another target: a run's record is then true of
\* the target it was made for.

\* A process as young as the binary runs it.
Fresh == \A n \in Nodes : current[n] => process[n] = binary[n]

\* A command moves the nodes to the target of its run.
OnTarget == stage # "idle" => to = runTarget

\* Where the command is: what is behind it is recorded, what it works at is not.
Place ==
    /\ \A m \in 1..(node - 1) : \A i \in 1..Len(Steps) : <<m, Steps[i]>> \in recorded
    /\ \A i \in 1..(at - 1) : <<node, Steps[i]>> \in recorded
    /\ pc # "step" => stage = "moving" /\ <<node, Steps[at]>> \notin recorded

Progress == OnTarget /\ Place

\* What a run recorded is true of its target, in the order of the steps.
Truthful ==
    \A n \in Nodes :
      /\ <<n, "install">> \in recorded => binary[n] = runTarget
      /\ <<n, "restart">> \in recorded => <<n, "install">> \in recorded /\ current[n]
      /\ <<n, "upgraded">> \in recorded =>
           <<n, "restart">> \in recorded /\ kubelet[n] = runTarget

\* Only the first node of the order is ever moved back.
Grown == \A n \in Nodes \ {1} : kubelet[n] <= process[n] /\ process[n] <= binary[n]

\* A node carries nothing newer than anything a node before it has.
Ordered ==
    \A m, n \in Nodes : m < n =>
      binary[n] <= binary[m] /\ binary[n] <= process[m] /\ binary[n] <= kubelet[m]

\* The other nodes are not past the target.
Bounded == runTarget # NoTarget => \A n \in Nodes \ {1} : binary[n] <= runTarget

\* Nothing the first server has, and no target, is more than a minor version
\* ahead of what the last server is reported to run.
Near ==
    ServerCount > 1 =>
      /\ Minor[binary[1]] <= Minor[kubelet[ServerCount]] + 1
      /\ Minor[process[1]] <= Minor[kubelet[ServerCount]] + 1
      /\ Minor[kubelet[1]] <= Minor[kubelet[ServerCount]] + 1
      /\ runTarget # NoTarget => Minor[runTarget] <= Minor[kubelet[ServerCount]] + 1

Apart == Progress /\ Truthful /\ Grown /\ Ordered /\ Bounded /\ Near

IInv == TypeOK /\ Fresh /\ (~mixed => Apart)

----------------------------------------------------------------------------
\* Versions are positive numbers, and a newer one has no older minor release.
LEMMA VersionFacts ==
    \A v, w \in Versions :
      /\ v \in Nat /\ v # NoTarget
      /\ Minor[v] \in Nat
      /\ v <= w => Minor[v] <= Minor[w]
  BY VersionAssumption DEF Versions, NoTarget

\* The first node is a server, and the servers are nodes.
LEMMA NodeFacts ==
    /\ 1 \in Nodes /\ ServerCount \in Nodes /\ Nodes \subseteq Nat /\ 1 \in Servers
    /\ Servers \subseteq Nodes /\ Agents \subseteq Nodes
    /\ \A s \in Servers : s <= ServerCount
    /\ \A a \in Agents : \A s \in Servers : s < a
  BY ClusterAssumption DEF Nodes, NodeCount, Servers, Agents

\* What a step leaves as it is when it touches neither machine nor record.
Quiet == UNCHANGED <<binary, process, current, kubelet, recorded, runTarget>>

\* Few steps touch a machine, a report or the record.
LEMMA StepKinds ==
    ASSUME [Next]_vars
    PROVE  \/ Install \/ Restart \/ Observe
           \/ \E n \in Nodes : Register(n) \/ Bounce(n)
           \/ \E t \in Versions : NewRun(t)
           \/ Quiet
<1> USE DEF Quiet, machines, reports, history
<1>1. ASSUME NEW t \in Versions, ResumeRun(t) PROVE Quiet
  BY <1>1 DEF ResumeRun
<1>2. CASE NextStep \/ NextNode \/ Complete
  BY <1>2 DEF NextStep, NextNode, Complete
<1>3. CASE Return \/ ObserveMissing \/ Drain
  BY <1>3 DEF Return, ObserveMissing, Drain
<1>4. CASE Await \/ Uncordon \/ StepFails \/ Crash
  BY <1>4 DEF Await, Uncordon, StepFails, Crash
<1>5. ASSUME NEW n \in Nodes, Notice(n) PROVE Quiet
  BY <1>5 DEF Notice
<1>6. CASE UNCHANGED vars
  BY <1>6 DEF vars
<1> QED
  BY <1>1, <1>2, <1>3, <1>4, <1>5, <1>6 DEF Next, RunStep, Apply

\* A run resumed with another target is never forgotten.
LEMMA MixedStays == TypeOK /\ [Next]_vars /\ ~mixed' => ~mixed
<1> SUFFICES ASSUME TypeOK, [Next]_vars PROVE mixed => mixed'
  OBVIOUS
<1> USE DEF history
<1>1. ASSUME NEW t \in Versions, NewRun(t) PROVE mixed => mixed'
  BY <1>1 DEF NewRun
<1>2. ASSUME NEW t \in Versions, ResumeRun(t) PROVE mixed => mixed'
  BY <1>2 DEF ResumeRun
<1>3. CASE NextStep \/ NextNode \/ Complete \/ Return \/ Observe \/ ObserveMissing
  BY <1>3 DEF NextStep, NextNode, Complete, Return, Observe, ObserveMissing
<1>4. CASE Apply
  BY <1>4 DEF Apply, Drain, Install, Restart, Await, Uncordon
<1>5. CASE StepFails \/ Crash
  BY <1>5 DEF StepFails, Crash
<1>6. ASSUME NEW n \in Nodes, Register(n) \/ Notice(n) \/ Bounce(n) PROVE mixed => mixed'
  BY <1>6 DEF Register, Notice, Bounce
<1>7. CASE UNCHANGED vars
  BY <1>7 DEF vars
<1> QED
  BY <1>1, <1>2, <1>3, <1>4, <1>5, <1>6, <1>7 DEF Next, RunStep

----------------------------------------------------------------------------
\* The invariant holds in the first states: each group of nodes has one version
\* and nothing is recorded.
LEMMA IInvInit == Init => IInv
<1> SUFFICES ASSUME Init PROVE IInv
  OBVIOUS
<1>1. PICK v, w \in Versions : /\ w <= v
                              /\ kubelet = [n \in Nodes |-> IF n \in Servers THEN v ELSE w]
  BY DEF Init
<1>2. binary = kubelet /\ process = kubelet /\ recorded = {} /\ runTarget = NoTarget
      /\ stage = "idle" /\ pc = "step" /\ node = 1 /\ at = 1
  BY DEF Init
<1>3. Fresh /\ Truthful /\ Bounded
  BY <1>2 DEF Fresh, Truthful, Bounded
<1>4. Progress
  BY <1>2 DEF Progress, OnTarget, Place
<1>5. \A n \in Nodes : kubelet[n] \in {v, w} /\ kubelet[n] \in Nat
  BY <1>1, VersionFacts
<1>6. Grown
  BY <1>2, <1>5 DEF Grown
<1>7. \A m, n \in Nodes : m < n => kubelet[n] <= kubelet[m]
  BY <1>1, VersionFacts, NodeFacts, ClusterAssumption DEF Servers, Nodes
<1>8. Ordered
  BY <1>2, <1>7 DEF Ordered
<1>9. kubelet[1] = v /\ kubelet[ServerCount] = v
  BY <1>1, NodeFacts, ClusterAssumption DEF Servers
<1>10. Near
  BY <1>2, <1>9, VersionFacts DEF Near
<1> QED
  BY TypeInit, <1>3, <1>4, <1>6, <1>8, <1>10 DEF IInv, Apart

\* A process as young as the binary is replaced by one as young, or by none.
LEMMA FreshStep == TypeOK /\ Fresh /\ [Next]_vars => Fresh'
<1> SUFFICES ASSUME TypeOK, Fresh, [Next]_vars PROVE Fresh'
  OBVIOUS
<1> USE DEF Fresh, TypeOK
<1>1. CASE Install
  BY <1>1 DEF Install
<1>2. CASE Restart
  BY <1>2 DEF Restart
<1>3. CASE Observe \/ Quiet
  BY <1>3 DEF Observe, Quiet, machines
<1>4. ASSUME NEW n \in Nodes, Register(n) \/ Bounce(n) PROVE Fresh'
  BY <1>4 DEF Register, Bounce
<1>5. ASSUME NEW t \in Versions, NewRun(t) PROVE Fresh'
  BY <1>5 DEF NewRun, machines
<1> QED
  BY <1>1, <1>2, <1>3, <1>4, <1>5, StepKinds

----------------------------------------------------------------------------
\* Each conjunct, one action at a time.

\* The command's place and the record advance together.
LEMMA PlaceStep == TypeOK /\ Place /\ [Next]_vars => Place'
<1> SUFFICES ASSUME TypeOK, Place, [Next]_vars PROVE Place'
  OBVIOUS
<1> USE DEF Place, TypeOK, history, NoFault
<1> USE StepsInOrder
<1>1. ASSUME NEW t \in Versions, NewRun(t) PROVE Place'
  BY <1>1 DEF NewRun, Begin
<1>2. ASSUME NEW t \in Versions, ResumeRun(t) PROVE Place'
  BY <1>2 DEF ResumeRun, Begin
<1>3. CASE NextStep
  <2>1. CASE Key \in recorded /\ at' = at + 1 /\ UNCHANGED pc
    <3>1. /\ stage' = stage /\ to' = to /\ node' = node /\ recorded' = recorded
          /\ runTarget' = runTarget /\ pc' = "step" /\ at' - 1 = at
      BY <1>3, <2>1 DEF NextStep, Moving
    <3>2. <<node, Steps[at]>> \in recorded /\ at \in Nat
      BY <2>1 DEF Key
    <3>3. \A i \in 1..at : i \in 1..(at - 1) \/ i = at
      BY <3>2
    <3> HIDE DEF TypeOK
    <3> QED
      BY <3>1, <3>2, <3>3
  <2>2. CASE Key \notin recorded /\ pc' = "observe" /\ UNCHANGED at
    BY <1>3, <2>2 DEF NextStep, Moving, Key
  <2> QED
    BY <1>3, <2>1, <2>2 DEF NextStep
<1>4. CASE NextNode
  <2>1. \A m \in 1..node : \A i \in 1..Len(Steps) : <<m, Steps[i]>> \in recorded
    BY <1>4 DEF NextNode, Moving
  <2> QED
    BY <1>4, <2>1 DEF NextNode, Moving
<1>5. CASE Complete
  BY <1>5 DEF Complete, Moving
<1>6. CASE Return
  BY <1>6 DEF Return, End
<1>7. CASE Observe
  <2>1. recorded' = recorded \cup {<<node, Steps[at]>>} /\ at' = at + 1 /\ pc' = "step"
    BY <1>7 DEF Observe, Key
  <2>2. UNCHANGED <<stage, to, node, runTarget>> /\ at' - 1 = at
    BY <1>7 DEF Observe
  <2>3. \A i \in 1..at : <<node, Steps[i]>> \in recorded'
    BY <2>1
  <2> HIDE DEF TypeOK
  <2> QED
    BY <2>1, <2>2, <2>3
<1>8. CASE ObserveMissing
  BY <1>8 DEF ObserveMissing, Moving
<1>9. CASE Apply
  <2>1. UNCHANGED <<stage, to, node, at, recorded, runTarget>> /\ stage = "moving" /\ pc = "apply"
    BY <1>9 DEF Apply, Drain, Install, Restart, Await, Uncordon, Moving
  <2> QED
    BY <2>1
<1>10. CASE StepFails
  <2>1. CASE End
    BY <1>10, <2>1 DEF StepFails, End
  <2>2. CASE ~End
    BY <1>10, <2>2 DEF StepFails
  <2> QED
    BY <2>1, <2>2
<1>11. CASE Crash
  BY <1>11 DEF Crash, End
<1>12. ASSUME NEW n \in Nodes, Register(n) \/ Notice(n) \/ Bounce(n) PROVE Place'
  BY <1>12 DEF Register, Notice, Bounce, command
<1>13. CASE UNCHANGED vars
  BY <1>13 DEF vars, command
<1> QED
  BY <1>1, <1>2, <1>3, <1>4, <1>5, <1>6, <1>7, <1>8, <1>9, <1>10, <1>11, <1>12, <1>13
     DEF Next, RunStep

\* A command keeps to the target of its run, unless it resumed another's.
LEMMA OnTargetStep == TypeOK /\ OnTarget /\ ~mixed' /\ [Next]_vars => OnTarget'
<1> SUFFICES ASSUME TypeOK, OnTarget, ~mixed', [Next]_vars PROVE OnTarget'
  OBVIOUS
<1> USE DEF OnTarget, history
<1>1. ASSUME NEW t \in Versions, NewRun(t) PROVE OnTarget'
  BY <1>1 DEF NewRun, Begin
<1>2. ASSUME NEW t \in Versions, ResumeRun(t) PROVE OnTarget'
  <2>1. t = runTarget
    BY <1>2, Zenon DEF ResumeRun
  <2> QED
    BY <1>2, <2>1 DEF ResumeRun, Begin
<1>3. CASE NextStep \/ NextNode \/ Complete \/ Observe \/ ObserveMissing
  BY <1>3 DEF NextStep, NextNode, Complete, Observe, ObserveMissing, Moving
<1>4. CASE Return \/ StepFails \/ Crash
  BY <1>4 DEF Return, StepFails, Crash, End
<1>5. CASE Apply
  BY <1>5 DEF Apply, Drain, Install, Restart, Await, Uncordon
<1>6. ASSUME NEW n \in Nodes, Register(n) \/ Notice(n) \/ Bounce(n) PROVE OnTarget'
  BY <1>6 DEF Register, Notice, Bounce, command
<1>7. CASE UNCHANGED vars
  BY <1>7 DEF vars, command
<1> QED
  BY <1>1, <1>2, <1>3, <1>4, <1>5, <1>6, <1>7 DEF Next, RunStep

\* So its place in the run and the target stay what the record is about.
LEMMA ProgressStep == TypeOK /\ Progress /\ ~mixed' /\ [Next]_vars => Progress'
  BY PlaceStep, OnTargetStep DEF Progress

\* When a binary is installed, the record says nothing of that node's binary,
\* and everything of the nodes before it.
LEMMA AtInstall ==
    ASSUME TypeOK, Fresh, Progress, Truthful, Install
    PROVE  /\ node \in Nodes /\ to = runTarget /\ runTarget \in Versions
           /\ <<node, "install">> \notin recorded
           /\ \A m \in Nodes : m < node =>
                kubelet[m] = to /\ process[m] = to /\ binary[m] = to
<1>1. node \in Nodes /\ at \in 1..Len(Steps) /\ Steps[at] = "install" /\ stage = "moving" /\ pc = "apply"
  BY StepsInOrder DEF Install, Moving, Step, TypeOK
<1>2. to = runTarget /\ runTarget \in Versions /\ <<node, "install">> \notin recorded
  BY <1>1 DEF Progress, OnTarget, Place, TypeOK
<1>3. ASSUME NEW m \in Nodes, m < node
      PROVE  kubelet[m] = to /\ process[m] = to /\ binary[m] = to
  <2>1. m \in 1..(node - 1)
    BY <1>1, <1>3, NodeFacts DEF Nodes
  <2>2. <<m, "upgraded">> \in recorded
    BY <2>1, StepsInOrder DEF Progress, OnTarget, Place
  <2> QED
    BY <1>2, <2>2 DEF Truthful, Fresh
<1> QED
  BY <1>1, <1>2, <1>3

\* What is recorded stays true.
LEMMA TruthfulStep ==
    TypeOK /\ Fresh /\ Progress /\ Truthful /\ [Next]_vars => Truthful'
<1> SUFFICES ASSUME TypeOK, Fresh, Progress, Truthful, [Next]_vars PROVE Truthful'
  OBVIOUS
<1>1. CASE Install
  <2>1. node \in Nodes /\ <<node, "install">> \notin recorded
    BY <1>1, AtInstall
  <2>2. UNCHANGED <<kubelet, recorded, runTarget>>
    BY <1>1 DEF Install, reports, history
  <2>3. \A n \in Nodes : n # node => binary'[n] = binary[n] /\ current'[n] = current[n]
    BY <1>1 DEF Install, TypeOK
  <2> QED
    BY <2>1, <2>2, <2>3 DEF Truthful
<1>2. CASE Restart
  <2>1. UNCHANGED <<binary, kubelet, recorded, runTarget>>
    BY <1>2 DEF Restart, reports, history
  <2>2. \A n \in Nodes : current[n] => current'[n]
    BY <1>2 DEF Restart, TypeOK
  <2> QED
    BY <2>1, <2>2 DEF Truthful
<1>3. CASE Observe
  <2>1. recorded' = recorded \cup {<<node, Steps[at]>>} /\ node \in Nodes /\ at \in 1..Len(Steps)
    BY <1>3, StepsInOrder DEF Observe, Key, Moving, TypeOK
  <2>2. UNCHANGED <<binary, current, kubelet, runTarget>> /\ to = runTarget
    BY <1>3 DEF Observe, machines, reports, Moving, Progress, OnTarget, Place
  <2>3. Steps[at] = "install" => binary[node] = runTarget
    BY <1>3, <2>2 DEF Observe, Holds, HoldsBlindly, Step
  <2>4. Steps[at] = "restart" => current[node] /\ <<node, "install">> \in recorded
    BY <1>3, <2>1, StepsInOrder DEF Observe, Holds, HoldsBlindly, Step, Progress, OnTarget, Place
  <2>5. Steps[at] = "upgraded" => kubelet[node] = runTarget /\ <<node, "restart">> \in recorded
    BY <1>3, <2>1, <2>2, StepsInOrder DEF Observe, Holds, HoldsBlindly, Step, Progress, OnTarget, Place
  <2> QED
    BY <2>1, <2>2, <2>3, <2>4, <2>5 DEF Truthful
<1>4. ASSUME NEW n \in Nodes, Register(n) PROVE Truthful'
  <2>1. UNCHANGED <<binary, current, recorded, runTarget>>
    BY <1>4 DEF Register, history
  <2>2. \A m \in Nodes : kubelet'[m] = IF m = n THEN process[m] ELSE kubelet[m]
    BY <1>4 DEF Register, TypeOK
  <2> QED
    BY <2>1, <2>2 DEF Truthful, Fresh
<1>5. ASSUME NEW n \in Nodes, Bounce(n) PROVE Truthful'
  <2>1. UNCHANGED <<binary, kubelet, recorded, runTarget>>
    BY <1>5 DEF Bounce, reports, history
  <2>2. \A m \in Nodes : current[m] => current'[m]
    BY <1>5 DEF Bounce, TypeOK
  <2> QED
    BY <2>1, <2>2 DEF Truthful
<1>6. ASSUME NEW t \in Versions, NewRun(t) PROVE Truthful'
  BY <1>6 DEF NewRun, Truthful
<1>7. CASE Quiet
  BY <1>7 DEF Quiet, Truthful
<1> QED
  BY <1>1, <1>2, <1>3, <1>4, <1>5, <1>6, <1>7, StepKinds

\* An install changes the binary of the node being moved, and no process.
LEMMA AfterInstall ==
    ASSUME TypeOK, Install
    PROVE  /\ \A n \in Nodes : binary'[n] = IF n = node THEN to ELSE binary[n]
           /\ UNCHANGED <<process, kubelet, runTarget>>
  BY DEF TypeOK, Install, reports, history

\* A restart gives a node, at most, the process of its binary.
LEMMA AfterRestart ==
    ASSUME TypeOK, Restart
    PROVE  /\ \A n \in Nodes : process'[n] \in {process[n], binary[n]}
           /\ UNCHANGED <<binary, kubelet, runTarget>>
  BY DEF TypeOK, Restart, reports, history

\* So does a node that restarts by itself.
LEMMA AfterBounce ==
    ASSUME TypeOK, NEW m \in Nodes, Bounce(m)
    PROVE  /\ \A n \in Nodes : process'[n] \in {process[n], binary[n]}
           /\ UNCHANGED <<binary, kubelet, runTarget>>
  BY DEF TypeOK, Bounce, reports, history

\* A node that registers is reported, at most, as its process.
LEMMA AfterRegister ==
    ASSUME TypeOK, NEW m \in Nodes, Register(m)
    PROVE  /\ \A n \in Nodes : kubelet'[n] \in {kubelet[n], process[n]}
           /\ UNCHANGED <<binary, process, runTarget>>
  BY DEF TypeOK, Register, history

\* A step other than an install and a new run gives a node, at most, the
\* process of its binary and the report of its process.
Follows ==
    /\ UNCHANGED <<binary, runTarget>>
    /\ \/ UNCHANGED kubelet /\ \A n \in Nodes : process'[n] \in {process[n], binary[n]}
       \/ UNCHANGED process /\ \A n \in Nodes : kubelet'[n] \in {kubelet[n], process[n]}

\* Every step is an install, the begin of a new run, or follows what was there.
LEMMA MachineKinds ==
    ASSUME TypeOK, [Next]_vars
    PROVE  Install \/ (\E t \in Versions : NewRun(t)) \/ Follows
<1>1. CASE Restart
  BY <1>1, AfterRestart DEF Follows
<1>2. ASSUME NEW n \in Nodes, Register(n) \/ Bounce(n) PROVE Follows
  BY <1>2, AfterRegister, AfterBounce DEF Follows
<1>3. CASE Observe \/ Quiet
  <2>1. UNCHANGED <<binary, process, kubelet, runTarget>>
    BY <1>3 DEF Observe, Quiet, machines, reports
  <2> QED
    BY <2>1 DEF Follows
<1> QED
  BY <1>1, <1>2, <1>3, StepKinds

\* The values are numbers.
LEMMA ValueFacts ==
    ASSUME TypeOK
    PROVE  \A n \in Nodes : /\ binary[n] \in Versions /\ binary[n] \in Nat
                            /\ process[n] \in Versions /\ process[n] \in Nat
                            /\ kubelet[n] \in Versions /\ kubelet[n] \in Nat
  BY VersionFacts DEF TypeOK

\* Grown, Ordered and Bounded need one another.
Shape == Grown /\ Ordered /\ Bounded

\* An install of the target on the next node keeps the shape.
LEMMA ShapeInstall ==
    ASSUME TypeOK, Fresh, Progress, Truthful, Shape, Install
    PROVE  Shape'
<1> USE ValueFacts, NodeFacts, VersionFacts
<1>1. /\ node \in Nodes /\ to = runTarget /\ to \in Versions /\ to \in Nat
      /\ \A m \in Nodes : m < node =>
           kubelet[m] = to /\ process[m] = to /\ binary[m] = to
  BY AtInstall
<1>2. /\ \A n \in Nodes : binary'[n] = IF n = node THEN to ELSE binary[n]
      /\ UNCHANGED <<process, kubelet, runTarget>>
  BY AfterInstall
<1>3. \A n \in Nodes \ {1} : binary[n] <= to
  BY <1>1 DEF Shape, Bounded
<1>4. Bounded'
  BY <1>1, <1>2, <1>3 DEF Bounded
<1>5. Grown'
  <2> SUFFICES ASSUME NEW n \in Nodes \ {1}
               PROVE  kubelet[n] <= process[n] /\ process[n] <= binary'[n]
    BY <1>2 DEF Grown
  <2>1. kubelet[n] <= process[n] /\ process[n] <= binary[n]
    BY DEF Shape, Grown
  <2> QED
    BY <1>1, <1>2, <1>3, <2>1
<1>6. Ordered'
  <2> SUFFICES ASSUME NEW m \in Nodes, NEW n \in Nodes, m < n
               PROVE  binary'[n] <= binary'[m] /\ binary'[n] <= process[m] /\ binary'[n] <= kubelet[m]
    BY <1>2 DEF Ordered
  <2>1. binary[n] <= binary[m] /\ binary[n] <= process[m] /\ binary[n] <= kubelet[m]
    BY DEF Shape, Ordered
  <2>2. n \in Nodes \ {1}
    BY DEF Nodes
  <2>3. CASE n = node
    BY <1>1, <1>2, <2>3
  <2>4. CASE m = node
    BY <1>1, <1>2, <1>3, <2>1, <2>2, <2>4
  <2>5. CASE n # node /\ m # node
    BY <1>2, <2>1, <2>5
  <2> QED
    BY <2>3, <2>4, <2>5
<1> QED
  BY <1>4, <1>5, <1>6 DEF Shape

\* What follows the binaries keeps the shape.
LEMMA ShapeFollows == TypeOK /\ Shape /\ Follows => Shape'
<1> SUFFICES ASSUME TypeOK, Shape, Follows PROVE Shape'
  OBVIOUS
<1> USE ValueFacts
<1>1. Bounded'
  BY DEF Shape, Follows, Bounded
<1>2. Grown'
  <2> SUFFICES ASSUME NEW n \in Nodes \ {1}
               PROVE  kubelet'[n] <= process'[n] /\ process'[n] <= binary[n]
    BY DEF Grown, Follows
  <2>1. kubelet[n] <= process[n] /\ process[n] <= binary[n]
    BY DEF Shape, Grown
  <2> QED
    BY <2>1 DEF Follows
<1>3. Ordered'
  <2> SUFFICES ASSUME NEW m \in Nodes, NEW n \in Nodes, m < n
               PROVE  binary[n] <= binary[m] /\ binary[n] <= process'[m] /\ binary[n] <= kubelet'[m]
    BY DEF Ordered, Follows
  <2>1. binary[n] <= binary[m] /\ binary[n] <= process[m] /\ binary[n] <= kubelet[m]
    BY DEF Shape, Ordered
  <2> QED
    BY <2>1 DEF Follows
<1> QED
  BY <1>1, <1>2, <1>3 DEF Shape

\* A new run is accepted only for a target that no node is past.
LEMMA ShapeNewRun ==
    ASSUME TypeOK, Shape, NEW t \in Versions, NewRun(t)
    PROVE  Shape'
<1>1. UNCHANGED <<binary, process, kubelet>> /\ runTarget' = t /\ Allowed(t)
  BY DEF NewRun, machines, reports
<1>2. kubelet[1] <= t
  BY <1>1, NodeFacts DEF Allowed
<1>3. \A n \in Nodes \ {1} : binary[n] <= kubelet[1]
  BY NodeFacts DEF Shape, Ordered, Nodes
<1>4. Bounded'
  BY <1>1, <1>2, <1>3, ValueFacts, VersionFacts, NodeFacts DEF Bounded
<1> QED
  BY <1>1, <1>4 DEF Shape, Grown, Ordered

\* Nothing anywhere is a minor version ahead of the last server's report by more
\* than one, as long as that is so of the first server's.
LEMMA NearStep ==
    ASSUME TypeOK, Fresh, Progress, Truthful, Shape, Near, [Next]_vars
    PROVE  Near'
<1> USE ValueFacts, NodeFacts, VersionFacts
<1> DEFINE Last == ServerCount
<1> SUFFICES ASSUME Last > 1 PROVE Near'
  BY DEF Near
<1>1. /\ Minor[binary[1]] <= Minor[kubelet[Last]] + 1
      /\ Minor[process[1]] <= Minor[kubelet[Last]] + 1
      /\ Minor[kubelet[1]] <= Minor[kubelet[Last]] + 1
      /\ runTarget # NoTarget => Minor[runTarget] <= Minor[kubelet[Last]] + 1
  BY DEF Near
<1>2. kubelet[Last] <= process[Last] /\ Minor[kubelet[Last]] <= Minor[process[Last]]
  BY DEF Shape, Grown
<1>3. CASE Install
  <2>1. to = runTarget /\ to \in Versions
    BY <1>3, AtInstall
  <2>2. binary'[1] \in {to, binary[1]} /\ UNCHANGED <<process, kubelet, runTarget>>
    BY <1>3, AfterInstall
  <2> QED
    BY <1>1, <2>1, <2>2 DEF Near
<1>4. ASSUME NEW t \in Versions, NewRun(t) PROVE Near'
  <2>1. UNCHANGED <<binary, process, kubelet>> /\ runTarget' = t /\ Allowed(t)
    BY <1>4 DEF NewRun, machines, reports
  <2>2. PICK low \in Versions : Level(low) /\ Minor[t] <= Minor[low] + 1
    BY <2>1 DEF Allowed
  <2>3. low <= kubelet[Last] /\ Minor[low] <= Minor[kubelet[Last]]
    BY <2>2, ClusterAssumption DEF Level, Servers
  <2>4. Minor[t] <= Minor[kubelet[Last]] + 1
    BY <2>2, <2>3
  <2> QED
    BY <1>1, <2>1, <2>4 DEF Near
<1>5. CASE Follows
  <2>1. UNCHANGED <<binary, runTarget>>
    BY <1>5 DEF Follows
  <2>2. /\ process'[1] \in {process[1], binary[1]}
        /\ kubelet'[1] \in {kubelet[1], process[1]}
        /\ kubelet'[Last] \in {kubelet[Last], process[Last]}
    BY <1>5 DEF Follows
  <2>3. Minor[kubelet'[Last]] \in Nat /\ Minor[kubelet[Last]] <= Minor[kubelet'[Last]]
    BY <1>2, <2>2
  <2>4. /\ Minor[binary[1]] \in Nat /\ Minor[process'[1]] \in Nat /\ Minor[kubelet'[1]] \in Nat
        /\ Minor[kubelet[Last]] \in Nat
        /\ Minor[process'[1]] <= Minor[kubelet[Last]] + 1
        /\ Minor[kubelet'[1]] <= Minor[kubelet[Last]] + 1
    BY <1>1, <2>2
  <2>5. runTarget # NoTarget => Minor[runTarget] \in Nat
    BY DEF TypeOK
  <2> QED
    BY <1>1, <2>1, <2>3, <2>4, <2>5 DEF Near
<1> QED
  BY <1>3, <1>4, <1>5, MachineKinds

----------------------------------------------------------------------------
\* The invariant is inductive.
LEMMA IInvStep == IInv /\ [Next]_vars => IInv'
<1> SUFFICES ASSUME IInv, [Next]_vars PROVE IInv'
  OBVIOUS
<1>1. TypeOK /\ Fresh /\ TypeOK' /\ Fresh'
  BY TypeStep, FreshStep DEF IInv
<1>2. ASSUME ~mixed' PROVE Apart'
  <2>1. Progress /\ Truthful /\ Shape /\ Near
    BY <1>1, <1>2, MixedStays DEF IInv, Apart, Shape
  <2>2. Progress' /\ Truthful' /\ Near'
    BY <1>1, <1>2, <2>1, ProgressStep, TruthfulStep, NearStep
  <2>3. Shape'
    BY <1>1, <2>1, MachineKinds, ShapeInstall, ShapeNewRun, ShapeFollows
  <2> QED
    BY <2>2, <2>3 DEF Apart, Shape
<1> QED
  BY <1>1, <1>2 DEF IInv

\* IInv is an invariant.
THEOREM Inductive == Spec => []IInv
  BY IInvInit, IInvStep, PTL DEF Spec

\* No agent runs a process newer than a server's, in any interruption of any
\* sequence of moves, as long as no run is resumed with another's target.
THEOREM AgentsStayBehind == Spec => []AgentsFollow
<1>1. IInv => AgentsFollow
  <2> SUFFICES ASSUME IInv, ~mixed, NEW a \in Agents, NEW s \in Servers
               PROVE  process[a] <= process[s]
    BY DEF AgentsFollow
  <2>1. a \in Nodes \ {1} /\ s \in Nodes /\ s < a
    BY NodeFacts
  <2>2. process[a] <= binary[a] /\ binary[a] <= process[s]
    BY <2>1 DEF IInv, Apart, Grown, Ordered
  <2> QED
    BY <2>1, <2>2, ValueFacts DEF IInv
<1> QED
  BY <1>1, Inductive, PTL

\* No two servers run processes more than a minor version apart, in any
\* interruption of any sequence of moves, as long as no run is resumed with
\* another's target.
THEOREM ControlPlaneTogether == Spec => []ServersStayTogether
<1>1. IInv => ServersStayTogether
  <2> SUFFICES ASSUME IInv, ~mixed, NEW r \in Servers, NEW s \in Servers
               PROVE  Minor[process[r]] <= Minor[process[s]] + 1
    BY DEF ServersStayTogether
  <2> USE ValueFacts, VersionFacts, NodeFacts
  <2> DEFINE Last == ServerCount
  <2>1. TypeOK /\ Grown /\ Ordered /\ Near
    BY DEF IInv, Apart
  <2>2. r \in Nodes /\ s \in Nodes /\ Last \in Nodes
    OBVIOUS
  <2>3. CASE Last = 1
    BY <2>1, <2>2, <2>3, ClusterAssumption DEF Servers
  <2>4. CASE Last > 1
    <3>1. Minor[process[r]] <= Minor[kubelet[Last]] + 1
      <4>1. CASE r = 1
        BY <2>1, <2>4, <4>1 DEF Near
      <4>2. CASE r # 1
        <5>1. process[r] <= kubelet[1]
          BY <2>1, <2>2, <4>2 DEF Grown, Ordered, Nodes
        <5>2. Minor[process[r]] <= Minor[kubelet[1]]
          BY <2>1, <2>2, <5>1
        <5> QED
          BY <2>1, <2>2, <2>4, <5>2 DEF Near
      <4> QED
        BY <4>1, <4>2
    <3>2. kubelet[Last] <= process[s]
      <4>1. kubelet[Last] <= process[Last] /\ process[Last] <= binary[Last]
        BY <2>1, <2>4 DEF Grown
      <4>2. s = Last \/ binary[Last] <= process[s]
        BY <2>1, <2>2 DEF Ordered, Nodes
      <4> QED
        BY <2>1, <2>2, <4>1, <4>2
    <3>3. Minor[kubelet[Last]] <= Minor[process[s]]
      BY <2>1, <2>2, <3>2
    <3> QED
      BY <2>1, <2>2, <3>1, <3>3
  <2> QED
    BY <2>3, <2>4, ClusterAssumption
<1> QED
  BY <1>1, Inductive, PTL

----------------------------------------------------------------------------
\* The success of a command.

\* A cordon is lifted after the drain that made it, on every node of a cluster
\* with somewhere to drain to, and made on no other.
LEMMA CordonSteps ==
    /\ \A i \in 1..Len(Steps) :
         /\ Steps[i] = "uncordon" => \E j \in 1..(i - 1) : Steps[j] = "drain"
         /\ Steps[i] = "drain" => NodeCount # 1
    /\ NodeCount # 1 => \E i \in 1..Len(Steps) : Steps[i] = "uncordon"
<1>1. CASE NodeCount = 1
  <2>1. Steps = <<"install", "restart", "upgraded">>
    BY <1>1 DEF Steps
  <2> QED
    BY <1>1, <2>1
<1>2. CASE NodeCount # 1
  <2>1. Steps = <<"drain", "install", "restart", "upgraded", "uncordon">>
    BY <1>2 DEF Steps
  <2> QED
    BY <1>2, <2>1
<1> QED
  BY <1>1, <1>2

\* A command that has completed is past the last node.
Past == stage = "completed" => node = NodeCount + 1

\* A cordon recorded as lifted is lifted, and a lone node has none.
Lifted ==
    \A n \in Nodes :
      /\ <<n, "uncordon">> \in recorded => <<n, "drain">> \in recorded /\ sched[n] = "open"
      /\ NodeCount = 1 => sched[n] = "open"

CInv == Past /\ (~mixed /\ ~blind => Lifted)

\* The first states have no cordon.
LEMMA CInvInit == Init => CInv
  BY DEF Init, CInv, Past, Lifted

\* A command completes only past the last node.
LEMMA PastStep == TypeOK /\ Past /\ [Next]_vars => Past'
<1> SUFFICES ASSUME TypeOK, Past, [Next]_vars PROVE Past'
  OBVIOUS
<1> USE DEF Past
<1>1. ASSUME NEW t \in Versions, NewRun(t) \/ ResumeRun(t) PROVE Past'
  BY <1>1 DEF NewRun, ResumeRun, Begin
<1>2. CASE NextStep \/ NextNode \/ Observe \/ ObserveMissing
  BY <1>2 DEF NextStep, NextNode, Observe, ObserveMissing, Moving
<1>3. CASE Complete
  BY <1>3, ClusterAssumption DEF Complete, TypeOK, Nodes, NodeCount
<1>4. CASE Return \/ Crash
  BY <1>4 DEF Return, Crash, End
<1>5. CASE Apply
  BY <1>5 DEF Apply, Drain, Install, Restart, Await, Uncordon, Moving
<1>6. CASE StepFails
  BY <1>6 DEF StepFails, End
<1>7. ASSUME NEW n \in Nodes, Register(n) \/ Notice(n) \/ Bounce(n) PROVE Past'
  BY <1>7 DEF Register, Notice, Bounce, command
<1>8. CASE UNCHANGED vars
  BY <1>8 DEF vars, command
<1> QED
  BY <1>1, <1>2, <1>3, <1>4, <1>5, <1>6, <1>7, <1>8 DEF Next, RunStep

\* Only a drain makes a cordon, before the run records that it lifted one.
LEMMA LiftedStep ==
    ASSUME TypeOK, Progress, Lifted, ~blind', [Next]_vars
    PROVE  Lifted'
<1> USE DEF history
<1>1. ASSUME NEW t \in Versions, NewRun(t) PROVE Lifted'
  BY <1>1 DEF NewRun, Lifted
<1>2. ASSUME NEW t \in Versions, ResumeRun(t) PROVE Lifted'
  BY <1>2 DEF ResumeRun, Lifted
<1>3. CASE NextStep \/ NextNode \/ Complete \/ Return \/ ObserveMissing
  BY <1>3 DEF NextStep, NextNode, Complete, Return, ObserveMissing, Lifted
<1>4. CASE Observe
  <2>1. recorded' = recorded \cup {<<node, Steps[at]>>} /\ node \in Nodes /\ at \in 1..Len(Steps)
    BY <1>4, StepsInOrder DEF Observe, Key, Moving, TypeOK
  <2>2. Holds /\ UNCHANGED sched
    BY <1>4 DEF Observe
  <2>3. Steps[at] = "uncordon" => sched[node] = "open" /\ <<node, "drain">> \in recorded
    BY <2>1, <2>2, CordonSteps DEF Holds, Step, Progress, OnTarget, Place
  <2> QED
    BY <2>1, <2>2, <2>3 DEF Lifted
<1>5. CASE Drain
  <2>1. node \in Nodes /\ at \in 1..Len(Steps) /\ Steps[at] = "drain" /\ pc = "apply"
    BY <1>5, StepsInOrder DEF Drain, Moving, Step, TypeOK
  <2>2. <<node, "drain">> \notin recorded /\ NodeCount # 1
    BY <2>1, CordonSteps DEF Progress, OnTarget, Place
  <2>3. UNCHANGED recorded /\ \A n \in Nodes : n # node => sched'[n] = sched[n]
    BY <1>5 DEF Drain, TypeOK
  <2> QED
    BY <2>1, <2>2, <2>3 DEF Lifted
<1>6. CASE Uncordon
  <2>1. UNCHANGED recorded /\ \A n \in Nodes : sched'[n] \in {sched[n], "open"}
    BY <1>6 DEF Uncordon, TypeOK
  <2> QED
    BY <2>1 DEF Lifted
<1>7. CASE Install \/ Restart \/ Await \/ StepFails \/ Crash
  BY <1>7 DEF Install, Restart, Await, StepFails, Crash, Lifted
<1>8. ASSUME NEW n \in Nodes, Register(n) \/ Notice(n) \/ Bounce(n) PROVE Lifted'
  BY <1>8 DEF Register, Notice, Bounce, Lifted
<1>9. CASE UNCHANGED vars
  BY <1>9 DEF vars, Lifted
<1> QED
  BY <1>1, <1>2, <1>3, <1>4, <1>5, <1>6, <1>7, <1>8, <1>9 DEF Next, RunStep, Apply

\* A failed query that was taken for an answer is never forgotten.
LEMMA BlindStays == TypeOK /\ [Next]_vars /\ ~blind' => ~blind
<1> SUFFICES ASSUME TypeOK, [Next]_vars PROVE blind => blind'
  OBVIOUS
<1> USE DEF history
<1>1. ASSUME NEW t \in Versions, NewRun(t) \/ ResumeRun(t) PROVE blind => blind'
  BY <1>1 DEF NewRun, ResumeRun
<1>2. CASE Observe
  BY <1>2 DEF Observe
<1>3. CASE NextStep \/ NextNode \/ Complete \/ Return \/ ObserveMissing
  BY <1>3 DEF NextStep, NextNode, Complete, Return, ObserveMissing
<1>4. CASE Apply
  BY <1>4 DEF Apply, Drain, Install, Restart, Await, Uncordon
<1>5. CASE StepFails \/ Crash
  BY <1>5 DEF StepFails, Crash
<1>6. ASSUME NEW n \in Nodes, Register(n) \/ Notice(n) \/ Bounce(n) PROVE blind => blind'
  BY <1>6 DEF Register, Notice, Bounce
<1>7. CASE UNCHANGED vars
  BY <1>7 DEF vars
<1> QED
  BY <1>1, <1>2, <1>3, <1>4, <1>5, <1>6, <1>7 DEF Next, RunStep

\* CInv stays, as long as IInv holds.
LEMMA CInvStep == IInv /\ CInv /\ [Next]_vars => CInv'
<1> SUFFICES ASSUME IInv, CInv, [Next]_vars PROVE CInv'
  OBVIOUS
<1>1. TypeOK /\ Past'
  BY PastStep DEF IInv, CInv
<1>2. ASSUME ~mixed', ~blind' PROVE Lifted'
  <2>1. ~mixed /\ ~blind
    BY <1>1, <1>2, MixedStays, BlindStays
  <2> QED
    BY <1>1, <1>2, <2>1, LiftedStep DEF IInv, CInv, Apart
<1> QED
  BY <1>1, <1>2 DEF CInv

\* A command that has completed recorded every step of every node.
LEMMA CompletedRecorded ==
    ASSUME Past, Place, stage = "completed"
    PROVE  \A n \in Nodes : \A i \in 1..Len(Steps) : <<n, Steps[i]>> \in recorded
<1>1. node - 1 = NodeCount
  BY ClusterAssumption DEF Past, NodeCount
<1> QED
  BY <1>1 DEF Place, Nodes

\* When a command says that the cluster is on the target, every process is and
\* every node takes work, unless a run was resumed with another's target or a
\* failed query was taken for an answer.
THEOREM CompletionIsMove == Spec => []CompletedIsMoved
<1>1. IInv /\ CInv => CompletedIsMoved
  <2> SUFFICES ASSUME IInv, CInv, stage = "completed", ~mixed, ~blind, NEW n \in Nodes
               PROVE  process[n] = to /\ sched[n] = "open"
    BY DEF CompletedIsMoved
  <2>1. Fresh /\ Progress /\ Truthful /\ Lifted /\ Past
    BY DEF IInv, CInv, Apart
  <2>2. \A i \in 1..Len(Steps) : <<n, Steps[i]>> \in recorded
    BY <2>1, CompletedRecorded DEF Progress
  <2>3. process[n] = runTarget
    BY <2>1, <2>2, StepsInOrder DEF Truthful, Fresh
  <2>4. NodeCount = 1 => sched[n] = "open"
    BY <2>1 DEF Lifted
  <2>5. NodeCount # 1 => sched[n] = "open"
    BY <2>1, <2>2, CordonSteps DEF Lifted
  <2>6. to = runTarget
    BY <2>1 DEF Progress, OnTarget
  <2> QED
    BY <2>3, <2>4, <2>5, <2>6
<1> QED
  BY <1>1, CInvStep, CInvInit, Inductive, PTL DEF Spec

----------------------------------------------------------------------------
\* One node down.

\* The API server's agreement is recorded after the restart it waits for.
Waited == \A n \in Nodes : <<n, "upgraded">> \in recorded => <<n, "restart">> \in recorded

\* One node at most was restarted and has not come back; while nodes are moved
\* it is the current one, and nobody has recorded its return.
OneRestarted ==
    /\ \A m, n \in Nodes : service[m] = "restarted" /\ service[n] = "restarted" => m = n
    /\ stage = "moving" =>
         \A m \in Nodes : service[m] = "restarted" =>
           m = node /\ <<node, "upgraded">> \notin recorded

DownInv == Place /\ Waited /\ (~stale => OneRestarted)

\* No node is down in the first states.
LEMMA DownInit == Init => DownInv
  BY DEF Init, DownInv, Place, Waited, OneRestarted

\* The record grows in the order of the steps (NodeSteps).
LEMMA WaitedStep == TypeOK /\ Place /\ Waited /\ [Next]_vars => Waited'
<1> SUFFICES ASSUME TypeOK, Place, Waited, [Next]_vars PROVE Waited'
  OBVIOUS
<1> USE DEF Waited
<1>1. CASE Observe
  <2>1. recorded' = recorded \cup {<<node, Steps[at]>>} /\ at \in 1..Len(Steps)
    BY <1>1, StepsInOrder DEF Observe, Key, Moving, TypeOK
  <2>2. Steps[at] = "upgraded" => <<node, "restart">> \in recorded
    BY <2>1, StepsInOrder DEF Place
  <2> QED
    BY <2>1, <2>2
<1>2. CASE Install \/ Restart \/ Quiet
  BY <1>2 DEF Install, Restart, Quiet
<1>3. ASSUME NEW n \in Nodes, Register(n) \/ Bounce(n) PROVE Waited'
  BY <1>3 DEF Register, Bounce
<1>4. ASSUME NEW t \in Versions, NewRun(t) PROVE Waited'
  BY <1>4 DEF NewRun
<1> QED
  BY <1>1, <1>2, <1>3, <1>4, StepKinds

\* A node believed up that had not registered is never forgotten.
LEMMA StaleStays == TypeOK /\ [Next]_vars /\ ~stale' => ~stale
<1> SUFFICES ASSUME TypeOK, [Next]_vars PROVE stale => stale'
  OBVIOUS
<1> USE DEF history
<1>1. ASSUME NEW t \in Versions, NewRun(t) \/ ResumeRun(t) PROVE stale => stale'
  BY <1>1 DEF NewRun, ResumeRun
<1>2. CASE Observe
  BY <1>2 DEF Observe
<1>3. CASE NextStep \/ NextNode \/ Complete \/ Return \/ ObserveMissing
  BY <1>3 DEF NextStep, NextNode, Complete, Return, ObserveMissing
<1>4. CASE Apply
  BY <1>4 DEF Apply, Drain, Install, Restart, Await, Uncordon
<1>5. CASE StepFails \/ Crash
  BY <1>5 DEF StepFails, Crash
<1>6. ASSUME NEW n \in Nodes, Register(n) \/ Notice(n) \/ Bounce(n) PROVE stale => stale'
  BY <1>6 DEF Register, Notice, Bounce
<1>7. CASE UNCHANGED vars
  BY <1>7 DEF vars
<1> QED
  BY <1>1, <1>2, <1>3, <1>4, <1>5, <1>6, <1>7 DEF Next, RunStep

\* A second node is restarted only when the first one's return was seen.
LEMMA OneRestartedStep ==
    ASSUME TypeOK, Place, Waited, OneRestarted, ~stale', [Next]_vars
    PROVE  OneRestarted'
<1> USE DEF history
<1>1. ASSUME NEW t \in Versions, NewRun(t) \/ ResumeRun(t) PROVE OneRestarted'
  <2>1. \A n \in Nodes : service[n] = "up"
    BY <1>1 DEF NewRun, ResumeRun
  <2>2. service' = service
    BY <1>1 DEF NewRun, ResumeRun, machines
  <2> QED
    BY <2>1, <2>2 DEF OneRestarted
<1>2. CASE NextStep \/ Complete \/ ObserveMissing
  BY <1>2 DEF NextStep, Complete, ObserveMissing, machines, OneRestarted
<1>3. CASE NextNode
  <2>1. <<node, "upgraded">> \in recorded /\ stage = "moving"
    BY <1>3, StepsInOrder DEF NextNode, Moving, Place, TypeOK
  <2>2. UNCHANGED <<service, stage, recorded>>
    BY <1>3 DEF NextNode, machines
  <2> QED
    BY <2>1, <2>2 DEF OneRestarted
<1>4. CASE Return \/ Crash
  BY <1>4 DEF Return, Crash, End, machines, OneRestarted
<1>5. CASE StepFails
  <2>1. UNCHANGED <<service, recorded>> /\ (stage' = "idle" \/ UNCHANGED <<stage, node>>)
    BY <1>5 DEF StepFails, End, machines
  <2> QED
    BY <2>1 DEF OneRestarted
<1>6. CASE Observe
  <2>1. /\ recorded' = recorded \cup {<<node, Step>>} /\ stage = "moving"
        /\ UNCHANGED <<service, stage, node>>
    BY <1>6 DEF Observe, Key, Step, machines, Moving
  <2>2. Step = "upgraded" => service[node] = "up"
    BY <1>6 DEF Observe
  <2> QED
    BY <2>1, <2>2 DEF OneRestarted
<1>7. CASE Restart
  <2>1. /\ node \in Nodes /\ stage = "moving" /\ <<node, "restart">> \notin recorded
        /\ service' = [service EXCEPT ![node] = "restarted"]
        /\ UNCHANGED <<stage, node, recorded>>
    BY <1>7 DEF Restart, Moving, Step, Place, TypeOK
  <2>2. <<node, "upgraded">> \notin recorded
    BY <2>1 DEF Waited
  <2> QED
    BY <2>1, <2>2 DEF OneRestarted, TypeOK
<1>8. CASE Drain \/ Install \/ Await \/ Uncordon
  BY <1>8 DEF Drain, Install, Await, Uncordon, machines, OneRestarted
<1>9. ASSUME NEW n \in Nodes, Register(n) \/ Bounce(n) PROVE OneRestarted'
  <2>1. \A m \in Nodes : service'[m] = "restarted" => service[m] = "restarted"
    BY <1>9 DEF Register, Bounce, TypeOK
  <2>2. UNCHANGED <<stage, node, recorded>>
    BY <1>9 DEF Register, Bounce, command
  <2> QED
    BY <2>1, <2>2 DEF OneRestarted
<1>10. ASSUME NEW n \in Nodes, Notice(n) PROVE OneRestarted'
  BY <1>10 DEF Notice, machines, command, OneRestarted
<1>11. CASE UNCHANGED vars
  BY <1>11 DEF vars, machines, command, OneRestarted
<1> QED
  BY <1>1, <1>2, <1>3, <1>4, <1>5, <1>6, <1>7, <1>8, <1>9, <1>10, <1>11
     DEF Next, RunStep, Apply

\* No step restarts a node while one that a step restarted is still away, as
\* long as the API server knew of each node that was (OneNodeDown): resumed runs
\* and runs with another target included.
THEOREM OneDown == Spec => []OneNodeDown
<1>1. TypeOK /\ DownInv /\ [Next]_vars => DownInv'
  BY PlaceStep, WaitedStep, StaleStays, OneRestartedStep DEF DownInv
<1>2. DownInv => OneNodeDown
  BY DEF DownInv, OneRestarted, OneNodeDown
<1> QED
  BY <1>1, <1>2, DownInit, TypeCorrect, PTL DEF Spec

----------------------------------------------------------------------------
\* One node out, and drained before it restarts.

\* A binary is installed where another was found, if every query was answered.
Missing == ~blind /\ Moving("apply") /\ Step = "install" => binary[node] # to

\* A node that is not drained runs what it has and is reported as it runs: it
\* was not touched, or its move is over.  A recorded drain is still in force, or
\* was not needed; if it was not, only an inactive unit is restarted.
Covered ==
    /\ \A n \in Nodes : sched[n] # "drained" => current[n] /\ binary[n] = kubelet[n]
    /\ \A n \in Nodes :
         <<n, "drain">> \in recorded => sched[n] = "drained" \/ kubelet[n] = runTarget
    /\ Moving("apply") /\ Step = "restart" =>
         sched[node] = "drained" \/ (inactive /\ kubelet[node] = to)

\* One node at most is kept from work.  The move it is kept for is known and not
\* over, and the nodes before it are moved.
OneOut ==
    /\ \A m, n \in Nodes : sched[m] # "open" /\ sched[n] # "open" => m = n
    /\ \A n \in Nodes : sched[n] # "open" =>
         /\ to = runTarget /\ runTarget # NoTarget
         /\ \A m \in Nodes : m < n => kubelet[m] = runTarget
    /\ Moving("apply") /\ Step = "drain" => \A n \in Nodes \ {node} : sched[n] = "open"

OutInv ==
    /\ Missing
    /\ NodeCount # 1 /\ ~mixed /\ ~blind => Covered
    /\ NodeCount # 1 /\ ~mixed /\ ~blind /\ ~abandoned => OneOut

\* With several nodes, an install and a restart come after a drain, and a cordon is lifted
\* after the steps that move the node.
LEMMA MoveSteps ==
    ASSUME NodeCount # 1
    PROVE  /\ \A i \in 1..Len(Steps) :
                /\ Steps[i] \in {"install", "restart"} =>
                     \E j \in 1..(i - 1) : Steps[j] = "drain"
                /\ Steps[i] = "uncordon" => \E j \in 1..(i - 1) : Steps[j] = "upgraded"
<1>1. Steps = <<"drain", "install", "restart", "upgraded", "uncordon">>
  BY DEF Steps
<1> QED
  BY <1>1

\* In the first states every node takes work and runs what it has.
LEMMA OutInit == Init => OutInv
<1> SUFFICES ASSUME Init PROVE OutInv
  OBVIOUS
<1>1. stage = "idle" /\ recorded = {} /\ binary = kubelet /\ pc = "step"
  BY DEF Init
<1>2. \A n \in Nodes : sched[n] = "open" /\ current[n]
  BY DEF Init
<1> QED
  BY <1>1, <1>2 DEF OutInv, Missing, Covered, OneOut, Moving

\* An unfinished run that was given up is never forgotten.
LEMMA AbandonedStays == TypeOK /\ [Next]_vars /\ ~abandoned' => ~abandoned
<1> SUFFICES ASSUME TypeOK, [Next]_vars PROVE abandoned => abandoned'
  OBVIOUS
<1> USE DEF history
<1>1. ASSUME NEW t \in Versions, NewRun(t) PROVE abandoned => abandoned'
  BY <1>1 DEF NewRun
<1>2. ASSUME NEW t \in Versions, ResumeRun(t) PROVE abandoned => abandoned'
  BY <1>2 DEF ResumeRun
<1>3. CASE NextStep \/ NextNode \/ Complete \/ Return \/ Observe \/ ObserveMissing
  BY <1>3 DEF NextStep, NextNode, Complete, Return, Observe, ObserveMissing
<1>4. CASE Apply
  BY <1>4 DEF Apply, Drain, Install, Restart, Await, Uncordon
<1>5. CASE StepFails \/ Crash
  BY <1>5 DEF StepFails, Crash
<1>6. ASSUME NEW n \in Nodes, Register(n) \/ Notice(n) \/ Bounce(n) PROVE abandoned => abandoned'
  BY <1>6 DEF Register, Notice, Bounce
<1>7. CASE UNCHANGED vars
  BY <1>7 DEF vars
<1> QED
  BY <1>1, <1>2, <1>3, <1>4, <1>5, <1>6, <1>7 DEF Next, RunStep

\* An install is begun only where a look found another binary, and no step but
\* an install changes one.
LEMMA MissingStep == TypeOK /\ Missing /\ [Next]_vars => Missing'
<1> SUFFICES ASSUME TypeOK, Missing, [Next]_vars PROVE Missing'
  OBVIOUS
<1>0. blind' = FALSE => blind = FALSE
  BY BlindStays DEF TypeOK
<1> SUFFICES ASSUME ~blind', ~blind PROVE Missing'
  BY <1>0 DEF Missing, TypeOK
<1> USE DEF Missing, Moving, Step, machines
<1>1. ASSUME NEW t \in Versions, NewRun(t) \/ ResumeRun(t) PROVE Missing'
  BY <1>1 DEF NewRun, ResumeRun, Begin
<1>2. CASE NextStep
  BY <1>2 DEF NextStep
<1>3. CASE NextNode \/ Complete \/ Return \/ Observe \/ Crash
  BY <1>3 DEF NextNode, Complete, Return, Observe, Crash, End
<1>4. CASE ObserveMissing
  BY <1>4 DEF ObserveMissing, Holds, Steps
<1>5. CASE Drain
  BY <1>5 DEF Drain, Steps
<1>6. CASE Install \/ Restart \/ Await \/ Uncordon
  BY <1>6 DEF Install, Restart, Await, Uncordon
<1>7. CASE StepFails
  BY <1>7 DEF StepFails, End
<1>8. ASSUME NEW n \in Nodes, Register(n) \/ Notice(n) \/ Bounce(n) PROVE Missing'
  BY <1>8 DEF Register, Notice, Bounce, command, Steps
<1>9. CASE UNCHANGED vars
  BY <1>9 DEF vars, command, Steps
<1> QED
  BY <1>1, <1>2, <1>3, <1>4, <1>5, <1>6, <1>7, <1>8, <1>9 DEF Next, RunStep, Apply

\* Where the command works at a step, the steps before it are recorded and true.
LEMMA AtWork ==
    ASSUME TypeOK, Progress, pc # "step"
    PROVE  /\ node \in Nodes /\ at \in 1..Len(Steps) /\ stage = "moving"
           /\ to = runTarget /\ runTarget # NoTarget /\ runTarget \in Versions
           /\ \A j \in 1..(at - 1) : <<node, Steps[j]>> \in recorded
           /\ <<node, Steps[at]>> \notin recorded
  BY StepsInOrder DEF TypeOK, Progress, OnTarget, Place

\* What is not drained was not touched.
LEMMA CoveredStep ==
    ASSUME TypeOK, Fresh, Progress, Truthful, Missing, Covered, NodeCount # 1,
           ~blind, ~blind', [Next]_vars
    PROVE  Covered'
<1> USE DEF history
<1>1. ASSUME NEW t \in Versions, NewRun(t) PROVE Covered'
  BY <1>1 DEF NewRun, Begin, Covered, Moving, machines, reports
<1>2. ASSUME NEW t \in Versions, ResumeRun(t) PROVE Covered'
  BY <1>2 DEF ResumeRun, Begin, Covered, Moving, machines, reports
<1>3. CASE NextStep \/ NextNode \/ Complete \/ Return \/ Crash
  <2>1. UNCHANGED <<current, binary, kubelet, sched, recorded, runTarget>>
    BY <1>3 DEF NextStep, NextNode, Complete, Return, Crash, machines, reports
  <2>2. ~Moving("apply")'
    BY <1>3 DEF NextStep, NextNode, Complete, Return, Crash, End, Moving
  <2> QED
    BY <2>1, <2>2 DEF Covered
<1>4. CASE Observe
  <2>1. /\ recorded' = recorded \cup {<<node, Steps[at]>>} /\ Holds /\ pc' = "step"
        /\ UNCHANGED <<current, binary, kubelet, sched, runTarget>>
    BY <1>4 DEF Observe, Key, machines, reports
  <2>2. node \in Nodes /\ to = runTarget
    BY <1>4, AtWork DEF Observe, Moving
  <2>3. Steps[at] = "drain" => sched[node] = "drained" \/ kubelet[node] = runTarget
    BY <2>1, <2>2 DEF Holds, Step, Drained
  <2> QED
    BY <2>1, <2>2, <2>3 DEF Covered, Moving
<1>5. CASE ObserveMissing
  <2>1. UNCHANGED <<current, binary, kubelet, sched, recorded, runTarget, node, at>>
    BY <1>5 DEF ObserveMissing, machines, reports
  <2>2. /\ node \in Nodes /\ at \in 1..Len(Steps) /\ UNCHANGED to /\ to = runTarget
        /\ \A j \in 1..(at - 1) : <<node, Steps[j]>> \in recorded
    BY <1>5, AtWork DEF ObserveMissing, Moving
  <2>3. ASSUME Step = "restart" PROVE sched[node] = "drained" \/ (inactive' /\ kubelet[node] = to)
    <3>1. CASE ~Holds
      BY <2>2, <2>3, <3>1 DEF Holds, Covered
    <3>2. CASE inactive'
      <4>1. <<node, "drain">> \in recorded
        BY <2>2, <2>3, MoveSteps DEF Step
      <4> QED
        BY <2>2, <3>2, <4>1 DEF Covered
    <3> QED
      BY <1>5, <3>1, <3>2 DEF ObserveMissing
  <2> QED
    BY <2>1, <2>2, <2>3 DEF Covered, Step
<1>6. CASE Drain
  <2>1. /\ UNCHANGED <<current, binary, kubelet, recorded, runTarget, node, at>>
        /\ Step = "drain"
    BY <1>6 DEF Drain, machines, reports
  <2>2. \A n \in Nodes : sched[n] = "drained" => sched'[n] = "drained"
    BY <1>6 DEF Drain, TypeOK
  <2> QED
    BY <2>1, <2>2 DEF Covered, Step
<1>7. CASE Install
  <2>1. /\ node \in Nodes /\ at \in 1..Len(Steps) /\ Steps[at] = "install"
        /\ to = runTarget /\ pc = "apply" /\ stage = "moving"
    BY <1>7, AtWork DEF Install, Moving, Step
  <2>2. <<node, "drain">> \in recorded
    BY <2>1, AtWork, MoveSteps
  <2>3. sched[node] = "drained"
    BY <2>1, <2>2 DEF Covered, Missing, Moving, Step
  <2>4. /\ \A n \in Nodes : n # node => binary'[n] = binary[n] /\ current'[n] = current[n]
        /\ UNCHANGED <<kubelet, sched, recorded, runTarget>> /\ pc' = "reobserve"
    BY <1>7 DEF Install, TypeOK, reports
  <2> QED
    BY <2>3, <2>4 DEF Covered, Moving
<1>8. CASE Restart
  <2>1. /\ \A n \in Nodes : current[n] => current'[n]
        /\ UNCHANGED <<binary, kubelet, sched, recorded, runTarget>> /\ pc' = "reobserve"
    BY <1>8 DEF Restart, TypeOK, reports
  <2> QED
    BY <2>1 DEF Covered, Moving
<1>9. CASE Await
  BY <1>9 DEF Await, Covered, Moving, machines, reports
<1>10. CASE Uncordon
  <2>1. node \in Nodes /\ at \in 1..Len(Steps) /\ Steps[at] = "uncordon"
    BY <1>10, AtWork DEF Uncordon, Moving, Step
  <2>2. <<node, "upgraded">> \in recorded
    BY <1>10, <2>1, AtWork, MoveSteps DEF Uncordon, Moving
  <2>3. current[node] /\ binary[node] = kubelet[node] /\ kubelet[node] = runTarget
    BY <2>1, <2>2 DEF Truthful
  <2>4. /\ \A n \in Nodes : n # node => sched'[n] = sched[n]
        /\ UNCHANGED <<current, binary, kubelet, recorded, runTarget>> /\ pc' = "reobserve"
    BY <1>10 DEF Uncordon, TypeOK, machines, reports
  <2> QED
    BY <2>3, <2>4 DEF Covered, Moving
<1>11. CASE StepFails
  <2>1. UNCHANGED <<current, binary, kubelet, sched, recorded, runTarget>>
    BY <1>11 DEF StepFails, machines, reports
  <2>2. ~Moving("apply")'
    BY <1>11 DEF StepFails, End, Moving
  <2> QED
    BY <2>1, <2>2 DEF Covered
<1>12. ASSUME NEW n \in Nodes, Register(n) PROVE Covered'
  <2>1. UNCHANGED <<current, binary, sched, recorded, runTarget, stage, node, at, pc>>
    BY <1>12 DEF Register, command
  <2>2. \A m \in Nodes : kubelet'[m] = IF m = n THEN process[m] ELSE kubelet[m]
    BY <1>12 DEF Register, TypeOK
  <2>3. \A m \in Nodes : sched[m] # "drained" => kubelet'[m] = kubelet[m]
    BY <2>2 DEF Covered, Fresh
  <2>4. UNCHANGED <<to, inactive>> /\ (pc = "apply" => node \in Nodes)
    BY <1>12 DEF Register, command, TypeOK
  <2>5. Moving("apply")' /\ Step' = "restart" =>
          (sched[node] = "drained" \/ (inactive /\ kubelet'[node] = to))
    BY <2>1, <2>3, <2>4 DEF Covered, Moving, Step, Steps
  <2>6. \A m \in Nodes : <<m, "drain">> \in recorded =>
          sched[m] = "drained" \/ kubelet'[m] = runTarget
    BY <2>3 DEF Covered
  <2> QED
    BY <2>1, <2>3, <2>4, <2>5, <2>6 DEF Covered
<1>13. ASSUME NEW n \in Nodes, Bounce(n) PROVE Covered'
  <2>1. UNCHANGED <<binary, kubelet, sched, recorded, runTarget, stage, node, at, pc>>
    BY <1>13 DEF Bounce, command, reports
  <2>2. \A m \in Nodes : current[m] => current'[m]
    BY <1>13 DEF Bounce, TypeOK
  <2>3. UNCHANGED <<to, inactive>>
    BY <1>13 DEF Bounce, command
  <2> QED
    BY <2>1, <2>2, <2>3 DEF Covered, Moving, Step, Steps
<1>14. ASSUME NEW n \in Nodes, Notice(n) PROVE Covered'
  BY <1>14 DEF Notice, Covered, Moving, Step, machines, command
<1>15. CASE UNCHANGED vars
  BY <1>15 DEF vars, Covered, Moving, Step, machines, reports, command
<1> QED
  BY <1>1, <1>2, <1>3, <1>4, <1>5, <1>6, <1>7, <1>8, <1>9, <1>10, <1>11, <1>12, <1>13,
     <1>14, <1>15 DEF Next, RunStep, Apply

\* A second node is drained only when the first one takes work again.
LEMMA OneOutStep ==
    ASSUME TypeOK, Fresh, Progress, Truthful, Past, Lifted, Covered, OneOut,
           NodeCount # 1, ~mixed', ~abandoned', ~blind', [Next]_vars
    PROVE  OneOut'
<1> USE DEF history
<1>1. ASSUME NEW t \in Versions, NewRun(t) PROVE OneOut'
  <2>1. UNCHANGED <<sched, kubelet>> /\ to' = t /\ runTarget' = t /\ pc' = "step" /\ t # NoTarget
    BY <1>1, VersionFacts DEF NewRun, Begin, reports
  <2>2. to \in {NoTarget, t}
    BY <1>1, Zenon DEF NewRun
  <2> QED
    BY <2>1, <2>2 DEF OneOut, Moving
<1>2. ASSUME NEW t \in Versions, ResumeRun(t) PROVE OneOut'
  <2>1. t = runTarget
    BY <1>2, Zenon DEF ResumeRun
  <2>2. UNCHANGED <<sched, kubelet, runTarget>> /\ to' = t /\ pc' = "step"
    BY <1>2 DEF ResumeRun, Begin, reports
  <2> QED
    BY <2>1, <2>2 DEF OneOut, Moving
<1>3. CASE NextStep \/ NextNode \/ Complete \/ Observe \/ Crash \/ StepFails
  <2>1. UNCHANGED <<sched, kubelet, to, runTarget>>
    BY <1>3 DEF NextStep, NextNode, Complete, Observe, Crash, StepFails, reports
  <2>2. ~Moving("apply")'
    BY <1>3 DEF NextStep, NextNode, Complete, Observe, Crash, StepFails, End, Moving
  <2> QED
    BY <2>1, <2>2 DEF OneOut
<1>4. CASE Return
  <2>1. \A n \in Nodes : sched[n] = "open"
    BY <1>4, CompletedRecorded, CordonSteps DEF Return, Progress, Lifted
  <2>2. UNCHANGED sched /\ stage' = "idle"
    BY <1>4 DEF Return, End
  <2> QED
    BY <2>1, <2>2 DEF OneOut, Moving
<1>5. CASE ObserveMissing
  <2>1. UNCHANGED <<sched, kubelet, to, runTarget, node, at>>
    BY <1>5 DEF ObserveMissing, reports
  <2>2. node \in Nodes /\ to = runTarget
    BY <1>5, AtWork DEF ObserveMissing, Moving
  <2>3. ASSUME Step = "drain", NEW n \in Nodes \ {node} PROVE sched[n] = "open"
    <3>1. kubelet[node] # runTarget
      BY <1>5, <2>2, <2>3 DEF ObserveMissing, Holds, Drained
    <3>2. CASE n < node
      <4>1. n \in 1..(node - 1)
        BY <2>2, <3>2 DEF Nodes
      <4>2. <<n, "uncordon">> \in recorded
        BY <4>1, CordonSteps DEF Progress, Place
      <4> QED
        BY <4>2 DEF Lifted
    <3>3. CASE node < n
      BY <2>2, <3>1, <3>3 DEF OneOut
    <3> QED
      BY <2>2, <3>2, <3>3 DEF Nodes
  <2> QED
    BY <2>1, <2>3 DEF OneOut, Step
<1>6. CASE Drain
  <2>1. node \in Nodes /\ to = runTarget /\ runTarget # NoTarget
    BY <1>6, AtWork DEF Drain, Moving
  <2>2. \A n \in Nodes \ {node} : sched[n] = "open"
    BY <1>6 DEF Drain, OneOut
  <2>3. \A n \in Nodes : n # node => sched'[n] = sched[n]
    BY <1>6 DEF Drain, TypeOK
  <2>4. ASSUME NEW m \in Nodes, m < node PROVE kubelet[m] = runTarget
    <3>1. m \in 1..(node - 1)
      BY <2>1, <2>4 DEF Nodes
    <3>2. <<m, "upgraded">> \in recorded
      BY <3>1, StepsInOrder DEF Progress, Place
    <3> QED
      BY <3>2 DEF Truthful
  <2>5. UNCHANGED <<kubelet, to, runTarget, node>>
    BY <1>6 DEF Drain, reports
  <2> QED
    BY <2>1, <2>2, <2>3, <2>4, <2>5 DEF OneOut
<1>7. CASE Install \/ Restart \/ Await
  <2>1. UNCHANGED <<sched, kubelet, to, runTarget>> /\ pc' = "reobserve"
    BY <1>7 DEF Install, Restart, Await, reports
  <2> QED
    BY <2>1 DEF OneOut, Moving
<1>8. CASE Uncordon
  <2>1. UNCHANGED <<kubelet, to, runTarget>> /\ pc' = "reobserve"
    BY <1>8 DEF Uncordon, reports
  <2>2. \A n \in Nodes : sched'[n] # "open" => sched[n] # "open"
    BY <1>8 DEF Uncordon, TypeOK
  <2> QED
    BY <2>1, <2>2 DEF OneOut, Moving
<1>9. ASSUME NEW n \in Nodes, Register(n) PROVE OneOut'
  <2>1. UNCHANGED <<sched, to, runTarget, stage, node, at, pc>>
    BY <1>9 DEF Register, command
  <2>2. \A m \in Nodes : kubelet'[m] = IF m = n THEN process[m] ELSE kubelet[m]
    BY <1>9 DEF Register, TypeOK
  <2>3. \A m \in Nodes : sched[m] = "open" => kubelet'[m] = kubelet[m]
    BY <2>2 DEF Covered, Fresh
  <2>4. \A k \in Nodes : sched[k] # "open" =>
          \A m \in Nodes : m < k => sched[m] = "open"
    BY NodeFacts DEF OneOut
  <2> QED
    BY <2>1, <2>3, <2>4 DEF OneOut, Moving, Step
<1>10. ASSUME NEW n \in Nodes, Bounce(n) \/ Notice(n) PROVE OneOut'
  BY <1>10 DEF Bounce, Notice, OneOut, Moving, Step, reports, command
<1>11. CASE UNCHANGED vars
  BY <1>11 DEF vars, OneOut, Moving, Step, reports, command
<1> QED
  BY <1>1, <1>2, <1>3, <1>4, <1>5, <1>6, <1>7, <1>8, <1>9, <1>10, <1>11
     DEF Next, RunStep, Apply

\* OutInv stays, as long as IInv and CInv hold.
LEMMA OutStep == IInv /\ CInv /\ OutInv /\ [Next]_vars => OutInv'
<1> SUFFICES ASSUME IInv, CInv, OutInv, [Next]_vars PROVE OutInv'
  OBVIOUS
<1>1. TypeOK /\ Fresh /\ Past /\ Missing'
  BY MissingStep DEF IInv, CInv, OutInv
<1>2. ASSUME NodeCount # 1, ~mixed', ~blind' PROVE Covered'
  <2>1. ~mixed /\ ~blind
    BY <1>1, <1>2, MixedStays, BlindStays
  <2> QED
    BY <1>1, <1>2, <2>1, CoveredStep DEF IInv, Apart, OutInv
<1>3. ASSUME NodeCount # 1, ~mixed', ~blind', ~abandoned' PROVE OneOut'
  <2>1. ~mixed /\ ~blind /\ ~abandoned
    BY <1>1, <1>3, MixedStays, BlindStays, AbandonedStays
  <2> QED
    BY <1>1, <1>3, <2>1, OneOutStep DEF IInv, Apart, CInv, OutInv
<1> QED
  BY <1>1, <1>2, <1>3 DEF OutInv

\* OutInv is an invariant.
THEOREM OutInductive == Spec => [](IInv /\ CInv /\ OutInv)
<1>1. IInv /\ CInv /\ OutInv /\ [Next]_vars => OutInv' /\ CInv'
  BY OutStep, CInvStep
<1> QED
  BY <1>1, OutInit, CInvInit, Inductive, PTL DEF Spec

\* When a step restarts the unit of a node, nothing is left on the node, in
\* whatever run and by whatever command it was drained: a drain whose record was
\* lost is repeated, and one that was recorded still holds.  The one node that is
\* restarted undrained is one that the cluster reports on the target and whose
\* unit was not active when restartStep looked.
THEOREM DrainFirst == Spec => []DrainedBeforeRestart
<1>1. OutInv => DrainedBeforeRestart
  BY ClusterAssumption DEF OutInv, Covered, DrainedBeforeRestart, NodeCount
<1> QED
  BY <1>1, OutInductive, PTL

\* At most one node is kept from work over every interruption of a move that is
\* finished before another is asked for: no drain begins while a cordon is left,
\* as long as no query of a Check fails unnoticed.
THEOREM OneKeptFromWork == Spec => []OneNodeOut
<1>1. OutInv => OneNodeOut
  <2>1. CASE NodeCount = 1
    BY <2>1 DEF OneNodeOut, Nodes
  <2>2. CASE NodeCount # 1
    BY <2>2 DEF OutInv, OneOut, OneNodeOut
  <2> QED
    BY <2>1, <2>2
<1> QED
  BY <1>1, OutInductive, PTL

----------------------------------------------------------------------------
\* No process goes back, and a move can be asked for again.

\* While no target is left behind, a node is reported as it runs and runs what it
\* has; otherwise it lags, and nothing is past the target of the run.
Behind ==
    /\ to \in {NoTarget, runTarget}
    /\ to = NoTarget => \A n \in Nodes : binary[n] = process[n] /\ process[n] = kubelet[n]
    /\ \A n \in Nodes : kubelet[n] <= process[n] /\ process[n] <= binary[n]
    /\ runTarget # NoTarget =>
         /\ \A n \in Nodes : binary[n] <= runTarget
         /\ Minor[runTarget] <= Minor[kubelet[ServerCount]] + 1

BackInv == ~mixed /\ ~abandoned => Behind

\* A cluster at rest lags nowhere.
LEMMA BackInit == Init => BackInv
<1> SUFFICES ASSUME Init PROVE Behind
  BY DEF BackInv
<1>1. binary = kubelet /\ process = kubelet /\ to = NoTarget /\ runTarget = NoTarget
  BY DEF Init
<1>2. \A n \in Nodes : kubelet[n] <= kubelet[n]
  BY TypeInit, ValueFacts
<1> QED
  BY <1>1, <1>2 DEF Behind

\* The target is forgotten only by a command that completed.
LEMMA TargetKept ==
    ASSUME TypeOK, [Next]_vars
    PROVE  Return \/ (\E t \in Versions : NewRun(t) \/ ResumeRun(t)) \/ UNCHANGED to
<1>1. CASE NextStep \/ NextNode \/ Complete \/ Observe \/ ObserveMissing
  BY <1>1 DEF NextStep, NextNode, Complete, Observe, ObserveMissing
<1>2. CASE Apply
  BY <1>2 DEF Apply, Drain, Install, Restart, Await, Uncordon
<1>3. CASE StepFails \/ Crash
  BY <1>3 DEF StepFails, Crash
<1>4. ASSUME NEW n \in Nodes, Register(n) \/ Notice(n) \/ Bounce(n) PROVE UNCHANGED to
  BY <1>4 DEF Register, Notice, Bounce, command
<1>5. CASE UNCHANGED vars
  BY <1>5 DEF vars, command
<1> QED
  BY <1>1, <1>2, <1>3, <1>4, <1>5 DEF Next, RunStep

\* A new run is accepted for a target that nothing is past, and so is the target
\* of a run that was not finished: it is the same.
LEMMA BehindNewRun ==
    ASSUME TypeOK, Behind, ~abandoned', NEW t \in Versions, NewRun(t)
    PROVE  Behind'
<1> USE ValueFacts, NodeFacts, VersionFacts
<1>1. /\ UNCHANGED <<binary, process, kubelet>> /\ to' = t /\ runTarget' = t /\ Allowed(t)
  BY DEF NewRun, Begin, machines, reports
<1>2. to \in {NoTarget, t}
  BY Zenon DEF NewRun
<1>3. \A n \in Nodes : binary[n] <= t
  <2>1. CASE to = NoTarget
    BY <1>1, <2>1 DEF Allowed, Behind
  <2>2. CASE to = t
    BY <2>2 DEF Behind
  <2> QED
    BY <1>2, <2>1, <2>2
<1>4. Minor[t] <= Minor[kubelet[ServerCount]] + 1
  <2>1. PICK low \in Versions : Level(low) /\ Minor[t] <= Minor[low] + 1
    BY <1>1 DEF Allowed
  <2>2. low <= kubelet[ServerCount] /\ Minor[low] <= Minor[kubelet[ServerCount]]
    BY <2>1, ClusterAssumption DEF Level, Servers
  <2> QED
    BY <2>1, <2>2
<1> QED
  BY <1>1, <1>3, <1>4 DEF Behind

\* Behind stays.
LEMMA BehindStep ==
    ASSUME TypeOK, Fresh, Progress, Truthful, Past, Behind, ~mixed', ~abandoned', [Next]_vars
    PROVE  Behind'
<1> USE ValueFacts, NodeFacts, VersionFacts
<1>1. CASE Install
  <2>1. node \in Nodes /\ to = runTarget /\ to \in Versions
    BY <1>1, AtInstall
  <2>2. /\ \A n \in Nodes : binary'[n] = IF n = node THEN to ELSE binary[n]
        /\ UNCHANGED <<process, kubelet, runTarget>>
    BY <1>1, AfterInstall
  <2>3. to' = to
    BY <1>1 DEF Install
  <2>4. \A n \in Nodes : binary[n] <= binary'[n] /\ binary'[n] <= to
    BY <2>1, <2>2 DEF Behind
  <2>5. \A n \in Nodes : process[n] <= binary'[n]
    BY <2>1, <2>2 DEF Behind
  <2> QED
    BY <2>1, <2>2, <2>3, <2>4, <2>5 DEF Behind
<1>2. ASSUME NEW t \in Versions, NewRun(t) PROVE Behind'
  BY <1>2, BehindNewRun
<1>3. ASSUME NEW t \in Versions, ResumeRun(t) PROVE Behind'
  <2>1. t = runTarget
    BY <1>3, Zenon DEF ResumeRun
  <2>2. UNCHANGED <<binary, process, kubelet, runTarget>> /\ to' = t
    BY <1>3 DEF ResumeRun, Begin, machines, reports
  <2> QED
    BY <2>1, <2>2 DEF Behind
<1>4. CASE Return
  <2>1. \A n \in Nodes : binary[n] = process[n] /\ process[n] = kubelet[n]
    BY <1>4, CompletedRecorded, StepsInOrder DEF Return, Progress, Truthful, Fresh
  <2>2. UNCHANGED <<binary, process, kubelet, runTarget>> /\ to' = NoTarget
    BY <1>4 DEF Return, machines, reports, history
  <2> QED
    BY <2>1, <2>2 DEF Behind
<1>5. CASE Follows /\ UNCHANGED to
  <2>1. UNCHANGED <<binary, runTarget, to>>
    BY <1>5 DEF Follows
  <2>2. \A n \in Nodes : /\ kubelet'[n] \in Versions /\ process'[n] \in Versions
                          /\ kubelet[n] <= kubelet'[n]
                          /\ kubelet'[n] <= process'[n] /\ process'[n] <= binary[n]
    BY <1>5 DEF Follows, Behind
  <2>3. to = NoTarget => \A n \in Nodes : binary[n] = process'[n] /\ process'[n] = kubelet'[n]
    BY <1>5 DEF Follows, Behind
  <2>4. Minor[kubelet[ServerCount]] <= Minor[kubelet'[ServerCount]]
    BY <2>2
  <2>5. runTarget # NoTarget => Minor[runTarget] <= Minor[kubelet'[ServerCount]] + 1
    <3> SUFFICES ASSUME runTarget # NoTarget
                 PROVE  Minor[runTarget] <= Minor[kubelet'[ServerCount]] + 1
      OBVIOUS
    <3>1. Minor[runTarget] <= Minor[kubelet[ServerCount]] + 1 /\ runTarget \in Versions
      BY DEF Behind, TypeOK
    <3>2. Minor[runTarget] \in Nat /\ Minor[kubelet[ServerCount]] \in Nat
          /\ Minor[kubelet'[ServerCount]] \in Nat
      BY <2>2, <3>1
    <3> QED
      BY <2>4, <3>1, <3>2
  <2> QED
    BY <2>1, <2>2, <2>3, <2>5 DEF Behind
<1> QED
  BY <1>1, <1>2, <1>3, <1>4, <1>5, MachineKinds, TargetKept

\* BackInv stays, as long as IInv and CInv hold.
LEMMA BackStep == IInv /\ CInv /\ BackInv /\ [Next]_vars => BackInv'
<1> SUFFICES ASSUME IInv, CInv, BackInv, [Next]_vars, ~mixed', ~abandoned' PROVE Behind'
  BY DEF BackInv
<1>1. TypeOK /\ Fresh /\ Past
  BY DEF IInv, CInv
<1>2. ~mixed /\ ~abandoned
  BY <1>1, MixedStays, AbandonedStays
<1> QED
  BY <1>1, <1>2, BehindStep DEF IInv, Apart, BackInv

\* BackInv is an invariant.
THEOREM BackInductive == Spec => [](IInv /\ CInv /\ BackInv)
<1>1. IInv /\ CInv /\ BackInv /\ [Next]_vars => BackInv' /\ CInv'
  BY BackStep, CInvStep
<1> QED
  BY <1>1, BackInit, CInvInit, Inductive, PTL DEF Spec

\* No step replaces a process by an older one, as long as a move is finished
\* before another is asked for: reboots, interruptions and resumed runs included.
THEOREM NeverBack == Spec => NoDowngrade
<1>1. IInv /\ BackInv /\ [Next]_vars =>
        [ ~mixed /\ ~abandoned => \A n \in Nodes : process'[n] >= process[n] ]_vars
  <2> SUFFICES ASSUME IInv, BackInv, [Next]_vars, ~mixed, ~abandoned, NEW n \in Nodes
               PROVE  process'[n] >= process[n]
    OBVIOUS
  <2>1. TypeOK /\ process[n] \in Nat /\ binary[n] \in Nat /\ process[n] <= binary[n]
    BY ValueFacts DEF IInv, BackInv, Behind
  <2>2. process'[n] \in {process[n], binary[n]}
    <3>1. CASE Install
      BY <2>1, <3>1, AfterInstall
    <3>2. ASSUME NEW t \in Versions, NewRun(t) PROVE process' = process
      BY <3>2 DEF NewRun, machines
    <3>3. CASE Follows
      BY <3>3 DEF Follows
    <3> QED
      BY <2>1, <3>1, <3>2, <3>3, MachineKinds
  <2> QED
    BY <2>1, <2>2
<1> QED
  BY <1>1, BackInductive, PTL DEF NoDowngrade, Spec

\* Wherever a move was interrupted, the command is accepted again once the nodes
\* are up (CanBeFinished): no interruption leaves a cluster in which the target
\* is too far, already passed, or led by an agent.
THEOREM MoveResumable == Spec => []CanBeFinished
<1>1. IInv /\ BackInv => CanBeFinished
  <2> SUFFICES ASSUME IInv, BackInv, runTarget # NoTarget, ~mixed, ~abandoned,
                      EveryNodeReady, ~Finished
               PROVE  Allowed(runTarget)
    BY DEF CanBeFinished
  <2> USE ValueFacts, NodeFacts, VersionFacts
  <2> DEFINE low == kubelet[ServerCount]
  <2>1. TypeOK /\ Behind /\ Ordered /\ low \in Versions /\ runTarget \in Versions
    BY DEF IInv, Apart, BackInv, TypeOK
  <2>2. \A n \in Nodes : kubelet[n] <= binary[n] /\ kubelet[n] <= runTarget
    BY <2>1 DEF Behind
  <2>3. Level(low)
    <3>1. ASSUME NEW s \in Servers PROVE kubelet[s] >= low
      <4>1. s \in Nodes /\ (s = ServerCount \/ s < ServerCount)
        BY ClusterAssumption DEF Servers
      <4>2. CASE s < ServerCount
        BY <2>1, <2>2, <4>1, <4>2 DEF Ordered
      <4> QED
        BY <2>1, <4>1, <4>2
    <3> QED
      BY <3>1, ClusterAssumption DEF Level, Servers
  <2>4. NotOlder(runTarget, low)
    <3>1. PICK n \in Nodes : kubelet[n] # runTarget \/ sched[n] # "open"
      BY DEF Finished
    <3>2. kubelet[n] < runTarget \/ sched[n] # "open"
      BY <2>1, <2>2, <3>1
    <3> QED
      BY <2>1, <2>2, <3>2 DEF NotOlder
  <2>5. Minor[runTarget] <= Minor[low] + 1
    BY <2>1 DEF Behind
  <2>6. ASSUME NEW a \in Agents PROVE kubelet[a] <= kubelet[1]
    BY <2>1, <2>2 DEF Ordered
  <2> QED
    BY <2>1, <2>2, <2>3, <2>4, <2>5, <2>6 DEF Allowed
<1> QED
  BY <1>1, BackInductive, PTL

=============================================================================
