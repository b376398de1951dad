------------------------------ MODULE MCEngine ------------------------------
(***************************************************************************)
(* Instances of Engine for TLC: a phase whose two nodes are visited at     *)
(* once followed by a cluster phase, and a sequential one in its place.    *)
(***************************************************************************)
EXTENDS Engine

Phase(traversal, steps) == [traversal |-> traversal, steps |-> steps]

MCParallel == <<Phase("parallel", <<1, 1>>), Phase("cluster", <<1>>)>>
MCPair == <<Phase("parallel", <<1, 1>>)>>
MCSequential == <<Phase("sequential", <<2, 1>>), Phase("cluster", <<1>>)>>

MCNone == {}
MCRestore == {<<1, 1, 2>>}
MCRestores == {<<1, 1, 1>>, <<1, 2, 1>>}
MCOneAttempt == [k \in Keys |-> 1]
MCTwoAttempts == [k \in Keys |-> 2]
=============================================================================
