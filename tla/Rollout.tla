------------------------------ MODULE Rollout ------------------------------
(***************************************************************************)
(* What a malmok run promises, with none of the machinery: targets are     *)
(* brought about one at a time, none before the targets it builds on, and  *)
(* the run is called complete only when every one of them has been brought *)
(* about.  Engine.tla is shown to implement this module.                   *)
(***************************************************************************)
CONSTANTS Targets,      \* the target states the run has to bring about
          Before(_)     \* the targets a given one builds on

VARIABLES reached,      \* the targets brought about so far
          complete      \* the event stream calls the run completed

rvars == <<reached, complete>>

\* A run may start on nodes where part of the work already holds.
Init == /\ reached \in SUBSET Targets
        /\ complete = FALSE

\* One target is brought about, on top of everything it builds on.
Reach(t) == /\ t \notin reached
            /\ Before(t) \subseteq reached
            /\ reached' = reached \cup {t}
            /\ UNCHANGED complete

\* The run is called completed.
Complete == /\ reached = Targets
            /\ complete' = TRUE
            /\ UNCHANGED reached

\* The run is started again, to resume it or to audit it.
Reopen == /\ complete' = FALSE
          /\ UNCHANGED reached

Next == \/ \E t \in Targets : Reach(t)
        \/ Complete
        \/ Reopen

Spec == Init /\ [][Next]_rvars
=============================================================================
