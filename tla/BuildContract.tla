--------------------------- MODULE BuildContract ---------------------------
(***************************************************************************)
(* What the build gate promises its caller, without agents, tests, fix     *)
(* loops or reviews (the docstring and the comments of                     *)
(* run_subagent_driven_build): the tasks are judged once each, in plan     *)
(* order; a task whose prerequisite is bad is never judged good; a bad     *)
(* task does not keep the later ones from being tried; integration, review *)
(* and the record of the build are reached one after the other and only    *)
(* with every task good; only the record completes the build.              *)
(***************************************************************************)
EXTENDS Naturals

CONSTANTS N, Deps

VARIABLES
    verdict,   \* of each task: "open", "good" or "bad"
    stage,     \* where the build is
    result     \* how it ended

vars == <<verdict, stage, result>>

Tasks == 1..N
Judged(t) == verdict[t] # "open"

Init ==
    /\ verdict = [t \in Tasks |-> "open"]
    /\ stage = "idle" /\ result = "none"

\* A new build, also over one that was cut off.
Start ==
    /\ verdict' = [t \in Tasks |-> "open"]
    /\ stage' = "tasks" /\ result' = "none"

Judge(t) ==
    /\ stage = "tasks" /\ ~Judged(t)
    /\ \A u \in 1..(t - 1) : Judged(u)
    /\ \E v \in {"good", "bad"} :
          /\ v = "good" => \A d \in Deps[t] : verdict[d] # "bad"
          /\ verdict' = [verdict EXCEPT ![t] = v]
    /\ UNCHANGED <<stage, result>>

Following == [tasks |-> "integration", integration |-> "review", review |-> "record"]
Advance ==
    /\ stage \in DOMAIN Following
    /\ \A t \in Tasks : verdict[t] = "good"
    /\ stage' = Following[stage]
    /\ UNCHANGED <<verdict, result>>

\* The build gives up: not while a task is untried, and not once every wall
\* was passed.
Stall ==
    /\ \/ stage = "tasks" /\ (\A t \in Tasks : Judged(t)) /\ \E t \in Tasks : verdict[t] = "bad"
       \/ stage \in {"integration", "review"}
    /\ stage' = "idle" /\ result' = "stalled_incomplete"
    /\ UNCHANGED verdict

\* A failure of the surroundings, or a cancel, may end it anywhere.
Abort ==
    /\ stage # "idle"
    /\ stage' = "idle" /\ result' \in {"error", "cancelled"}
    /\ UNCHANGED verdict

Complete ==
    /\ stage = "record"
    /\ stage' = "idle" /\ result' = "completed"
    /\ UNCHANGED verdict

Next == Start \/ (\E t \in Tasks : Judge(t)) \/ Advance \/ Stall \/ Abort \/ Complete

Spec == Init /\ [][Next]_vars
=============================================================================
