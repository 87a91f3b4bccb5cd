---------------------------- MODULE MCAgentLoop -----------------------------
(***************************************************************************)
(* An instance of AgentLoop for TLC: a build seat, a gate run, and a run   *)
(* whose provider cannot call tools.                                       *)
(***************************************************************************)
EXTENDS AgentLoop

MCKinds ==
    { [tools |-> TRUE, work |-> TRUE, seat |-> TRUE],
      [tools |-> TRUE, work |-> TRUE, seat |-> FALSE],
      [tools |-> FALSE, work |-> TRUE, seat |-> FALSE] }
=============================================================================
