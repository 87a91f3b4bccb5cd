-------------------------- MODULE MCSubagentBuild ---------------------------
(***************************************************************************)
(* An instance of SubagentBuild for TLC: three tasks in a chain, of which  *)
(* the last two share a flaky case, and a UX case no task owns.                *)
(***************************************************************************)
EXTENDS SubagentBuild, TLC

CONSTANTS a, b, ux

MCDeps == (1 :> {}) @@ (2 :> {1}) @@ (3 :> {2})
MCCasesOf == (1 :> {a}) @@ (2 :> {a, b}) @@ (3 :> {b})

\* Plans with tests, with and without a structured runner and a second model,
\* one whose stack cannot be validated, and one without any test.
MCPlans ==
    { [tested |-> {1, 2}, verifiable |-> TRUE, structured |-> TRUE, arbiter |-> FALSE],
      [tested |-> {1, 3}, verifiable |-> TRUE, structured |-> FALSE, arbiter |-> TRUE],
      [tested |-> {}, verifiable |-> FALSE, structured |-> FALSE, arbiter |-> FALSE] }
=============================================================================
