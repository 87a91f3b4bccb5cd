------------------------ MODULE SubagentBuildProofs ------------------------
(***************************************************************************)
(* The build gate, for every plan, every set of acceptance cases and every *)
(* budget: its type invariant, the transitive rule on red prerequisites,   *)
(* the walls in front of the evidence, the convergence bound, the          *)
(* refinement of BuildContract, and the cancel.                            *)
(***************************************************************************)
EXTENDS SubagentBuild, FiniteSetTheorems, TLAPS

\* The current task is a task wherever one is being built.
InTask == pc \in {"draft", "gate", "fix", "deadlock", "dod"} => cur \in Tasks

\* A fix loop is entered below the guard and is measured below the stall limit.
Budgeted ==
    /\ spent <= loops
    /\ pc \in {"fix", "ifix"} => loops < Guard
    /\ pc \in {"gate", "fix", "integrate", "ifix"} => gate.idle < StallRounds

Shaped == TypeOK /\ InTask /\ Budgeted

\* An agent is at work only where one is dispatched, and a fixer of the bounded
\* loops only with a round left.
SeatSteps == {"draft", "fix", "deadlock", "dod", "ifix", "spec", "code", "evidence"}
Seated ==
    /\ seat # "none" => pc \in SeatSteps
    /\ seat = "write" /\ pc \in {"dod", "spec", "code"} => rounds < DodRounds

Typed == Shaped /\ Seated

-----------------------------------------------------------------------------
(* Helpers                                                                 *)

\* A test run reports cases of the product only.
LEMMA ObservationsAreCases ==
    ASSUME NEW w \in SUBSET Cases, NEW c, NEW obs \in Observations(w, c)
    PROVE  obs \in SUBSET Cases
  BY DEF Observations

\* One observation keeps the ratchet well formed, and its stall counter within
\* its limit.
LEMMA ObserveKeepsType ==
    ASSUME NEW g \in Gate, g.idle < StallRounds, NEW s \in BOOLEAN, NEW obs \in SUBSET Cases,
           NEW lines \in 0..MaxLines, NEW land \in BOOLEAN
    PROVE  Observe(g, s, obs, lines, land) \in Gate
  <1>1. lines \in 0..None
    BY BudgetAssumption DEF None
  <1>2. Charge(g, Progress(g, s, obs, lines), land) \in 0..StallRounds
    BY BudgetAssumption DEF Charge, Gate
  <1>3. /\ g.best \in SUBSET Cases /\ g.seen \in BOOLEAN /\ g.least \in 0..None
    BY DEF Gate
  <1> QED
    BY <1>1, <1>2, <1>3 DEF Observe, Gate

\* What one measurement of the product can lead to.
LEMMA MeasureOutcome ==
    ASSUME TypeOK, gate.idle < StallRounds, NEW report \in BOOLEAN, NEW obs \in SUBSET Cases,
           NEW lines \in 0..MaxLines, NEW green \in BOOLEAN,
           NEW yes, NEW no, NEW stop, Measure(report, obs, lines, green, yes, no, stop)
    PROVE  /\ gate' \in Gate
           /\ \/ green /\ pc' = yes /\ FreshLoop
              \/ /\ ~green /\ pc' = no /\ gate'.idle < StallRounds /\ loops < Guard
                 /\ gate' = Observe(gate, report, obs, lines, landed) /\ UNCHANGED <<loops, spent>>
              \/ /\ ~green /\ pc' = stop
                 /\ gate' = Observe(gate, report, obs, lines, landed) /\ UNCHANGED <<loops, spent>>
  <1> DEFINE g == Observe(gate, report, obs, lines, landed)
  <1>1. g \in Gate
    BY ObserveKeepsType DEF TypeOK
  <1>2. CASE green
    <2>1. NewGate \in Gate
      BY BudgetAssumption DEF NewGate, Gate, None
    <2> QED
      BY <1>2, <2>1 DEF Measure, FreshLoop
  <1>3. CASE ~green
    <2>1. gate' = g /\ pc' = (IF GoesOn(g) THEN no ELSE stop) /\ UNCHANGED <<loops, spent>>
      BY <1>3 DEF Measure
    <2>2. GoesOn(g) => g.idle < StallRounds /\ loops < Guard
      BY <1>1, BudgetAssumption DEF GoesOn, Stalled, Gate
    <2> QED
      BY <1>1, <1>3, <2>1, <2>2
  <1> QED
    BY <1>2, <1>3

-----------------------------------------------------------------------------
(* Types                                                                   *)

LEMMA InitTyped == Init => Typed
  <1> SUFFICES ASSUME Init PROVE Typed
    OBVIOUS
  <1>1. NewGate \in Gate
    BY BudgetAssumption DEF NewGate, Gate, None
  <1>2. 1 \in 1..(N + 1) /\ 0 \in 0..Guard /\ 0 \in 0..DodRounds /\ 0 \in 0..MaxBuilds
    BY PlanAssumption, BudgetAssumption DEF DodRounds
  <1>3. [t \in Tasks |-> "pending"] \in [Tasks -> RowStatus]
    BY DEF RowStatus
  <1>4. TypeOK
    BY <1>1, <1>2, <1>3 DEF Init, TypeOK, Steps, Seats, Phases, Outcomes
  <1>5. pc = "done" /\ spent = 0 /\ loops = 0 /\ seat = "none"
    BY DEF Init
  <1> QED
    BY <1>4, <1>5 DEF Typed, Shaped, Seated, InTask, Budgeted

\* A final row keeps the matrix well formed and moves on to the next task.
LEMMA SetRowKeepsTypes ==
    ASSUME TypeOK, cur \in Tasks, NEW status \in RowStatus, SetRow(status)
    PROVE  /\ rows' \in [Tasks -> RowStatus] /\ cur' \in 1..(N + 1) /\ pc' = "task"
  <1>1. cur + 1 \in 1..(N + 1)
    BY PlanAssumption DEF Tasks
  <1> QED
    BY <1>1 DEF SetRow, TypeOK

\* At every step an agent is at work or none, and the late ones are counted.
LEMMA NextAgent ==
    ASSUME Typed, [Next]_vars
    PROVE  seat' \in Seats /\ late' \in Nat
  <1>0. seat \in Seats /\ late \in Nat
    BY DEF Typed, Shaped, TypeOK
  <1>1. CASE UNCHANGED agent
    BY <1>0, <1>1 DEF agent
  <1>2. CASE SeatEnds
    BY <1>0, <1>2 DEF SeatEnds, Seats
  <1>3. CASE Dispatch \/ \E kind \in {"spec", "code"} : ReviewFails(kind)
    BY <1>0, <1>3 DEF Dispatch, ReviewFails, Seats
  <1>4. CASE Begin
    BY <1>4 DEF Begin, Seats
  <1>5. CASE UNCHANGED vars
    BY <1>1, <1>5 DEF vars
  <1>6. ASSUME NEW kind \in {"spec", "code"}, ReviewPasses(kind) \/ ReviewFix(kind) \/ ReviewBlocks(kind)
        PROVE  SeatEnds
    BY <1>6 DEF ReviewPasses, ReviewFix, ReviewBlocks, Seat
  <1>7. CASE PreflightFails \/ PreflightPasses \/ Block \/ SkipTask \/ StartTask \/ GateCheck
             \/ DodRefuses \/ DodHolds \/ StopRed \/ EnterIntegration \/ IntegrationCheck \/ Work \/ Cancel
    <2>1. UNCHANGED agent
      BY <1>7 DEF PreflightFails, PreflightPasses, Block, SkipTask, StartTask, GateCheck,
                  DodRefuses, DodHolds, StopRed, EnterIntegration, IntegrationCheck, Work, Cancel
    <2> QED
      BY <1>1, <2>1
  <1>8. CASE InfrastructureFails \/ SeesCancel \/ DraftUntested \/ Draft \/ FixTask \/ GiveUpTask
             \/ DodFix \/ FixIntegration \/ WriteEvidence
    <2>1. SeatEnds
      BY <1>8 DEF InfrastructureFails, SeesCancel, DraftUntested, Draft, FixTask, FixPass, GiveUpTask,
                  DodFix, FixIntegration, WriteEvidence, Seat
    <2> QED
      BY <1>2, <2>1
  <1> QED
    BY <1>2, <1>3, <1>4, <1>5, <1>6, <1>7, <1>8 DEF Next, Step

\* Every step keeps the types, the task under way and the budgets.
LEMMA NextShaped == Typed /\ [Next]_vars => Shaped'
  <1> SUFFICES ASSUME Typed, [Next]_vars PROVE Shaped'
    OBVIOUS
  <1>0. TypeOK /\ InTask /\ Budgeted /\ Seated
    BY DEF Typed, Shaped
  <1>t. seat' \in Seats /\ late' \in Nat
    BY NextAgent
  <1>1. CASE InfrastructureFails
    BY <1>0, <1>t, <1>1 DEF InfrastructureFails, Finish, product, loop, env, TypeOK, InTask, Budgeted, Steps, Outcomes, Shaped
  <1>2. CASE SeesCancel
    BY <1>0, <1>t, <1>2 DEF SeesCancel, Finish, product, loop, env, TypeOK, InTask, Budgeted, Steps, Outcomes, Shaped
  <1>3. CASE PreflightFails
    BY <1>0, <1>t, <1>3 DEF PreflightFails, Finish, product, loop, env, TypeOK, InTask, Budgeted, Steps, Outcomes, Shaped
  <1>4. CASE PreflightPasses
    BY <1>0, <1>t, <1>4 DEF PreflightPasses, product, loop, env, TypeOK, InTask, Budgeted, Steps, Shaped
  <1>5. CASE Block
    <2>1. SetRow("blocked") /\ cur \in Tasks
      BY <1>5 DEF Block, AtTask
    <2>2. /\ rows' \in [Tasks -> RowStatus] /\ cur' \in 1..(N + 1) /\ pc' = "task"
      BY <1>0, <1>t, <2>1, SetRowKeepsTypes DEF RowStatus
    <2> QED
      BY <1>0, <1>t, <1>5, <2>2 DEF Block, product, loop, env, TypeOK, InTask, Budgeted, Steps, Shaped
  <1>6. CASE SkipTask
    <2>1. SetRow("pre-existing-green") /\ cur \in Tasks
      BY <1>6 DEF SkipTask, AtTask
    <2>2. /\ rows' \in [Tasks -> RowStatus] /\ cur' \in 1..(N + 1) /\ pc' = "task"
      BY <1>0, <1>t, <2>1, SetRowKeepsTypes DEF RowStatus
    <2> QED
      BY <1>0, <1>t, <1>6, <2>2 DEF SkipTask, product, loop, env, TypeOK, InTask, Budgeted, Steps, Shaped
  <1>7. CASE DraftUntested
    <2>1. SetRow("drafted-no-test") /\ cur \in Tasks
      BY <1>0, <1>7 DEF DraftUntested, InTask
    <2>2. /\ rows' \in [Tasks -> RowStatus] /\ cur' \in 1..(N + 1) /\ pc' = "task"
      BY <1>0, <1>t, <2>1, SetRowKeepsTypes DEF RowStatus
    <2> QED
      BY <1>0, <1>t, <1>7, <2>2 DEF DraftUntested, product, loop, env, TypeOK, InTask, Budgeted, Steps, Shaped
  <1>8. CASE Draft
    <2>1. NewGate \in Gate /\ NewGate.idle = 0 /\ 0 \in 0..Guard /\ 0 < StallRounds
      BY BudgetAssumption DEF NewGate, Gate, None
    <2>2. /\ cur \in Tasks /\ gate' = NewGate /\ loops' = 0 /\ spent' = 0 /\ pc' = "gate"
          /\ landed' \in BOOLEAN
          /\ UNCHANGED <<plan, works, cur, rows, rounds, blocked, trace, outcome, cancel, builds, checked, passed>>
      BY <1>0, <1>8 DEF Draft, InTask, FreshLoop, product, env
    <2>3. TypeOK'
      BY <1>0, <1>t, <2>1, <2>2 DEF TypeOK, Steps
    <2> QED
      BY <2>1, <2>2, <2>3 DEF InTask, Budgeted, Shaped
  <1>9. CASE GateCheck
    <2>1. PICK obs \in Observations(works, CasesOf[cur]), lines \in 0..MaxLines, report \in Reports :
             \E green \in {FALSE, obs = CasesOf[cur]} :
                Measure(report, obs, lines, green, "dod", "fix", "deadlock")
      BY <1>9 DEF GateCheck
    <2>2. report \in BOOLEAN /\ obs \in SUBSET Cases /\ gate.idle < StallRounds
      BY <1>0, <1>t, <1>9, PlanAssumption, ObservationsAreCases DEF Reports, Plan, TypeOK, GateCheck, Budgeted
    <2>3. /\ gate' \in Gate
          /\ \/ pc' = "dod" /\ loops' = 0 /\ spent' = 0
             \/ pc' = "fix" /\ gate'.idle < StallRounds /\ loops < Guard /\ UNCHANGED <<loops, spent>>
             \/ pc' = "deadlock" /\ UNCHANGED <<loops, spent>>
      <3>1. PICK green \in {FALSE, obs = CasesOf[cur]} :
               Measure(report, obs, lines, green, "dod", "fix", "deadlock")
        BY <2>1
      <3>2. green \in BOOLEAN
        OBVIOUS
      <3> QED
        BY <1>0, <2>2, <3>1, <3>2, MeasureOutcome DEF FreshLoop
    <2>4. cur \in Tasks /\ 0 \in 0..DodRounds /\ 0 \in 0..Guard
      BY <1>0, <1>9, BudgetAssumption DEF GateCheck, InTask, DodRounds
    <2> QED
      BY <1>0, <1>t, <1>9, <2>3, <2>4 DEF GateCheck, product, env, TypeOK, InTask, Budgeted, Steps, Shaped
  <1>10. CASE FixTask
    <2>1. loops + 1 \in 0..Guard /\ spent + 1 \in 0..Guard /\ spent <= loops /\ spent + 1 <= loops + 1 /\ spent <= loops + 1
      BY <1>0, <1>t, <1>10, BudgetAssumption DEF FixTask, Budgeted, TypeOK
    <2>2. /\ loops' = loops + 1 /\ spent' \in {spent, spent + 1} /\ pc' = "gate"
          /\ landed' \in BOOLEAN
          /\ UNCHANGED <<plan, works, cur, rows, gate, rounds, blocked, trace, outcome, cancel, builds, checked, passed>>
      BY <1>0, <1>t, <1>10 DEF FixTask, FixPass, Cycle, product, env, TypeOK
    <2>3. loops' \in 0..Guard /\ spent' \in 0..Guard /\ spent' <= loops'
      BY <1>0, <1>t, <2>1, <2>2 DEF TypeOK
    <2>4. gate'.idle < StallRounds /\ cur' \in Tasks
      BY <1>0, <1>t, <1>10, <2>2 DEF FixTask, Budgeted, InTask
    <2>5. TypeOK'
      BY <1>0, <1>t, <2>2, <2>3 DEF TypeOK, Steps
    <2> QED
      BY <2>2, <2>3, <2>4, <2>5 DEF InTask, Budgeted, Shaped
  <1>11. CASE GiveUpTask
    <2>1. SetRow("failed") /\ cur \in Tasks
      BY <1>0, <1>t, <1>11 DEF GiveUpTask, InTask
    <2>2. /\ rows' \in [Tasks -> RowStatus] /\ cur' \in 1..(N + 1) /\ pc' = "task"
      BY <1>0, <1>t, <2>1, SetRowKeepsTypes DEF RowStatus
    <2>3. NewGate \in Gate /\ 0 \in 0..Guard
      BY BudgetAssumption DEF NewGate, Gate, None
    <2> QED
      BY <1>0, <1>t, <1>11, <2>2, <2>3 DEF GiveUpTask, FreshLoop, product, env, TypeOK, InTask, Budgeted, Steps, Shaped
  <1>12. CASE DodRefuses
    <2>1. SetRow("failed") /\ cur \in Tasks
      BY <1>0, <1>t, <1>12 DEF DodRefuses, InTask
    <2>2. /\ rows' \in [Tasks -> RowStatus] /\ cur' \in 1..(N + 1) /\ pc' = "task"
      BY <1>0, <1>t, <2>1, SetRowKeepsTypes DEF RowStatus
    <2> QED
      BY <1>0, <1>t, <1>12, <2>2 DEF DodRefuses, product, loop, env, TypeOK, InTask, Budgeted, Steps, Shaped
  <1>13. CASE DodHolds
    <2>1. SetRow("green") /\ cur \in Tasks
      BY <1>0, <1>t, <1>13 DEF DodHolds, InTask
    <2>2. /\ rows' \in [Tasks -> RowStatus] /\ cur' \in 1..(N + 1) /\ pc' = "task"
      BY <1>0, <1>t, <2>1, SetRowKeepsTypes DEF RowStatus
    <2> QED
      BY <1>0, <1>t, <1>13, <2>2 DEF DodHolds, product, loop, env, TypeOK, InTask, Budgeted, Steps, Shaped
  <1>14. CASE DodFix
    <2>1. cur \in Tasks /\ rounds + 1 \in 0..DodRounds
      BY <1>0, <1>14, BudgetAssumption DEF DodFix, Seat, Seated, InTask, TypeOK, DodRounds
    <2>2. UNCHANGED <<pc, cur, rows>> \/ SetRow("failed")
      BY <1>14 DEF DodFix
    <2>3. /\ rows' \in [Tasks -> RowStatus] /\ cur' \in 1..(N + 1)
          /\ \/ pc' = "task"
             \/ pc' = "dod" /\ cur' = cur
      BY <1>0, <1>t, <1>14, <2>1, <2>2, SetRowKeepsTypes DEF RowStatus, TypeOK, DodFix
    <2> QED
      BY <1>0, <1>t, <1>14, <2>1, <2>3 DEF DodFix, product, loop, env, TypeOK, InTask, Budgeted, Steps, Shaped
  <1>15. CASE StopRed
    BY <1>0, <1>t, <1>15 DEF StopRed, Finish, product, loop, env, TypeOK, InTask, Budgeted, Steps, Phases, Outcomes, Shaped
  <1>16. CASE EnterIntegration
    <2>1. NewGate \in Gate /\ NewGate.idle = 0 /\ 0 \in 0..Guard /\ 0 < StallRounds
      BY BudgetAssumption DEF NewGate, Gate, None
    <2> QED
      BY <1>0, <1>t, <1>16, <2>1 DEF EnterIntegration, FreshLoop, Finish, product, env, TypeOK, InTask, Budgeted, Steps, Outcomes, Shaped
  <1>17. CASE IntegrationCheck
    <2>1. PICK obs \in Observations(works, Cases), obs2 \in Observations(works, PlanCases),
               lines \in 0..MaxLines, report \in Reports :
             /\ Measure(report, obs2, lines, WholeGreen(works, obs), "spec", "ifix", "done")
             /\ checked' = WholeGreen(works, obs)
             /\ trace' = IF pc' = "done" THEN "stalled-incomplete"
                         ELSE IF WholeGreen(works, obs) THEN "integration" ELSE trace
             /\ outcome' = IF pc' = "done" THEN "stalled_incomplete" ELSE outcome
      BY <1>17 DEF IntegrationCheck
    <2>2. report \in BOOLEAN /\ obs2 \in SUBSET Cases /\ WholeGreen(works, obs) \in BOOLEAN
      BY <1>0, <1>t, PlanAssumption, ObservationsAreCases DEF Reports, Plan, TypeOK, WholeGreen
    <2>3. gate.idle < StallRounds /\ 0 \in 0..DodRounds /\ 0 \in 0..Guard
      BY <1>0, <1>t, <1>17, BudgetAssumption DEF IntegrationCheck, Budgeted, DodRounds
    <2>4. /\ gate' \in Gate
          /\ \/ pc' = "spec" /\ loops' = 0 /\ spent' = 0
             \/ pc' = "ifix" /\ gate'.idle < StallRounds /\ loops < Guard /\ UNCHANGED <<loops, spent>>
             \/ pc' = "done" /\ UNCHANGED <<loops, spent>>
      BY <1>0, <2>1, <2>2, <2>3, MeasureOutcome DEF FreshLoop
    <2>5. trace' \in Phases /\ outcome' \in Outcomes /\ checked' \in BOOLEAN
      BY <1>0, <1>t, <2>1, <2>2 DEF TypeOK, Phases, Outcomes
    <2> QED
      BY <1>0, <1>t, <1>17, <2>3, <2>4, <2>5 DEF IntegrationCheck, product, env, TypeOK, InTask, Budgeted, Steps, Shaped
  <1>18. CASE FixIntegration
    <2>1. loops + 1 \in 0..Guard /\ spent + 1 \in 0..Guard /\ spent <= loops /\ spent + 1 <= loops + 1 /\ spent <= loops + 1
      BY <1>0, <1>t, <1>18, BudgetAssumption DEF FixIntegration, Budgeted, TypeOK
    <2>2. /\ loops' = loops + 1 /\ spent' \in {spent, spent + 1} /\ pc' = "integrate"
          /\ landed' \in BOOLEAN
          /\ UNCHANGED <<plan, works, cur, rows, gate, rounds, blocked, trace, outcome, cancel, builds, checked, passed>>
      BY <1>0, <1>t, <1>18 DEF FixIntegration, FixPass, Cycle, product, env, TypeOK
    <2>3. loops' \in 0..Guard /\ spent' \in 0..Guard /\ spent' <= loops'
      BY <1>0, <1>t, <2>1, <2>2 DEF TypeOK
    <2>4. gate'.idle < StallRounds
      BY <1>0, <1>t, <1>18, <2>2 DEF FixIntegration, Budgeted
    <2>5. TypeOK'
      BY <1>0, <1>t, <2>2, <2>3 DEF TypeOK, Steps
    <2> QED
      BY <2>2, <2>3, <2>4, <2>5 DEF InTask, Budgeted, Shaped
  <1>19. ASSUME NEW kind \in {"spec", "code"}, ReviewPasses(kind) PROVE Shaped'
    <2>1. 0 \in 0..DodRounds
      BY BudgetAssumption DEF DodRounds
    <2> QED
      BY <1>0, <1>t, <1>19, <2>1 DEF ReviewPasses, AfterReview, Finish, product, loop, env, TypeOK, InTask, Budgeted, Steps, Phases, Outcomes, Shaped
  <1>20. ASSUME NEW kind \in {"spec", "code"}, ReviewFix(kind) PROVE Shaped'
    <2>1. rounds + 1 \in 0..DodRounds
      BY <1>0, <1>20, BudgetAssumption DEF ReviewFix, Seat, Seated, TypeOK, DodRounds
    <2>2. checked' \in BOOLEAN
      BY <1>20 DEF ReviewFix, Recheck, WholeGreen
    <2> QED
      BY <1>0, <1>t, <1>20, <2>1, <2>2 DEF ReviewFix, Finish, product, loop, env, TypeOK, InTask, Budgeted, Steps, Phases, Outcomes, Shaped
  <1>21. ASSUME NEW kind \in {"spec", "code"}, ReviewBlocks(kind) PROVE Shaped'
    <2>1. 0 \in 0..DodRounds
      BY BudgetAssumption DEF DodRounds
    <2> QED
      BY <1>0, <1>t, <1>21, <2>1 DEF ReviewBlocks, AfterReview, Unresolved, Finish, product, loop, env, TypeOK, InTask, Budgeted, Steps, Phases, Outcomes, Shaped
  <1>22. CASE WriteEvidence
    BY <1>0, <1>t, <1>22 DEF WriteEvidence, Finish, product, loop, env, TypeOK, InTask, Budgeted, Steps, Phases, Outcomes, Shaped
  <1>23. CASE Begin
    <2>1. NewGate \in Gate /\ 0 \in 0..Guard /\ 0 \in 0..DodRounds /\ 1 \in 1..(N + 1)
      BY PlanAssumption, BudgetAssumption DEF NewGate, Gate, None, DodRounds
    <2>2. builds' \in 0..MaxBuilds
      <3>1. builds \in 0..MaxBuilds /\ builds < MaxBuilds /\ builds' = builds + 1
        BY <1>0, <1>t, <1>23 DEF Begin, TypeOK
      <3> QED
        BY <3>1, BudgetAssumption
    <2>3. [t \in Tasks |-> "pending"] \in [Tasks -> RowStatus]
      BY DEF RowStatus
    <2>4. /\ pc' = "preflight" /\ cur' = 1 /\ rows' = [t \in Tasks |-> "pending"]
          /\ gate' = NewGate /\ landed' = TRUE /\ loops' = 0 /\ spent' = 0 /\ rounds' = 0
          /\ blocked' = {} /\ trace' = "" /\ outcome' = "none" /\ cancel' = FALSE
          /\ UNCHANGED <<plan, works, checked, passed>>
      BY <1>23 DEF Begin, product
    <2>5. TypeOK'
      BY <1>0, <1>t, <2>1, <2>2, <2>3, <2>4 DEF TypeOK, Steps, Phases, Outcomes
    <2>6. pc' = "preflight" /\ spent' = 0 /\ loops' = 0
      BY <2>4
    <2> QED
      BY <2>5, <2>6 DEF InTask, Budgeted, Shaped
  <1>26. CASE Dispatch
    BY <1>0, <1>t, <1>26 DEF Dispatch, product, loop, env, TypeOK, InTask, Budgeted, Shaped
  <1>27. CASE Work
    BY <1>0, <1>t, <1>27 DEF Work, loop, env, TypeOK, InTask, Budgeted, Shaped
  <1>28. CASE StartTask
    BY <1>0, <1>t, <1>28 DEF StartTask, AtTask, product, loop, env, TypeOK, InTask, Budgeted, Steps, Shaped
  <1>29. ASSUME NEW kind \in {"spec", "code"}, ReviewFails(kind) PROVE Shaped'
    BY <1>0, <1>t, <1>29 DEF ReviewFails, product, loop, env, TypeOK, InTask, Budgeted, Shaped
  <1>24. CASE Cancel
    BY <1>0, <1>t, <1>24 DEF Cancel, product, loop, TypeOK, InTask, Budgeted, Shaped
  <1>25. CASE UNCHANGED vars
    BY <1>0, <1>t, <1>25 DEF vars, product, loop, env, TypeOK, InTask, Budgeted, Shaped
  <1> QED
    BY <1>1, <1>2, <1>3, <1>4, <1>5, <1>6, <1>7, <1>8, <1>9, <1>10, <1>11, <1>12, <1>13, <1>14,
       <1>15, <1>16, <1>17, <1>18, <1>19, <1>20, <1>21, <1>22, <1>23, <1>24, <1>25,
       <1>26, <1>27, <1>28, <1>29 DEF Next, Step

\* An agent is at work only where one was dispatched.
LEMMA NextSeated == Typed /\ [Next]_vars => Seated'
  <1> SUFFICES ASSUME Typed, [Next]_vars PROVE Seated'
    OBVIOUS
  <1>0. seat \in Seats /\ Seated
    BY DEF Typed, Shaped, TypeOK
  <1>1. ASSUME seat' = "none" PROVE Seated'
    BY <1>1 DEF Seated
  <1>2. CASE PreflightFails \/ PreflightPasses \/ Block \/ SkipTask \/ StartTask \/ GateCheck
             \/ DodRefuses \/ DodHolds \/ StopRed \/ EnterIntegration \/ IntegrationCheck
    <2>1. UNCHANGED seat
      BY <1>2 DEF PreflightFails, PreflightPasses, Block, SkipTask, StartTask, GateCheck,
                  DodRefuses, DodHolds, StopRed, EnterIntegration, IntegrationCheck, agent
    <2>2. pc \in {"preflight", "task", "gate", "integrate"} \/ seat = "none"
      BY <1>2 DEF PreflightFails, PreflightPasses, Block, SkipTask, StartTask, AtTask, GateCheck,
                  DodRefuses, DodHolds, StopRed, EnterIntegration, AllTried, IntegrationCheck
    <2> QED
      BY <1>0, <1>1, <2>1, <2>2 DEF Seated, SeatSteps
  <1>3. CASE InfrastructureFails \/ SeesCancel \/ DraftUntested \/ Draft \/ FixTask \/ GiveUpTask
             \/ DodFix \/ FixIntegration \/ WriteEvidence \/ Begin
    <2>1. seat' = "none"
      BY <1>3 DEF InfrastructureFails, SeesCancel, DraftUntested, Draft, FixTask, FixPass, GiveUpTask,
                  DodFix, FixIntegration, WriteEvidence, Seat, SeatEnds, Begin
    <2> QED
      BY <1>1, <2>1
  <1>4. ASSUME NEW kind \in {"spec", "code"}, ReviewPasses(kind) \/ ReviewFix(kind) \/ ReviewBlocks(kind)
        PROVE  Seated'
    <2>1. seat' = "none"
      BY <1>4 DEF ReviewPasses, ReviewFix, ReviewBlocks, Seat, SeatEnds
    <2> QED
      BY <1>1, <2>1
  <1>5. ASSUME NEW kind \in {"spec", "code"}, ReviewFails(kind) PROVE Seated'
    BY <1>5 DEF ReviewFails, Seated, SeatSteps
  <1>6. CASE Dispatch
    <2>1. /\ SeatIsNext /\ UNCHANGED <<pc, rounds>>
          /\ seat' = IF pc \in {"spec", "code"} THEN "read" ELSE "write"
      BY <1>6 DEF Dispatch
    <2> QED
      BY <2>1 DEF SeatIsNext, Seated, SeatSteps
  <1>7. CASE Work \/ Cancel \/ UNCHANGED vars
    <2>1. UNCHANGED <<seat, pc, rounds>>
      BY <1>7 DEF Work, Cancel, vars, agent
    <2> QED
      BY <1>0, <2>1 DEF Seated
  <1> QED
    BY <1>2, <1>3, <1>4, <1>5, <1>6, <1>7 DEF Next, Step

LEMMA NextTyped == Typed /\ [Next]_vars => Typed'
  BY NextShaped, NextSeated DEF Typed

\* The type invariant of the build gate, for every plan and every budget: the
\* fix loops stay under their guard and the stall counter within its limit.
THEOREM BuildTypeCorrect == Spec => []TypeOK
  <1>1. Typed => TypeOK
    BY DEF Typed, Shaped
  <1> QED
    BY <1>1, InitTyped, NextTyped, PTL DEF Spec

-----------------------------------------------------------------------------
(* Red prerequisites                                                       *)

\* The rows below the current task are final, the others are open; and a row
\* that is not red rests on earlier rows that are not red.
Matrix ==
    /\ \A t \in Tasks : rows[t] = "pending" <=> cur <= t
    /\ \A t \in Tasks : rows[t] \notin Bad /\ t < cur =>
          \A d \in Deps[t] : d < t => rows[d] \notin Bad

\* A task is worked on only with no red prerequisite, and what follows the
\* tasks is reached only with every one of them settled.
Positions ==
    /\ pc \in {"draft", "gate", "fix", "deadlock", "dod"} => ~FailedOrBlocked(cur)
    /\ pc \in {"integrate", "ifix", "spec", "code", "evidence"} =>
          \A t \in Tasks : rows[t] \in Settled

\* A final row keeps the matrix sound, if a good one has no red prerequisite.
LEMMA SetRowKeepsMatrix ==
    ASSUME TypeOK, Matrix, cur \in Tasks, NEW status \in RowStatus \ {"pending"}, SetRow(status),
           status \in Bad \/ ~FailedOrBlocked(cur)
    PROVE  Matrix' /\ pc' = "task"
  <1>1. /\ cur' = cur + 1 /\ pc' = "task" /\ cur \in Int
        /\ \A t \in Tasks : rows'[t] = IF t = cur THEN status ELSE rows[t]
    BY PlanAssumption DEF SetRow, TypeOK, Tasks
  <1>2. ASSUME NEW t \in Tasks PROVE rows'[t] = "pending" <=> cur' <= t
    <2>1. t \in Int
      BY PlanAssumption DEF Tasks
    <2> QED
      BY <1>1, <2>1 DEF Matrix
  <1>3. ASSUME NEW t \in Tasks, rows'[t] \notin Bad, t < cur', NEW d \in Deps[t], d < t
        PROVE  rows'[d] \notin Bad
    <2>1. t \in Int /\ d \in Tasks /\ d \in Int /\ t <= cur /\ d # cur
      BY <1>1, <1>3, PlanAssumption DEF Tasks
    <2>2. rows'[d] = rows[d]
      BY <1>1, <2>1
    <2>3. CASE t = cur
      BY <1>1, <1>3, <2>1, <2>2, <2>3 DEF FailedOrBlocked
    <2>4. CASE t # cur
      BY <1>1, <1>3, <2>1, <2>2, <2>4 DEF Matrix
    <2> QED
      BY <2>3, <2>4
  <1> QED
    BY <1>1, <1>2, <1>3 DEF Matrix

\* A step that leaves rows and current task alone leaves the matrix sound.
LEMMA SameMatrix ==
    ASSUME Matrix, UNCHANGED <<cur, rows>>
    PROVE  Matrix'
  BY DEF Matrix

LEMMA NextMatrix == Typed /\ Matrix /\ Positions /\ [Next]_vars => Matrix' /\ Positions'
  <1> SUFFICES ASSUME Typed, Matrix, Positions, [Next]_vars PROVE Matrix' /\ Positions'
    OBVIOUS
  <1>0. TypeOK /\ InTask
    BY DEF Typed, Shaped
  <1>1. CASE InfrastructureFails
    BY <1>1, SameMatrix DEF InfrastructureFails, Finish, Positions
  <1>2. CASE SeesCancel
    BY <1>2, SameMatrix DEF SeesCancel, Finish, Positions
  <1>3. CASE PreflightFails \/ PreflightPasses
    BY <1>3, SameMatrix DEF PreflightFails, PreflightPasses, Finish, Positions
  <1>4. CASE Block
    <2>1. SetRow("blocked") /\ cur \in Tasks
      BY <1>4 DEF Block, AtTask
    <2> QED
      BY <1>0, <2>1, SetRowKeepsMatrix DEF RowStatus, Bad, Positions
  <1>5. CASE SkipTask
    <2>1. SetRow("pre-existing-green") /\ cur \in Tasks /\ ~FailedOrBlocked(cur)
      BY <1>5 DEF SkipTask, AtTask
    <2> QED
      BY <1>0, <2>1, SetRowKeepsMatrix DEF RowStatus, Positions
  <1>6. CASE DraftUntested
    <2>1. SetRow("drafted-no-test") /\ cur \in Tasks /\ ~FailedOrBlocked(cur)
      BY <1>0, <1>6 DEF DraftUntested, InTask, Positions
    <2> QED
      BY <1>0, <2>1, SetRowKeepsMatrix DEF RowStatus, Positions
  <1>7. CASE StartTask \/ Draft
    <2>1. UNCHANGED <<cur, rows>> /\ pc' \in {"draft", "gate"} /\ ~FailedOrBlocked(cur)
      BY <1>7 DEF StartTask, Draft, Positions
    <2> QED
      BY <2>1, SameMatrix DEF Positions, FailedOrBlocked
  <1>8. CASE GateCheck
    <2>1. UNCHANGED <<cur, rows>> /\ pc' \in {"dod", "fix", "deadlock"} /\ pc = "gate"
      BY <1>8 DEF GateCheck, Measure
    <2> QED
      BY <2>1, SameMatrix DEF Positions, FailedOrBlocked
  <1>9. CASE FixTask
    <2>1. UNCHANGED <<cur, rows>> /\ pc' = "gate" /\ pc = "fix"
      BY <1>9 DEF FixTask
    <2> QED
      BY <2>1, SameMatrix DEF Positions, FailedOrBlocked
  <1>10. CASE GiveUpTask \/ DodRefuses
    <2>1. SetRow("failed") /\ cur \in Tasks
      BY <1>0, <1>10 DEF GiveUpTask, DodRefuses, InTask
    <2> QED
      BY <1>0, <2>1, SetRowKeepsMatrix DEF RowStatus, Bad, Positions
  <1>11. CASE DodHolds
    <2>1. SetRow("green") /\ cur \in Tasks /\ ~FailedOrBlocked(cur)
      BY <1>0, <1>11 DEF DodHolds, InTask, Positions
    <2> QED
      BY <1>0, <2>1, SetRowKeepsMatrix DEF RowStatus, Positions
  <1>12. CASE DodFix
    <2>1. pc = "dod" /\ cur \in Tasks
      BY <1>0, <1>12 DEF DodFix, InTask
    <2>2. CASE UNCHANGED <<pc, cur, rows>>
      BY <2>1, <2>2, SameMatrix DEF Positions, FailedOrBlocked
    <2>3. CASE SetRow("failed")
      BY <1>0, <2>1, <2>3, SetRowKeepsMatrix DEF RowStatus, Bad, Positions
    <2> QED
      BY <1>12, <2>2, <2>3 DEF DodFix
  <1>13. CASE StopRed
    BY <1>13, SameMatrix DEF StopRed, Finish, Positions
  <1>14. CASE EnterIntegration
    <2>1. /\ UNCHANGED <<cur, rows>> /\ pc' \in {"done", "integrate"} /\ cur = N + 1
          /\ \A t \in Tasks : rows[t] \notin Bad
      BY <1>14 DEF EnterIntegration, AllTried, SomeRed, Finish
    <2>2. \A t \in Tasks : rows[t] # "pending"
      BY <2>1, PlanAssumption DEF Matrix, Tasks
    <2>3. \A t \in Tasks : rows[t] \in Settled
      BY <1>0, <2>1, <2>2 DEF TypeOK, RowStatus, Settled, Bad
    <2> QED
      BY <2>1, <2>3, SameMatrix DEF Positions
  <1>15. CASE IntegrationCheck
    <2>1. UNCHANGED <<cur, rows>> /\ pc' \in {"spec", "ifix", "done"} /\ pc = "integrate"
      BY <1>15 DEF IntegrationCheck, Measure
    <2> QED
      BY <2>1, SameMatrix DEF Positions
  <1>16. CASE FixIntegration
    BY <1>16, SameMatrix DEF FixIntegration, Positions
  <1>17. ASSUME NEW kind \in {"spec", "code"}, ReviewPasses(kind) \/ ReviewFix(kind) \/ ReviewBlocks(kind)
         PROVE  Matrix' /\ Positions'
    <2>1. UNCHANGED <<cur, rows>> /\ pc = kind /\ pc' \in {"spec", "code", "evidence", "done"}
      BY <1>17 DEF ReviewPasses, ReviewFix, ReviewBlocks, AfterReview, Finish
    <2> QED
      BY <2>1, SameMatrix DEF Positions
  <1>18. CASE WriteEvidence
    BY <1>18, SameMatrix DEF WriteEvidence, Finish, Positions
  <1>19. CASE Begin
    <2>1. cur' = 1 /\ rows' = [t \in Tasks |-> "pending"] /\ pc' = "preflight"
      BY <1>19 DEF Begin
    <2>2. \A t \in Tasks : t \in Int /\ 1 <= t
      BY PlanAssumption DEF Tasks
    <2>3. Matrix'
      BY <2>1, <2>2 DEF Matrix, Bad
    <2> QED
      BY <2>1, <2>3 DEF Positions
  <1>20. CASE Dispatch \/ Work \/ Cancel \/ UNCHANGED vars
    <2>1. UNCHANGED <<cur, rows, pc>>
      BY <1>20 DEF Dispatch, Work, Cancel, vars
    <2> QED
      BY <2>1, SameMatrix DEF Positions, FailedOrBlocked
  <1>21. ASSUME NEW kind \in {"spec", "code"}, ReviewFails(kind) PROVE Matrix' /\ Positions'
    <2>1. UNCHANGED <<cur, rows, pc>>
      BY <1>21 DEF ReviewFails
    <2> QED
      BY <2>1, SameMatrix DEF Positions, FailedOrBlocked
  <1> QED
    BY <1>1, <1>2, <1>3, <1>4, <1>5, <1>6, <1>7, <1>8, <1>9, <1>10, <1>11, <1>12, <1>13, <1>14,
       <1>15, <1>16, <1>17, <1>18, <1>19, <1>20, <1>21 DEF Next, Step

LEMMA InitMatrix == Init => Matrix /\ Positions
  <1> SUFFICES ASSUME Init PROVE Matrix /\ Positions
    OBVIOUS
  <1>1. cur = 1 /\ rows = [t \in Tasks |-> "pending"] /\ pc = "done"
    BY DEF Init
  <1>2. \A t \in Tasks : t \in Int /\ 1 <= t
    BY PlanAssumption DEF Tasks
  <1> QED
    BY <1>1, <1>2 DEF Matrix, Positions, Bad

\* The tasks below the current one that are not red are closed under earlier
\* prerequisites.
LEMMA SoundPrerequisites == TypeOK /\ InTask /\ Matrix /\ Positions => NoWorkOnRedPrerequisite
  <1> SUFFICES ASSUME TypeOK, InTask, Matrix, Positions, pc \in {"draft", "gate", "fix", "dod"}
               PROVE  \E S \in SUBSET (1..(cur - 1)) :
                         /\ Deps[cur] \cap 1..(cur - 1) \subseteq S
                         /\ \A t \in S : rows[t] \notin Bad /\ Deps[t] \cap 1..(t - 1) \subseteq S
    BY DEF NoWorkOnRedPrerequisite
  <1> DEFINE S == {t \in 1..(cur - 1) : rows[t] \notin Bad}
  <1>1. cur \in Tasks /\ cur \in Int /\ ~FailedOrBlocked(cur)
    BY PlanAssumption DEF InTask, Positions, Tasks
  <1>2. Deps[cur] \cap 1..(cur - 1) \subseteq S
    BY <1>1 DEF FailedOrBlocked
  <1>3. ASSUME NEW t \in S, NEW d \in Deps[t] \cap 1..(t - 1) PROVE d \in S
    <2>1. t \in Tasks /\ t \in Int /\ t < cur /\ rows[t] \notin Bad
      BY <1>1, PlanAssumption DEF Tasks
    <2>2. d \in Int /\ d < t /\ d \in 1..(cur - 1)
      BY <1>1, <2>1
    <2> QED
      BY <2>1, <2>2 DEF Matrix
  <1>4. S \in SUBSET (1..(cur - 1)) /\ \A t \in S : rows[t] \notin Bad
    OBVIOUS
  <1> QED
    BY <1>2, <1>3, <1>4

\* For every plan, however its prerequisites are chained: nothing is built on
\* a red task, directly or through others.
THEOREM RedStopsTheChain == Spec => []NoWorkOnRedPrerequisite
  <1>1. Typed => TypeOK /\ InTask
    BY DEF Typed, Shaped
  <1> QED
    BY <1>1, InitTyped, NextTyped, InitMatrix, NextMatrix, SoundPrerequisites, PTL DEF Spec

-----------------------------------------------------------------------------
(* The walls in front of the evidence                                      *)

\* From integration on, the product passed the whole validation, as long as no
\* fixer is at work on it.
Walls ==
    /\ pc \in {"spec", "code", "evidence"} /\ seat # "write" => checked
    /\ pc = "evidence" => blocked = {}
    /\ pc = "evidence" /\ seat # "write" => "code" \in passed

LEMMA NextWalls == Typed /\ Walls /\ [Next]_vars => Walls'
  <1> SUFFICES ASSUME Typed, Walls, [Next]_vars PROVE Walls'
    OBVIOUS
  <1>1. CASE IntegrationCheck
    <2>1. PICK obs \in Observations(works, Cases), obs2 \in Observations(works, PlanCases),
               lines \in 0..MaxLines, report \in Reports :
             /\ Measure(report, obs2, lines, WholeGreen(works, obs), "spec", "ifix", "done")
             /\ checked' = WholeGreen(works, obs)
      BY <1>1 DEF IntegrationCheck
    <2>2. pc' \in {"ifix", "done"} \/ (pc' = "spec" /\ WholeGreen(works, obs))
      BY <2>1 DEF Measure
    <2> QED
      BY <2>1, <2>2 DEF Walls
  <1>2. ASSUME NEW kind \in {"spec", "code"}, ReviewPasses(kind) PROVE Walls'
    <2>1. /\ pc = kind /\ seat = "read" /\ checked' = checked /\ blocked' = blocked
          /\ passed' = passed \cup {kind}
      BY <1>2 DEF ReviewPasses
    <2>2. pc' \in {"code", "done"} \/ (pc' = "evidence" /\ kind = "code" /\ blocked = {})
      BY <1>2 DEF ReviewPasses, AfterReview, Finish
    <2> QED
      BY <2>1, <2>2 DEF Walls
  <1>3. ASSUME NEW kind \in {"spec", "code"}, ReviewFix(kind) PROVE Walls'
    <2>1. pc' = "done" \/ (pc' = kind /\ checked')
      BY <1>3 DEF ReviewFix, Finish
    <2> QED
      BY <2>1 DEF Walls
  <1>4. ASSUME NEW kind \in {"spec", "code"}, ReviewBlocks(kind) PROVE Walls'
    <2>1. pc = kind /\ seat = "read" /\ checked' = checked /\ kind \in blocked'
      BY <1>4 DEF ReviewBlocks, Unresolved
    <2>2. pc' \in {"code", "done"}
      BY <1>4, <2>1 DEF ReviewBlocks, AfterReview, Finish
    <2> QED
      BY <2>1, <2>2 DEF Walls
  <1>5. CASE Cancel \/ UNCHANGED vars
    <2>1. UNCHANGED <<pc, seat, checked, blocked, passed>>
      BY <1>5 DEF Cancel, agent, vars
    <2> QED
      BY <2>1 DEF Walls
  <1>11. CASE Dispatch
    <2>1. seat = "none" /\ UNCHANGED <<pc, checked, blocked, passed>>
      BY <1>11 DEF Dispatch
    <2> QED
      BY <2>1 DEF Walls
  <1>12. CASE Work
    <2>1. seat = "write" /\ seat' = seat /\ UNCHANGED <<pc, blocked>>
      BY <1>12 DEF Work, agent
    <2> QED
      BY <2>1 DEF Walls
  <1>13. ASSUME NEW kind \in {"spec", "code"}, ReviewFails(kind) PROVE Walls'
    <2>1. pc = kind /\ seat' = "write" /\ UNCHANGED <<pc, blocked>>
      BY <1>13 DEF ReviewFails
    <2> QED
      BY <2>1 DEF Walls
  <1>6. CASE InfrastructureFails \/ SeesCancel \/ PreflightFails \/ StopRed \/ WriteEvidence
    <2>1. pc' = "done"
      BY <1>6 DEF InfrastructureFails, SeesCancel, PreflightFails, StopRed, WriteEvidence, Finish
    <2> QED
      BY <2>1 DEF Walls
  <1>7. CASE PreflightPasses \/ Block \/ SkipTask \/ DraftUntested \/ GiveUpTask \/ DodRefuses \/ DodHolds
    <2>1. pc' = "task"
      BY <1>7 DEF PreflightPasses, Block, SkipTask, DraftUntested, GiveUpTask, DodRefuses, DodHolds, SetRow
    <2> QED
      BY <2>1 DEF Walls
  <1>8. CASE StartTask \/ Draft \/ GateCheck \/ FixTask \/ FixIntegration \/ Begin
    <2>1. pc' \in {"draft", "gate", "dod", "fix", "deadlock", "integrate", "preflight"}
      BY <1>8 DEF StartTask, Draft, GateCheck, Measure, FixTask, FixIntegration, Begin
    <2> QED
      BY <2>1 DEF Walls
  <1>9. CASE DodFix
    <2>1. pc' \in {"dod", "task"}
      BY <1>9 DEF DodFix, SetRow
    <2> QED
      BY <2>1 DEF Walls
  <1>10. CASE EnterIntegration
    <2>1. pc' \in {"done", "integrate"}
      BY <1>10 DEF EnterIntegration, Finish
    <2> QED
      BY <2>1 DEF Walls
  <1> QED
    BY <1>1, <1>2, <1>3, <1>4, <1>5, <1>6, <1>7, <1>8, <1>9, <1>10, <1>11, <1>12, <1>13 DEF Next, Step

\* No evidence without every wall, for every plan and every budget of reviews.
THEOREM EvidenceBehindWalls == Spec => []WallsBeforeEvidence
  <1>1. Init => Walls
    BY DEF Init, Walls
  <1>2. Positions /\ Walls => WallsBeforeEvidence
    BY DEF Positions, Walls, WallsBeforeEvidence
  <1> QED
    BY <1>1, <1>2, InitTyped, NextTyped, InitMatrix, NextMatrix, NextWalls, PTL DEF Spec

-----------------------------------------------------------------------------
(* Converge or stall                                                       *)

\* One charged cycle too many may be on its way from a seat to the measurement
\* that judges it.
Pending == IF landed THEN 1 ELSE 0

Ratchet ==
    /\ ~gate.seen => gate.best = {}
    /\ pc \in {"fix", "ifix"} => spent <= StallRounds * Rank(gate) + gate.idle
    /\ pc \in {"gate", "integrate"} => spent <= StallRounds * Rank(gate) + gate.idle + Pending

\* The rank of a ratchet is a natural number.
LEMMA RankType ==
    ASSUME NEW g \in Gate
    PROVE  Rank(g) \in Nat
  <1>1. g.best \in SUBSET Cases /\ g.least \in 0..None /\ None \in Nat
    BY BudgetAssumption DEF Gate, None
  <1>2. IsFiniteSet(g.best)
    BY <1>1, PlanAssumption, FS_Subset
  <1>3. Cardinality(g.best) \in Nat
    BY <1>2, FS_CardinalityType
  <1> QED
    BY <1>1, <1>3 DEF Rank

\* Progress raises the rank; without progress only the charge changes.
LEMMA ObserveRank ==
    ASSUME NEW g \in Gate, ~g.seen => g.best = {}, NEW s \in BOOLEAN, NEW obs \in SUBSET Cases,
           NEW lines \in 0..MaxLines, NEW land \in BOOLEAN, g.idle < StallRounds,
           Observe(g, s, obs, lines, land) \in Gate
    PROVE  LET h == Observe(g, s, obs, lines, land) IN
           /\ ~h.seen => h.best = {}
           /\ \/ Rank(g) + 1 <= Rank(h) /\ h.idle = 0
              \/ Rank(h) = Rank(g) /\ h.idle = g.idle + (IF land THEN 1 ELSE 0)
  <1> DEFINE h == Observe(g, s, obs, lines, land)
             p == Progress(g, s, obs, lines)
  <1>1. /\ h.best = IF s /\ p THEN obs ELSE g.best
        /\ h.seen = (g.seen \/ s)
        /\ h.least = IF ~s /\ p THEN lines ELSE g.least
        /\ h.idle = IF p THEN 0 ELSE IF land THEN g.idle + 1 ELSE g.idle
    BY DEF Observe, Charge
  <1>2. g.best \in SUBSET Cases /\ g.seen \in BOOLEAN /\ g.least \in 0..None /\ g.idle \in 0..StallRounds
    BY DEF Gate
  <1>3. None \in Nat /\ MaxLines \in Nat /\ None = MaxLines + 1 /\ StallRounds \in Nat
    BY BudgetAssumption DEF None
  <1>4. IsFiniteSet(g.best) /\ IsFiniteSet(obs)
    BY <1>2, PlanAssumption, FS_Subset
  <1>5. Cardinality(g.best) \in Nat /\ Cardinality(obs) \in Nat
    BY <1>4, FS_CardinalityType
  <1>6. CASE p /\ s
    <2>1. h.best = obs /\ h.seen = TRUE /\ h.least = g.least /\ h.idle = 0
      BY <1>1, <1>6
    <2>2. CASE ~g.seen
      <3>1. Cardinality(g.best) = 0
        BY <2>2, FS_EmptySet
      <3> QED
        BY <1>2, <1>3, <1>5, <2>1, <2>2, <3>1 DEF Rank
    <2>3. CASE g.seen
      <3>1. g.best \subseteq obs /\ obs # g.best
        BY <1>6, <2>3 DEF Progress, Grows
      <3>2. Cardinality(g.best) <= Cardinality(obs) /\ Cardinality(obs) # Cardinality(g.best)
        BY <1>4, <3>1, FS_Subset
      <3>3. Cardinality(g.best) + 1 <= Cardinality(obs)
        BY <1>5, <3>2
      <3> QED
        BY <1>2, <1>3, <1>5, <2>1, <2>3, <3>3 DEF Rank
    <2> QED
      BY <1>2, <2>2, <2>3
  <1>7. CASE p /\ ~s
    <2>1. h.best = g.best /\ h.seen = g.seen /\ h.least = lines /\ h.idle = 0
      BY <1>1, <1>2, <1>7
    <2>2. lines < g.least
      BY <1>2, <1>3, <1>7 DEF Progress
    <2> QED
      BY <1>2, <1>3, <1>5, <2>1, <2>2 DEF Rank
  <1>8. CASE ~p
    <2>1. h.best = g.best /\ h.least = g.least /\ h.idle = g.idle + (IF land THEN 1 ELSE 0)
      BY <1>1, <1>2, <1>8
    <2>2. h.seen = g.seen
      BY <1>1, <1>2, <1>8 DEF Progress
    <2> QED
      BY <2>1, <2>2 DEF Rank
  <1> QED
    BY <1>6, <1>7, <1>8

\* What a measurement leaves of the bound.
LEMMA MeasureKeepsRatchet ==
    ASSUME TypeOK, Ratchet, gate.idle < StallRounds, pc \in {"gate", "integrate"},
           NEW report \in BOOLEAN, NEW obs \in SUBSET Cases, NEW lines \in 0..MaxLines,
           gate' = Observe(gate, report, obs, lines, landed), gate' \in Gate
    PROVE  /\ ~gate'.seen => gate'.best = {}
           /\ spent <= StallRounds * Rank(gate') + gate'.idle
  <1>1. gate \in Gate /\ landed \in BOOLEAN
    BY DEF TypeOK
  <1>2. /\ ~gate'.seen => gate'.best = {}
        /\ \/ Rank(gate) + 1 <= Rank(gate') /\ gate'.idle = 0
           \/ Rank(gate') = Rank(gate) /\ gate'.idle = gate.idle + Pending
    BY <1>1, ObserveRank DEF Ratchet, Pending
  <1>3. Rank(gate) \in Nat /\ Rank(gate') \in Nat
    BY <1>1, RankType
  <1>4. gate.idle \in Nat /\ StallRounds \in Nat /\ spent \in Nat /\ Pending \in {0, 1}
    BY <1>1, BudgetAssumption DEF TypeOK, Gate, Pending
  <1>5. spent <= StallRounds * Rank(gate) + gate.idle + Pending
    BY DEF Ratchet
  <1>6. CASE Rank(gate) + 1 <= Rank(gate') /\ gate'.idle = 0
    <2>1. gate.idle + Pending <= StallRounds
      BY <1>4
    <2>2. StallRounds * (Rank(gate) + 1) = StallRounds * Rank(gate) + StallRounds
      BY <1>3, <1>4
    <2>3. StallRounds * (Rank(gate) + 1) <= StallRounds * Rank(gate')
      <3> DEFINE a == Rank(gate) + 1
                 b == Rank(gate')
      <3>1. a \in Nat /\ b \in Nat /\ a <= b
        BY <1>3, <1>6
      <3> HIDE DEF a, b
      <3>2. StallRounds * a <= StallRounds * b
        BY <1>4, <3>1
      <3> QED
        BY <3>2 DEF a, b
    <2>4. /\ StallRounds * Rank(gate) \in Nat /\ StallRounds * Rank(gate') \in Nat
          /\ StallRounds * (Rank(gate) + 1) \in Nat
      BY <1>3, <1>4
    <2> QED
      BY <1>2, <1>4, <1>5, <1>6, <2>1, <2>2, <2>3, <2>4
  <1>7. CASE Rank(gate') = Rank(gate) /\ gate'.idle = gate.idle + Pending
    <2>1. StallRounds * Rank(gate) \in Nat
      BY <1>3, <1>4
    <2> QED
      BY <1>2, <1>4, <1>5, <1>7, <2>1
  <1> QED
    BY <1>2, <1>6, <1>7

\* Outside the fix loops only the shape of the ratchet matters.
LEMMA RatchetAtRest ==
    ASSUME Ratchet, gate' = gate, pc' \notin {"gate", "fix", "integrate", "ifix"}
    PROVE  Ratchet'
  BY DEF Ratchet

\* A new loop starts with nothing spent.
LEMMA RatchetAnew ==
    ASSUME gate' = NewGate, spent' = 0, landed' \in BOOLEAN, pc' \notin {"fix", "ifix"}
    PROVE  Ratchet'
  <1>1. NewGate \in Gate /\ NewGate.best = {} /\ NewGate.idle = 0
    BY BudgetAssumption DEF NewGate, Gate, None
  <1>2. Rank(gate') \in Nat /\ StallRounds \in Nat
    BY <1>1, RankType, BudgetAssumption
  <1>3. StallRounds * Rank(gate') \in Nat
    BY <1>2
  <1>4. Pending' \in {0, 1} /\ gate'.idle = 0 /\ gate'.best = {}
    BY <1>1 DEF Pending
  <1>5. spent' <= StallRounds * Rank(gate') + gate'.idle + Pending'
    BY <1>3, <1>4
  <1> QED
    BY <1>4, <1>5 DEF Ratchet

\* A pass adds to what was spent what it adds to what is pending.
LEMMA FixPassKeepsRatchet ==
    ASSUME TypeOK, Ratchet, pc \in {"fix", "ifix"}, FixPass, gate' = gate, pc' \in {"gate", "integrate"}
    PROVE  Ratchet'
  <1>1. gate \in Gate /\ spent \in Nat
    BY BudgetAssumption DEF TypeOK
  <1>2. Rank(gate) \in Nat /\ StallRounds \in Nat /\ gate.idle \in Nat
    BY <1>1, RankType, BudgetAssumption DEF Gate
  <1>3. StallRounds * Rank(gate) \in Nat
    BY <1>2
  <1>4. spent' = spent + Pending' /\ Pending' \in {0, 1}
    BY DEF FixPass, Pending
  <1>5. spent <= StallRounds * Rank(gate) + gate.idle
    BY DEF Ratchet
  <1>6. spent' <= StallRounds * Rank(gate) + gate.idle + Pending'
    BY <1>1, <1>2, <1>3, <1>4, <1>5
  <1> QED
    BY <1>6 DEF Ratchet

LEMMA NextRatchet == Typed /\ Ratchet /\ [Next]_vars => Ratchet'
  <1> SUFFICES ASSUME Typed, Ratchet, [Next]_vars PROVE Ratchet'
    OBVIOUS
  <1>0. TypeOK /\ Budgeted
    BY DEF Typed, Shaped
  <1>1. CASE GateCheck
    <2>1. PICK obs \in Observations(works, CasesOf[cur]), lines \in 0..MaxLines, report \in Reports :
             \E green \in {FALSE, obs = CasesOf[cur]} :
                Measure(report, obs, lines, green, "dod", "fix", "deadlock")
      BY <1>1 DEF GateCheck
    <2>2. /\ report \in BOOLEAN /\ obs \in SUBSET Cases /\ gate.idle < StallRounds
          /\ pc = "gate" /\ landed' \in BOOLEAN
      BY <1>0, <1>1, PlanAssumption, ObservationsAreCases DEF Reports, Plan, TypeOK, GateCheck, Budgeted
    <2>3. PICK green \in {FALSE, obs = CasesOf[cur]} :
             Measure(report, obs, lines, green, "dod", "fix", "deadlock")
      BY <2>1
    <2>b. green \in BOOLEAN
      OBVIOUS
    <2>4. /\ gate' \in Gate
          /\ \/ pc' = "dod" /\ FreshLoop
             \/ /\ pc' \in {"fix", "deadlock"} /\ gate' = Observe(gate, report, obs, lines, landed)
                /\ spent' = spent
      BY <1>0, <2>2, <2>3, <2>b, MeasureOutcome
    <2>5. CASE pc' = "dod" /\ FreshLoop
      BY <2>2, <2>5, RatchetAnew DEF FreshLoop
    <2>6. CASE /\ pc' \in {"fix", "deadlock"} /\ gate' = Observe(gate, report, obs, lines, landed)
               /\ spent' = spent
      <3>1. (~gate'.seen => gate'.best = {}) /\ spent <= StallRounds * Rank(gate') + gate'.idle
        BY <1>0, <2>2, <2>4, <2>6, MeasureKeepsRatchet
      <3> QED
        BY <2>2, <2>6, <3>1 DEF Ratchet
    <2> QED
      BY <2>4, <2>5, <2>6
  <1>2. CASE IntegrationCheck
    <2>1. PICK obs \in Observations(works, Cases), obs2 \in Observations(works, PlanCases),
               lines \in 0..MaxLines, report \in Reports :
             Measure(report, obs2, lines, WholeGreen(works, obs), "spec", "ifix", "done")
      BY <1>2 DEF IntegrationCheck
    <2>2. /\ report \in BOOLEAN /\ obs2 \in SUBSET Cases /\ WholeGreen(works, obs) \in BOOLEAN
          /\ gate.idle < StallRounds /\ pc = "integrate" /\ landed' \in BOOLEAN
      BY <1>0, <1>2, PlanAssumption, ObservationsAreCases
         DEF Reports, Plan, TypeOK, WholeGreen, IntegrationCheck, Budgeted
    <2>3. /\ gate' \in Gate
          /\ \/ pc' = "spec" /\ FreshLoop
             \/ /\ pc' \in {"ifix", "done"} /\ gate' = Observe(gate, report, obs2, lines, landed)
                /\ spent' = spent
      BY <1>0, <2>1, <2>2, MeasureOutcome
    <2>4. CASE pc' = "spec" /\ FreshLoop
      BY <2>2, <2>4, RatchetAnew DEF FreshLoop
    <2>5. CASE /\ pc' \in {"ifix", "done"} /\ gate' = Observe(gate, report, obs2, lines, landed)
               /\ spent' = spent
      <3>1. (~gate'.seen => gate'.best = {}) /\ spent <= StallRounds * Rank(gate') + gate'.idle
        BY <1>0, <2>2, <2>3, <2>5, MeasureKeepsRatchet
      <3> QED
        BY <2>2, <2>5, <3>1 DEF Ratchet
    <2> QED
      BY <2>3, <2>4, <2>5
  <1>3. CASE FixTask \/ FixIntegration
    <2>1. pc \in {"fix", "ifix"} /\ FixPass /\ gate' = gate /\ pc' \in {"gate", "integrate"}
      BY <1>3 DEF FixTask, FixIntegration
    <2> QED
      BY <1>0, <2>1, FixPassKeepsRatchet
  <1>4. CASE Draft \/ GiveUpTask \/ EnterIntegration \/ Begin
    <2>1. gate' = NewGate /\ spent' = 0 /\ landed' \in BOOLEAN
      BY <1>0, <1>4 DEF Draft, GiveUpTask, EnterIntegration, FreshLoop, Begin, TypeOK
    <2>2. pc' \in {"task", "gate", "integrate", "done", "preflight"}
      BY <1>4 DEF Draft, GiveUpTask, SetRow, EnterIntegration, Finish, Begin
    <2> QED
      BY <2>1, <2>2, RatchetAnew
  <1>5. CASE InfrastructureFails \/ SeesCancel \/ PreflightFails \/ StopRed \/ WriteEvidence
    <2>1. pc' = "done" /\ gate' = gate
      BY <1>5 DEF InfrastructureFails, SeesCancel, PreflightFails, StopRed, WriteEvidence, Finish, loop
    <2> QED
      BY <2>1, RatchetAtRest
  <1>6. CASE PreflightPasses \/ Block \/ SkipTask \/ StartTask \/ DraftUntested \/ DodRefuses \/ DodHolds
    <2>1. pc' \in {"task", "draft"} /\ gate' = gate
      BY <1>6 DEF PreflightPasses, Block, SkipTask, StartTask, DraftUntested, DodRefuses, DodHolds, SetRow, loop
    <2> QED
      BY <2>1, RatchetAtRest
  <1>7. CASE DodFix
    <2>1. pc' \in {"dod", "task"} /\ gate' = gate
      BY <1>7 DEF DodFix, SetRow, loop
    <2> QED
      BY <2>1, RatchetAtRest
  <1>8. ASSUME NEW kind \in {"spec", "code"}, ReviewPasses(kind) \/ ReviewFix(kind) \/ ReviewBlocks(kind)
        PROVE  Ratchet'
    <2>1. gate' = gate /\ pc' \in {"spec", "code", "evidence", "done"}
      BY <1>8 DEF ReviewPasses, ReviewFix, ReviewBlocks, AfterReview, Finish, loop
    <2> QED
      BY <2>1, RatchetAtRest
  <1>9. CASE Dispatch \/ Work \/ Cancel \/ UNCHANGED vars
    <2>1. UNCHANGED <<pc, gate, spent, landed>>
      BY <1>9 DEF Dispatch, Work, Cancel, vars, loop
    <2> QED
      BY <2>1 DEF Ratchet, Pending
  <1>10. ASSUME NEW kind \in {"spec", "code"}, ReviewFails(kind) PROVE Ratchet'
    <2>1. UNCHANGED <<pc, gate, spent, landed>>
      BY <1>10 DEF ReviewFails, loop
    <2> QED
      BY <2>1 DEF Ratchet, Pending
  <1> QED
    BY <1>1, <1>2, <1>3, <1>4, <1>5, <1>6, <1>7, <1>8, <1>9, <1>10 DEF Next, Step

\* For every plan and every budget: the work a fix loop pays for is bounded by
\* the progress it made, whatever the agents write and however flaky the tests.
THEOREM FixLoopsConverge == Spec => []ConvergeOrStall
  <1>1. Init => Ratchet
    <2> SUFFICES ASSUME Init PROVE Ratchet
      OBVIOUS
    <2>1. pc = "done" /\ gate.best = {}
      BY DEF Init, NewGate
    <2> QED
      BY <2>1 DEF Ratchet
  <1>2. Ratchet => ConvergeOrStall
    BY DEF Ratchet, ConvergeOrStall
  <1> QED
    BY <1>1, <1>2, InitTyped, NextTyped, NextRatchet, PTL DEF Spec

-----------------------------------------------------------------------------
(* The build keeps its contract                                            *)

Verdicts == [t \in Tasks |-> Verdict(rows[t])]

\* A final row is a verdict of the contract on the current task.
LEMMA SetRowJudges ==
    ASSUME TypeOK, Matrix, cur \in Tasks, pc \in {"task", "draft", "gate", "deadlock", "dod"},
           NEW status \in RowStatus \ {"pending"}, SetRow(status), outcome' = outcome,
           status \in Bad \/ ~FailedOrBlocked(cur)
    PROVE  Contract!Next
  <1> DEFINE v == Verdict(status)
  <1>1. v \in {"good", "bad"} /\ (v = "good" => status \notin Bad)
    BY DEF Verdict, RowStatus, Settled, Bad
  <1>2. Stage = "tasks" /\ Stage' = "tasks"
    BY DEF Stage, SetRow
  <1>3. \A t \in Tasks : Verdicts[t] = "open" <=> rows[t] = "pending"
    BY DEF Verdicts, Verdict, TypeOK, RowStatus, Settled, Bad
  <1>4. Verdicts[cur] = "open" /\ \A u \in 1..(cur - 1) : Verdicts[u] # "open"
    <2>1. cur \in Int /\ \A u \in 1..(cur - 1) : u \in Tasks /\ u < cur /\ u \in Int
      BY PlanAssumption DEF Tasks
    <2> QED
      BY <1>3, <2>1 DEF Matrix
  <1>5. v = "good" => \A d \in Deps[cur] : Verdicts[d] # "bad"
    <2>1. Deps[cur] \subseteq Tasks
      BY PlanAssumption
    <2> QED
      BY <1>1, <2>1 DEF FailedOrBlocked, Verdicts, Verdict, Settled, Bad
  <1>6. Verdicts' = [Verdicts EXCEPT ![cur] = v]
    <2>1. \A t \in Tasks : rows'[t] = IF t = cur THEN status ELSE rows[t]
      BY DEF SetRow, TypeOK
    <2> QED
      BY <2>1 DEF Verdicts
  <1> HIDE DEF v
  <1>7. Contract!Judge(cur)
    BY <1>1, <1>2, <1>4, <1>5, <1>6 DEF Contract!Judge, Contract!Judged, Verdicts
  <1> QED
    BY <1>7 DEF Contract!Next, Contract!Tasks, Tasks

\* A step that leaves rows, stage and outcome alone is none of the contract.
LEMMA Stutters ==
    ASSUME rows' = rows, Stage' = Stage, outcome' = outcome
    PROVE  UNCHANGED Contract!vars
  BY DEF Contract!vars

\* With every row settled the contract lets the build move on.
LEMMA Advances ==
    ASSUME rows' = rows, outcome' = outcome, \A t \in Tasks : rows[t] \in Settled,
           \/ Stage = "tasks" /\ Stage' = "integration"
           \/ Stage = "integration" /\ Stage' = "review"
           \/ Stage = "review" /\ Stage' = "record"
    PROVE  Contract!Next
  <1>1. \A t \in Tasks : Verdicts[t] = "good"
    BY DEF Verdicts, Verdict
  <1>2. Stage \in DOMAIN Contract!Following /\ Stage' = Contract!Following[Stage]
    BY DEF Contract!Following
  <1>3. Contract!Advance
    BY <1>1, <1>2 DEF Contract!Advance, Contract!Tasks, Tasks, Verdicts
  <1> QED
    BY <1>3 DEF Contract!Next

\* The build may be aborted wherever it is.
LEMMA Aborts ==
    ASSUME rows' = rows, Stage # "idle", Stage' = "idle", outcome' \in {"error", "cancelled"}
    PROVE  Contract!Next
  <1>1. Contract!Abort
    BY DEF Contract!Abort
  <1> QED
    BY <1>1 DEF Contract!Next

\* Every step of the build is a step of the contract, or none.
LEMMA NextContract ==
    Typed /\ Matrix /\ Positions /\ [Next]_vars => [Contract!Next]_(Contract!vars)
  <1> SUFFICES ASSUME Typed, Matrix, Positions, [Next]_vars
               PROVE  Contract!Next \/ UNCHANGED Contract!vars
    OBVIOUS
  <1>0. TypeOK /\ InTask /\ Seated
    BY DEF Typed, Shaped
  <1>1. CASE InfrastructureFails
    <2>1. pc # "done" /\ pc' = "done" /\ rows' = rows /\ outcome' = "error"
      BY <1>0, <1>1 DEF InfrastructureFails, TestIsNext, AtTask, AllTried, Seated, SeatSteps, Finish
    <2>2. Stage # "idle" /\ Stage' = "idle"
      BY <2>1 DEF Stage
    <2> QED
      BY <2>1, <2>2, Aborts
  <1>2. CASE SeesCancel
    <2>1. pc # "done" /\ pc' = "done" /\ rows' = rows /\ outcome' = "cancelled"
      BY <1>2 DEF SeesCancel, PollsCancel, SeatIsNext, Finish
    <2>2. Stage # "idle" /\ Stage' = "idle"
      BY <2>1 DEF Stage
    <2> QED
      BY <2>1, <2>2, Aborts
  <1>3. CASE PreflightFails
    <2>1. pc = "preflight" /\ pc' = "done" /\ rows' = rows /\ outcome' = "error"
      BY <1>3 DEF PreflightFails, Finish
    <2>2. Stage # "idle" /\ Stage' = "idle"
      BY <2>1 DEF Stage
    <2> QED
      BY <2>1, <2>2, Aborts
  <1>4. CASE PreflightPasses \/ StartTask \/ Draft \/ GateCheck \/ FixTask
    <2>1. /\ rows' = rows /\ outcome' = outcome
          /\ pc \in {"preflight", "task", "draft", "gate", "fix"}
          /\ pc' \in {"task", "draft", "gate", "dod", "fix", "deadlock"}
      BY <1>4 DEF PreflightPasses, StartTask, Draft, AtTask, GateCheck, Measure, FixTask
    <2>2. Stage' = Stage
      BY <2>1 DEF Stage
    <2> QED
      BY <2>1, <2>2, Stutters
  <1>5. CASE Block
    <2>1. SetRow("blocked") /\ cur \in Tasks /\ pc = "task" /\ outcome' = outcome
      BY <1>5 DEF Block, AtTask
    <2> QED
      BY <1>0, <2>1, SetRowJudges DEF RowStatus, Bad
  <1>6. CASE SkipTask
    <2>1. /\ SetRow("pre-existing-green") /\ cur \in Tasks /\ pc = "task" /\ outcome' = outcome
          /\ ~FailedOrBlocked(cur)
      BY <1>6 DEF SkipTask, AtTask
    <2> QED
      BY <1>0, <2>1, SetRowJudges DEF RowStatus
  <1>7. CASE DraftUntested
    <2>1. /\ SetRow("drafted-no-test") /\ cur \in Tasks /\ pc = "draft" /\ outcome' = outcome
          /\ ~FailedOrBlocked(cur)
      BY <1>0, <1>7 DEF DraftUntested, InTask, Positions
    <2> QED
      BY <1>0, <2>1, SetRowJudges DEF RowStatus
  <1>8. CASE GiveUpTask \/ DodRefuses
    <2>1. SetRow("failed") /\ cur \in Tasks /\ pc \in {"deadlock", "dod"} /\ outcome' = outcome
      BY <1>0, <1>8 DEF GiveUpTask, DodRefuses, InTask
    <2> QED
      BY <1>0, <2>1, SetRowJudges DEF RowStatus, Bad
  <1>9. CASE DodHolds
    <2>1. /\ SetRow("green") /\ cur \in Tasks /\ pc = "dod" /\ outcome' = outcome
          /\ ~FailedOrBlocked(cur)
      BY <1>0, <1>9 DEF DodHolds, InTask, Positions
    <2> QED
      BY <1>0, <2>1, SetRowJudges DEF RowStatus
  <1>10. CASE DodFix
    <2>1. pc = "dod" /\ cur \in Tasks /\ outcome' = outcome
      BY <1>0, <1>10 DEF DodFix, InTask
    <2>2. CASE UNCHANGED <<pc, cur, rows>>
      <3>1. Stage' = Stage
        BY <2>2 DEF Stage
      <3> QED
        BY <2>1, <2>2, <3>1, Stutters
    <2>3. CASE SetRow("failed")
      BY <1>0, <2>1, <2>3, SetRowJudges DEF RowStatus, Bad
    <2> QED
      BY <1>10, <2>2, <2>3 DEF DodFix
  <1>11. CASE StopRed
    <2>1. /\ pc = "task" /\ pc' = "done" /\ rows' = rows /\ outcome' = "stalled_incomplete"
          /\ cur = N + 1 /\ \E t \in Tasks : rows[t] \in Bad
      BY <1>11 DEF StopRed, AllTried, SomeRed, Finish
    <2>2. Stage = "tasks" /\ Stage' = "idle"
      BY <2>1 DEF Stage
    <2>3. \A t \in Tasks : rows[t] # "pending"
      BY <2>1, PlanAssumption DEF Matrix, Tasks
    <2>4. \A t \in Tasks : Verdicts[t] # "open"
      BY <1>0, <2>3 DEF Verdicts, Verdict, TypeOK, RowStatus, Settled, Bad
    <2>5. \E t \in Tasks : Verdicts[t] = "bad"
      BY <2>1 DEF Verdicts, Verdict, Settled, Bad
    <2>6. Contract!Stall
      BY <2>1, <2>2, <2>4, <2>5 DEF Contract!Stall, Contract!Judged, Contract!Tasks, Tasks, Verdicts
    <2> QED
      BY <2>6 DEF Contract!Next
  <1>12. CASE EnterIntegration
    <2>1. /\ pc = "task" /\ rows' = rows /\ cur = N + 1 /\ \A t \in Tasks : rows[t] \notin Bad
          /\ \/ pc' = "done" /\ outcome' = "cancelled"
             \/ pc' = "integrate" /\ outcome' = outcome
      BY <1>12 DEF EnterIntegration, AllTried, SomeRed, Finish
    <2>2. \A t \in Tasks : rows[t] # "pending"
      BY <2>1, PlanAssumption DEF Matrix, Tasks
    <2>3. \A t \in Tasks : rows[t] \in Settled
      BY <1>0, <2>1, <2>2 DEF TypeOK, RowStatus, Settled, Bad
    <2>4. Stage = "tasks" /\ (pc' = "done" => Stage' = "idle") /\ (pc' = "integrate" => Stage' = "integration")
      BY <2>1 DEF Stage
    <2> QED
      BY <2>1, <2>3, <2>4, Aborts, Advances
  <1>13. CASE IntegrationCheck
    <2>1. /\ pc = "integrate" /\ rows' = rows
          /\ \/ pc' = "done" /\ outcome' = "stalled_incomplete"
             \/ pc' \in {"spec", "ifix"} /\ outcome' = outcome
      BY <1>13 DEF IntegrationCheck, Measure
    <2>2. /\ Stage = "integration" /\ (pc' = "done" => Stage' = "idle")
          /\ (pc' = "spec" => Stage' = "review") /\ (pc' = "ifix" => Stage' = Stage)
      BY <2>1 DEF Stage
    <2>3. CASE pc' = "done"
      <3>1. Contract!Stall
        BY <2>1, <2>2, <2>3 DEF Contract!Stall
      <3> QED
        BY <3>1 DEF Contract!Next
    <2>4. CASE pc' = "spec"
      BY <2>1, <2>2, <2>4, Advances DEF Positions
    <2>5. CASE pc' = "ifix"
      BY <2>1, <2>2, <2>5, Stutters
    <2> QED
      BY <2>1, <2>3, <2>4, <2>5
  <1>14. CASE FixIntegration
    <2>1. pc = "ifix" /\ pc' = "integrate" /\ rows' = rows /\ outcome' = outcome
      BY <1>14 DEF FixIntegration
    <2>2. Stage' = Stage
      BY <2>1 DEF Stage
    <2> QED
      BY <2>1, <2>2, Stutters
  <1>15. ASSUME NEW kind \in {"spec", "code"}, ReviewPasses(kind) \/ ReviewFix(kind) \/ ReviewBlocks(kind)
         PROVE  Contract!Next \/ UNCHANGED Contract!vars
    <2>1. /\ pc \in {"spec", "code"} /\ rows' = rows
          /\ \/ pc' = "done" /\ outcome' = "stalled_incomplete"
             \/ pc' \in {"spec", "code", "evidence"} /\ outcome' = outcome
      BY <1>15 DEF ReviewPasses, ReviewFix, ReviewBlocks, AfterReview, Finish
    <2>2. /\ Stage = "review" /\ (pc' = "done" => Stage' = "idle")
          /\ (pc' = "evidence" => Stage' = "record") /\ (pc' \in {"spec", "code"} => Stage' = Stage)
      BY <2>1 DEF Stage
    <2>3. CASE pc' = "done"
      <3>1. Contract!Stall
        BY <2>1, <2>2, <2>3 DEF Contract!Stall
      <3> QED
        BY <3>1 DEF Contract!Next
    <2>4. CASE pc' = "evidence"
      BY <2>1, <2>2, <2>4, Advances DEF Positions
    <2>5. CASE pc' \in {"spec", "code"}
      BY <2>1, <2>2, <2>5, Stutters
    <2> QED
      BY <2>1, <2>3, <2>4, <2>5
  <1>16. CASE WriteEvidence
    <2>1. pc = "evidence" /\ pc' = "done" /\ rows' = rows /\ outcome' = "completed"
      BY <1>16 DEF WriteEvidence, Finish
    <2>2. Stage = "record" /\ Stage' = "idle"
      BY <2>1 DEF Stage
    <2>3. Contract!Complete
      BY <2>1, <2>2 DEF Contract!Complete
    <2> QED
      BY <2>3 DEF Contract!Next
  <1>17. CASE Begin
    <2>1. rows' = [t \in Tasks |-> "pending"] /\ pc' = "preflight" /\ outcome' = "none"
      BY <1>17 DEF Begin
    <2>2. Stage' = "tasks" /\ Verdicts' = [t \in Tasks |-> "open"]
      BY <2>1 DEF Stage, Verdicts, Verdict, Settled, Bad
    <2>3. Contract!Start
      BY <2>1, <2>2 DEF Contract!Start, Contract!Tasks, Tasks, Verdicts
    <2> QED
      BY <2>3 DEF Contract!Next
  <1>18. CASE Dispatch \/ Work \/ Cancel \/ UNCHANGED vars
    <2>1. rows' = rows /\ pc' = pc /\ outcome' = outcome
      BY <1>18 DEF Dispatch, Work, Cancel, vars
    <2>2. Stage' = Stage
      BY <2>1 DEF Stage
    <2> QED
      BY <2>1, <2>2, Stutters
  <1>19. ASSUME NEW kind \in {"spec", "code"}, ReviewFails(kind) PROVE UNCHANGED Contract!vars
    <2>1. rows' = rows /\ pc' = pc /\ outcome' = outcome
      BY <1>19 DEF ReviewFails
    <2>2. Stage' = Stage
      BY <2>1 DEF Stage
    <2> QED
      BY <2>1, <2>2, Stutters
  <1> QED
    BY <1>1, <1>2, <1>3, <1>4, <1>5, <1>6, <1>7, <1>8, <1>9, <1>10, <1>11, <1>12, <1>13, <1>14,
       <1>15, <1>16, <1>17, <1>18, <1>19 DEF Next, Step

LEMMA InitContract == Init => Contract!Init
  <1> SUFFICES ASSUME Init PROVE Contract!Init
    OBVIOUS
  <1>1. rows = [t \in Tasks |-> "pending"] /\ pc = "done" /\ outcome = "none"
    BY DEF Init
  <1>2. Stage = "idle" /\ Verdicts = [t \in Tasks |-> "open"]
    BY <1>1 DEF Stage, Verdicts, Verdict, Settled, Bad
  <1> QED
    BY <1>1, <1>2 DEF Contract!Init, Contract!Tasks, Tasks, Verdicts

\* The build gate implements BuildContract, for every plan and every budget.
THEOREM ContractKept == Spec => KeepsContract
  <1> QED
    BY InitTyped, NextTyped, InitMatrix, NextMatrix, InitContract, NextContract, PTL
       DEF Spec, KeepsContract, Contract!Spec

-----------------------------------------------------------------------------
(* Cancelling                                                              *)

\* Before the cancel no seat is late; after it at most the one it found at work
\* is, still going or ended.  Only that of the evidence agent ends in a completed
\* build, and the flag cannot be raised once the build is over.
Counted ==
    /\ ~cancel => late = 0
    /\ cancel => late + AtWork <= 1
    /\ outcome = "completed" => pc = "done" /\ (cancel => late = 1)

\* No action but WriteEvidence completes a build.
LEMMA OnlyEvidenceCompletes ==
    ASSUME Next, ~WriteEvidence, outcome # "completed"
    PROVE  outcome' # "completed"
  <1> USE DEF Finish
  <1>1. CASE Dispatch \/ Work \/ Begin \/ Cancel
    BY <1>1 DEF Dispatch, Work, Begin, Cancel
  <1>2. CASE InfrastructureFails \/ SeesCancel \/ PreflightFails \/ PreflightPasses
    BY <1>2 DEF InfrastructureFails, SeesCancel, PreflightFails, PreflightPasses
  <1>3. CASE Block \/ SkipTask \/ StartTask \/ DraftUntested \/ Draft
    BY <1>3 DEF Block, SkipTask, StartTask, DraftUntested, Draft
  <1>4. CASE GateCheck \/ FixTask \/ GiveUpTask
    BY <1>4 DEF GateCheck, FixTask, GiveUpTask
  <1>5. CASE DodRefuses \/ DodHolds \/ DodFix
    BY <1>5 DEF DodRefuses, DodHolds, DodFix
  <1>6. CASE StopRed \/ EnterIntegration \/ FixIntegration
    BY <1>6 DEF StopRed, EnterIntegration, FixIntegration
  <1>7. CASE IntegrationCheck
    <2>1. outcome' = IF pc' = "done" THEN "stalled_incomplete" ELSE outcome
      BY <1>7 DEF IntegrationCheck
    <2> QED
      BY <2>1
  <1>8. ASSUME NEW kind \in {"spec", "code"},
               ReviewPasses(kind) \/ ReviewFails(kind) \/ ReviewFix(kind) \/ ReviewBlocks(kind)
        PROVE  outcome' # "completed"
    BY <1>8 DEF ReviewPasses, ReviewFails, ReviewFix, ReviewBlocks, AfterReview
  <1> QED
    BY <1>1, <1>2, <1>3, <1>4, <1>5, <1>6, <1>7, <1>8 DEF Next, Step

\* A build that is over takes no step.
LEMMA StepsAreOfABuild ==
    ASSUME Typed, Step \/ Work \/ Cancel PROVE pc # "done"
  <1>0. seat # "none" => pc \in SeatSteps
    BY DEF Typed, Seated
  <1> USE DEF SeatSteps
  <1>1. CASE Dispatch \/ Work \/ Cancel
    BY <1>0, <1>1 DEF Dispatch, SeatIsNext, Work, Cancel
  <1>2. CASE InfrastructureFails \/ SeesCancel \/ PreflightFails \/ PreflightPasses
    BY <1>0, <1>2 DEF InfrastructureFails, TestIsNext, AtTask, AllTried, SeesCancel, PollsCancel,
                      SeatIsNext, PreflightFails, PreflightPasses
  <1>3. CASE Block \/ SkipTask \/ StartTask \/ DraftUntested \/ Draft
    BY <1>3 DEF Block, SkipTask, StartTask, AtTask, DraftUntested, Draft
  <1>4. CASE GateCheck \/ FixTask \/ GiveUpTask
    BY <1>4 DEF GateCheck, FixTask, GiveUpTask
  <1>5. CASE DodRefuses \/ DodHolds \/ DodFix
    BY <1>5 DEF DodRefuses, DodHolds, DodFix
  <1>6. CASE StopRed \/ EnterIntegration \/ IntegrationCheck \/ FixIntegration \/ WriteEvidence
    BY <1>6 DEF StopRed, EnterIntegration, AllTried, IntegrationCheck, FixIntegration, WriteEvidence
  <1>7. ASSUME NEW kind \in {"spec", "code"},
               ReviewPasses(kind) \/ ReviewFails(kind) \/ ReviewFix(kind) \/ ReviewBlocks(kind)
        PROVE  pc # "done"
    BY <1>7 DEF ReviewPasses, ReviewFails, ReviewFix, ReviewBlocks
  <1> QED
    BY <1>1, <1>2, <1>3, <1>4, <1>5, <1>6, <1>7 DEF Step

\* What a step does to the count of late seats: the seat at work, if any, ends
\* and is counted, or nothing changes, or one is dispatched before the cancel.
LEMMA StepCounts ==
    ASSUME Step
    PROVE  /\ cancel' = cancel
           /\ SeatEnds \/ UNCHANGED agent \/ (~cancel /\ late' = late)
  <1>1. CASE Dispatch \/ InfrastructureFails \/ SeesCancel \/ PreflightFails \/ PreflightPasses
    BY <1>1 DEF Dispatch, InfrastructureFails, SeesCancel, PreflightFails, PreflightPasses, env
  <1>2. CASE Block \/ SkipTask \/ StartTask \/ DraftUntested \/ Draft
    BY <1>2 DEF Block, SkipTask, StartTask, DraftUntested, Draft, Seat, env
  <1>3. CASE GateCheck \/ FixTask \/ GiveUpTask
    BY <1>3 DEF GateCheck, FixTask, FixPass, GiveUpTask, Seat, env
  <1>4. CASE DodRefuses \/ DodHolds \/ DodFix
    BY <1>4 DEF DodRefuses, DodHolds, DodFix, Seat, env
  <1>5. CASE StopRed \/ EnterIntegration \/ IntegrationCheck \/ FixIntegration \/ WriteEvidence
    BY <1>5 DEF StopRed, EnterIntegration, IntegrationCheck, FixIntegration, FixPass, WriteEvidence, Seat, env
  <1>6. ASSUME NEW kind \in {"spec", "code"},
               ReviewPasses(kind) \/ ReviewFails(kind) \/ ReviewFix(kind) \/ ReviewBlocks(kind)
        PROVE  /\ cancel' = cancel
               /\ SeatEnds \/ UNCHANGED agent \/ (~cancel /\ late' = late)
    BY <1>6 DEF ReviewPasses, ReviewFails, ReviewFix, ReviewBlocks, Seat, env
  <1> QED
    BY <1>1, <1>2, <1>3, <1>4, <1>5, <1>6 DEF Step

LEMMA NextCounted == Typed /\ Counted /\ [Next]_vars => Counted'
  <1> SUFFICES ASSUME Typed, Counted, [Next]_vars PROVE Counted'
    OBVIOUS
  <1>0. seat \in Seats /\ late \in Nat /\ cancel \in BOOLEAN
    BY DEF Typed, Shaped, TypeOK
  <1>1. CASE UNCHANGED vars
    BY <1>1 DEF vars, agent, env, Counted, AtWork
  <1>2. CASE Begin
    BY <1>2 DEF Begin, Counted
  <1>3. CASE Work \/ Cancel
    <2>1. outcome # "completed" /\ outcome' = outcome /\ UNCHANGED <<seat, late>>
      BY <1>3, StepsAreOfABuild DEF Counted, Work, Cancel, agent
    <2>2. CASE Work
      BY <2>1, <2>2 DEF Work, env, Counted, AtWork
    <2>3. CASE Cancel
      BY <1>0, <2>1, <2>3 DEF Cancel, Counted, AtWork
    <2> QED
      BY <1>3, <2>2, <2>3
  <1>4. CASE Step
    <2>1. /\ cancel' = cancel
          /\ SeatEnds \/ UNCHANGED agent \/ (~cancel /\ late' = late)
      BY <1>4, StepCounts
    <2>2. (~cancel' => late' = 0) /\ (cancel' => late' + AtWork' <= 1)
      BY <1>0, <2>1 DEF SeatEnds, agent, Counted, AtWork, Seats
    <2>3. CASE WriteEvidence
      <3>1. seat = "write" /\ SeatEnds /\ pc' = "done"
        BY <2>3 DEF WriteEvidence, Seat, Finish
      <3>2. cancel' => late' = 1
        BY <1>0, <2>1, <3>1 DEF SeatEnds, Counted, AtWork
      <3> QED
        BY <2>2, <3>1, <3>2 DEF Counted
    <2>4. CASE ~WriteEvidence
      <3>1. outcome # "completed"
        BY <1>4, StepsAreOfABuild DEF Counted
      <3>2. outcome' # "completed"
        BY <1>4, <2>4, <3>1, OnlyEvidenceCompletes DEF Next
      <3> QED
        BY <2>2, <3>2 DEF Counted
    <2> QED
      BY <2>3, <2>4
  <1> QED
    BY <1>1, <1>2, <1>3, <1>4 DEF Next

\* Whatever the plan and wherever the cancel comes: at most one seat, the one it
\* found at work, writes after it, and the build completes only when that was
\* the evidence agent's (_default_run_agent, BuildCancelled).
THEOREM CancelStopsTheBuild == Spec => []CancelIsFinal
  <1>1. Init => Counted
    BY DEF Init, Counted, AtWork
  <1>2. Counted => CancelIsFinal
    BY DEF Counted, CancelIsFinal
  <1> QED
    BY <1>1, <1>2, InitTyped, NextTyped, NextCounted, PTL DEF Spec
=============================================================================
