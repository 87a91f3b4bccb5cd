--------------------------- MODULE SubagentBuild ---------------------------
(***************************************************************************)
(* The build gate (product/subagent_build.py): the signed plan is executed *)
(* task by task, each driven to green by fixer agents under a converge-or- *)
(* stall ratchet, then the whole product is integrated, reviewed and       *)
(* recorded as evidence.                                                   *)
(*                                                                         *)
(* The product on disk is the set of acceptance cases that work.  A seat   *)
(* (implementer, fixer, evidence agent) is dispatched, changes the product *)
(* as often as it likes, and ends; the founder's cancel may come anywhere  *)
(* in between and is looked at only before a seat and between its turns.   *)
(* A test run sees the working cases, minus any flaky ones, or fails to    *)
(* run; without a parsed report it only tells how many failures it printed. *)
(***************************************************************************)
EXTENDS Integers, FiniteSets

CONSTANTS
    N,            \* the plan's tasks are 1..N, in plan order
    Deps,         \* their declared prerequisites
    Cases,        \* acceptance cases: of the tasks, and of the UX test
    CasesOf,      \* the cases of each task's acceptance test
    Flaky,        \* cases that may fail although they work
    Plans,        \* which tasks have a test; how the stack can be checked
    MaxLines,     \* most failure lines a runner prints
    StallRounds,  \* BUILD_TASK_STALL_ROUNDS
    FixCycles,    \* BUILD_TASK_FIX_CYCLES
    Guard,        \* _INTEGRATION_RUNAWAY_GUARD
    MaxBuilds     \* bound: builds of this gate

Tasks == 1..N
Plan == [tested : SUBSET Tasks, verifiable : BOOLEAN, structured : BOOLEAN, arbiter : BOOLEAN]

ASSUME PlanAssumption ==
    /\ N \in Nat
    /\ Deps \in [Tasks -> SUBSET Tasks]
    /\ CasesOf \in [Tasks -> SUBSET Cases]
    /\ IsFiniteSet(Cases) /\ Flaky \subseteq Cases
    /\ Plans \subseteq Plan
ASSUME BudgetAssumption ==
    /\ StallRounds \in Nat \ {0} /\ FixCycles \in Nat /\ Guard \in Nat
    /\ MaxLines \in Nat \ {0} /\ MaxBuilds \in Nat

VARIABLES
    plan,       \* what kind of plan and stack this is
    works,      \* the product: the cases that work
    pc, cur,    \* the step of the build, and the task it is at
    rows,       \* the traceability matrix: a status per task
    gate,       \* _TaskProgressGate of the current loop
    seat,       \* the agent at work: none, a reviewer ("read") or a writer
    landed,     \* the seat to be measured next landed work (seat_landed_work)
    loops,      \* cycles of the current fix loop (pt_guard, guard)
    rounds,     \* rounds of the DoD loop, attempts of the review loop
    blocked,    \* review_blocked
    trace,      \* phase of the persisted traceability snapshot
    outcome,    \* status of the LoopResult
    cancel,     \* the parent delivery was asked to cancel
    builds,     \* bound
    late,       \* history: seats that ended after the cancel was asked for
    spent,      \* history: cycles of the current loop whose seat landed work
    checked,    \* history: the present product passed the whole validation
    passed      \* history: the reviews the present product passed

product == <<plan, works>>
loop == <<gate, loops, spent>>
agent == <<seat, late>>
env == <<cancel, builds>>
vars == <<product, pc, cur, rows, loop, agent, landed, rounds, blocked, trace, outcome, env, checked, passed>>

RowStatus == {"pending", "green", "pre-existing-green", "failed", "blocked", "drafted-no-test"}
Settled == {"green", "pre-existing-green", "drafted-no-test"}
Bad == {"failed", "blocked"}

\* best: the largest set of cases that passed in one run; seen: there was such
\* a run; least: fewest failure lines (None before the first count); idle: charged rounds.
None == MaxLines + 1
Gate == [best : SUBSET Cases, seen : BOOLEAN, least : 0..None, idle : 0..StallRounds]
NewGate == [best |-> {}, seen |-> FALSE, least |-> None, idle |-> 0]

Steps == {"preflight", "task", "draft", "gate", "fix", "deadlock", "dod",
          "integrate", "ifix", "spec", "code", "evidence", "done"}
Seats == {"none", "read", "write"}
Outcomes == {"none", "completed", "stalled_incomplete", "error", "cancelled"}
Phases == {"", "stopped-red", "integration", "stalled-incomplete", "review-blocked", "complete"}

DodRounds == IF FixCycles = 0 THEN 1 ELSE FixCycles

\* The build's own type invariant.
TypeOK ==
    /\ plan \in Plans /\ works \subseteq Cases
    /\ pc \in Steps /\ cur \in 1..(N + 1)
    /\ rows \in [Tasks -> RowStatus]
    /\ seat \in Seats /\ late \in Nat
    /\ gate \in Gate /\ landed \in BOOLEAN /\ loops \in 0..Guard /\ spent \in 0..Guard
    /\ rounds \in 0..DodRounds /\ blocked \subseteq {"spec", "code"}
    /\ trace \in Phases /\ outcome \in Outcomes
    /\ cancel \in BOOLEAN /\ builds \in 0..MaxBuilds
    /\ checked \in BOOLEAN /\ passed \subseteq {"spec", "code"}

Init ==
    /\ plan \in Plans /\ works \in SUBSET Cases
    /\ pc = "done" /\ cur = 1 /\ rows = [t \in Tasks |-> "pending"]
    /\ gate = NewGate /\ landed = TRUE /\ loops = 0 /\ rounds = 0 /\ blocked = {}
    /\ trace = "" /\ outcome = "none"
    /\ seat = "none" /\ late = 0 /\ cancel = FALSE /\ builds = 0
    /\ spent = 0 /\ checked = FALSE /\ passed = {}

Tested(t) == t \in plan.tested
PlanDriven == plan.tested # {}

-----------------------------------------------------------------------------
(* Test runs and the convergence ratchet                                   *)

\* What one run of the given cases can see of product w; a run that times out or
\* does not collect passes nothing.
Observations(w, cases) == {{}} \cup {(w \cap cases) \ f : f \in SUBSET Flaky}

\* The cases whole_build_passing measures: the plan's tests, not the UX test.
PlanCases == UNION {CasesOf[t] : t \in plan.tested}

\* check(repo_root): build and whole suite; a stack that cannot be validated
\* here counts as green.
WholeGreen(w, obs) == ~plan.verifiable \/ obs = Cases

\* _TaskProgressGate._progress and observe, for one run that was not green:
\* obs is what passed, lines what a runner without cases printed.
\* MUTANT of Grows: any other set of passing cases is progress.
Grows_AnyChange(g, obs) == obs # g.best
Grows(g, obs) == g.best \subseteq obs /\ obs # g.best

\* A runner with structured output may still time out or print no report.
Reports == {FALSE, plan.structured}

Progress(g, structured, obs, lines) ==
    IF structured THEN ~g.seen \/ Grows(g, obs) ELSE g.least = None \/ lines < g.least

Charge(g, progress, land) ==
    IF progress THEN 0 ELSE IF land THEN g.idle + 1 ELSE g.idle

Observe(g, structured, obs, lines, land) ==
    LET progress == Progress(g, structured, obs, lines)
    IN  [best |-> IF structured /\ progress THEN obs ELSE g.best,
         seen |-> g.seen \/ structured,
         least |-> IF ~structured /\ progress THEN lines ELSE g.least,
         idle |-> Charge(g, progress, land)]

\* MUTANT of Stalled: one round too many.
Stalled_OneMore(g) == g.idle > StallRounds
Stalled(g) == g.idle >= StallRounds

GoesOn(g) == ~Stalled(g) /\ loops < Guard

-----------------------------------------------------------------------------
(* Seats                                                                   *)

\* Where a seat comes next: the implementer, a fixer, the second model as the
\* arbiter, a reviewer, the evidence agent.
SeatIsNext ==
    \/ pc \in {"draft", "fix", "ifix", "spec", "code", "evidence"}
    \/ pc = "dod" /\ rounds < DodRounds
    \/ pc = "deadlock" /\ plan.arbiter

\* _default_run_agent: the seat is dispatched unless the delivery was cancelled;
\* a reviewer gets read-only tools.
\* MUTANT of Dispatch: the cancel is only looked at between tasks.
Dispatch_IgnoresCancel ==
    /\ seat = "none" /\ SeatIsNext
    /\ seat' = IF pc \in {"spec", "code"} THEN "read" ELSE "write"
    /\ UNCHANGED <<product, pc, cur, rows, loop, late, landed, rounds, blocked, trace, outcome, env, checked, passed>>
Dispatch ==
    /\ ~cancel /\ seat = "none" /\ SeatIsNext
    /\ seat' = IF pc \in {"spec", "code"} THEN "read" ELSE "write"
    /\ UNCHANGED <<product, pc, cur, rows, loop, late, landed, rounds, blocked, trace, outcome, env, checked, passed>>

\* A tool call of a write seat leaves any product.  The seat looks at the cancel
\* once per turn: what is left of the turn goes on after it.
Work ==
    /\ seat = "write"
    /\ works' \in SUBSET Cases /\ checked' = FALSE /\ passed' = {}
    /\ UNCHANGED <<plan, pc, cur, rows, loop, agent, landed, rounds, blocked, trace, outcome, env>>

\* The seat, if there is one, ends.
SeatEnds ==
    /\ seat' = "none"
    /\ late' = late + (IF cancel /\ seat # "none" THEN 1 ELSE 0)

\* A write seat ends by itself, the cancel unnoticed if it came in the last turn.
\* Whether it landed work matters where a ratchet measures it next.
Seat == seat = "write" /\ SeatEnds

Finish(result) == pc' = "done" /\ outcome' = result

\* matrix.failed_or_blocked
\* MUTANT of FailedOrBlocked: only a failed prerequisite blocks.
FailedOrBlocked_FailedOnly(t) == \E d \in Deps[t] : rows[d] = "failed"
FailedOrBlocked(t) == \E d \in Deps[t] : rows[d] \in Bad

\* A task that is neither skipped nor begun, and the end of the first phase.
AtTask == pc = "task" /\ cur \in Tasks /\ ~cancel
\* MUTANT of AllTried: the first red task ends the phase.
AllTried_FailFast == pc = "task" /\ (cur = N + 1 \/ \E t \in Tasks : rows[t] = "failed")
AllTried == pc = "task" /\ cur = N + 1
SomeRed == \E t \in Tasks : rows[t] \in Bad

\* A contained test run comes next: of a task before it is drafted, of the gates,
\* of the whole plan for the report of a red build.
TestIsNext ==
    \/ pc \in {"gate", "integrate"}
    \/ AtTask /\ ~FailedOrBlocked(cur) /\ Tested(cur)
    \/ AllTried /\ SomeRed

\* The provider, the sandbox or the container fails: ExecutionInfrastructureError.
\* What a seat wrote until then stays on disk.
InfrastructureFails ==
    /\ seat # "none" \/ TestIsNext
    /\ SeatEnds /\ Finish("error")
    /\ UNCHANGED <<product, cur, rows, loop, landed, rounds, blocked, trace, env, checked, passed>>

\* The cancel is noticed: before a task, before a seat or between its turns
\* (not in the arbiter's, whose caller swallows BuildCancelled).
PollsCancel ==
    \/ pc = "task" /\ cur \in Tasks
    \/ SeatIsNext /\ pc # "deadlock"

SeesCancel ==
    /\ cancel /\ PollsCancel
    /\ SeatEnds /\ Finish("cancelled")
    /\ UNCHANGED <<product, cur, rows, loop, landed, rounds, blocked, trace, env, checked, passed>>

\* The founder cancels the delivery.
Cancel ==
    /\ ~cancel /\ pc # "done" /\ cancel' = TRUE
    /\ UNCHANGED <<product, pc, cur, rows, loop, agent, landed, rounds, blocked, trace, outcome, builds, checked, passed>>

-----------------------------------------------------------------------------
(* The build begins                                                        *)

\* The orchestrator runs the gate, for the first time, after request-changes,
\* or again after a crash: everything but the product is new.
Begin ==
    /\ builds < MaxBuilds /\ builds' = builds + 1
    /\ pc' = "preflight" /\ cur' = 1 /\ rows' = [t \in Tasks |-> "pending"]
    /\ gate' = NewGate /\ loops' = 0 /\ spent' = 0 /\ landed' = TRUE /\ rounds' = 0
    /\ blocked' = {} /\ trace' = "" /\ outcome' = "none"
    /\ seat' = "none" /\ late' = 0 /\ cancel' = FALSE
    /\ UNCHANGED <<product, checked, passed>>

PreflightFails ==
    /\ pc = "preflight" /\ Finish("error")
    /\ UNCHANGED <<product, cur, rows, loop, agent, landed, rounds, blocked, trace, env, checked, passed>>

PreflightPasses ==
    /\ pc = "preflight" /\ pc' = "task"
    /\ UNCHANGED <<product, cur, rows, loop, agent, landed, rounds, blocked, trace, outcome, env, checked, passed>>

-----------------------------------------------------------------------------
(* Phase 1: task by task                                                   *)

FreshLoop == gate' = NewGate /\ loops' = 0 /\ spent' = 0

\* The row of the current task is final; the next task is up.
SetRow(status) ==
    /\ rows' = [rows EXCEPT ![cur] = status]
    /\ cur' = cur + 1 /\ pc' = "task"

Block ==
    /\ AtTask /\ FailedOrBlocked(cur)
    /\ SetRow("blocked")
    /\ UNCHANGED <<product, loop, agent, landed, rounds, blocked, trace, outcome, env, checked, passed>>

\* Its test already passes, or it has none although the plan has tests.
SkipTask ==
    /\ AtTask /\ ~FailedOrBlocked(cur)
    /\ IF Tested(cur) THEN CasesOf[cur] \in Observations(works, CasesOf[cur]) ELSE PlanDriven
    /\ SetRow("pre-existing-green")
    /\ UNCHANGED <<product, loop, agent, landed, rounds, blocked, trace, outcome, env, checked, passed>>

\* The task is built: its test is red, or the plan has no test at all.
StartTask ==
    /\ AtTask /\ ~FailedOrBlocked(cur)
    /\ IF Tested(cur) THEN \E obs \in Observations(works, CasesOf[cur]) : obs # CasesOf[cur]
       ELSE ~PlanDriven
    /\ pc' = "draft"
    /\ UNCHANGED <<product, cur, rows, loop, agent, landed, rounds, blocked, trace, outcome, env, checked, passed>>

\* A plan without any test: the implementer's draft is all there is.
DraftUntested ==
    /\ pc = "draft" /\ Seat /\ ~Tested(cur)
    /\ SetRow("drafted-no-test")
    /\ UNCHANGED <<product, loop, landed, rounds, blocked, trace, outcome, env, checked, passed>>

Draft ==
    /\ pc = "draft" /\ Seat /\ Tested(cur) /\ landed' \in BOOLEAN
    /\ FreshLoop /\ pc' = "gate"
    /\ UNCHANGED <<product, cur, rows, rounds, blocked, trace, outcome, env, checked, passed>>

\* gate_check and observe: report tells whether the run left a parsed report.
\* With a green one the loop is over and its ratchet dropped.
Measure(report, obs, lines, green, whenGreen, whenRed, whenStalled) ==
    LET g == Observe(gate, report, obs, lines, landed)
    IN  IF green
        THEN pc' = whenGreen /\ FreshLoop
        ELSE /\ gate' = g /\ UNCHANGED <<loops, spent>>
             /\ pc' = IF GoesOn(g) THEN whenRed ELSE whenStalled

\* A run may be red although every case it reports passed: its exit code counts.
GateCheck ==
    /\ pc = "gate"
    /\ \E obs \in Observations(works, CasesOf[cur]), lines \in 0..MaxLines, report \in Reports :
       \E green \in {FALSE, obs = CasesOf[cur]} :
          Measure(report, obs, lines, green, "dod", "fix", "deadlock")
    /\ rounds' = 0
    /\ UNCHANGED <<product, cur, rows, agent, landed, blocked, trace, outcome, env, checked, passed>>

\* MUTANT of Cycle: a pass that lands nothing does not count towards the guard.
Cycle_LandedOnly == loops + (IF landed' THEN 1 ELSE 0)
Cycle == loops + 1

\* One fixer pass of a fix loop.
FixPass ==
    /\ Seat /\ landed' \in BOOLEAN
    /\ loops' = Cycle
    /\ spent' = spent + (IF landed' THEN 1 ELSE 0)

FixTask ==
    /\ pc = "fix" /\ FixPass /\ pc' = "gate"
    /\ UNCHANGED <<product, cur, rows, gate, rounds, blocked, trace, outcome, env, checked, passed>>

\* The task did not converge; _diagnose_deadlock may ask the second model,
\* whose seat keeps every tool and may be refused or cut short by the cancel.
GiveUpTask ==
    /\ pc = "deadlock" /\ SeatEnds
    /\ SetRow("failed") /\ FreshLoop
    /\ UNCHANGED <<product, landed, rounds, blocked, trace, outcome, env, checked, passed>>

\* _enforce_task_dod: a vacuous test, or violations that outlive the budget.
DodRefuses ==
    /\ pc = "dod" /\ seat = "none"
    /\ rounds = 0 \/ rounds = DodRounds
    /\ SetRow("failed")
    /\ UNCHANGED <<product, loop, agent, landed, rounds, blocked, trace, outcome, env, checked, passed>>

DodHolds ==
    /\ pc = "dod" /\ seat = "none"
    /\ SetRow("green")
    /\ UNCHANGED <<product, loop, agent, landed, rounds, blocked, trace, outcome, env, checked, passed>>

\* A quality fix that breaks the test fails the task.
DodFix ==
    /\ pc = "dod" /\ Seat
    /\ rounds' = rounds + 1
    /\ \E obs \in Observations(works, CasesOf[cur]) :
          IF obs = CasesOf[cur] THEN UNCHANGED <<pc, cur, rows>> ELSE SetRow("failed")
    /\ UNCHANGED <<product, loop, landed, blocked, trace, outcome, env, checked, passed>>

-----------------------------------------------------------------------------
(* Phase 2: integration                                                    *)

StopRed ==
    /\ AllTried /\ SomeRed
    /\ trace' = "stopped-red" /\ Finish("stalled_incomplete")
    /\ UNCHANGED <<product, cur, rows, loop, agent, landed, rounds, blocked, env, checked, passed>>

\* The cancel is looked at before and after the UX test is authored.
EnterIntegration ==
    /\ AllTried /\ ~SomeRed
    /\ IF cancel THEN Finish("cancelled") ELSE pc' = "integrate" /\ UNCHANGED outcome
    /\ FreshLoop
    /\ UNCHANGED <<product, cur, rows, agent, landed, rounds, blocked, trace, env, checked, passed>>

\* The whole validation, and a second run for the passing cases.
IntegrationCheck ==
    /\ pc = "integrate"
    /\ \E obs \in Observations(works, Cases), obs2 \in Observations(works, PlanCases),
          lines \in 0..MaxLines, report \in Reports :
          LET green == WholeGreen(works, obs) IN
          /\ Measure(report, obs2, lines, green, "spec", "ifix", "done")
          /\ checked' = green
          /\ trace' = IF pc' = "done" THEN "stalled-incomplete"
                      ELSE IF green THEN "integration" ELSE trace
          /\ outcome' = IF pc' = "done" THEN "stalled_incomplete" ELSE outcome
    /\ rounds' = 0
    /\ UNCHANGED <<product, cur, rows, agent, landed, blocked, env, passed>>

FixIntegration ==
    /\ pc = "ifix" /\ FixPass /\ pc' = "integrate"
    /\ UNCHANGED <<product, cur, rows, gate, rounds, blocked, trace, outcome, env, checked, passed>>

-----------------------------------------------------------------------------
(* Phase 3: reviews, phase 4: evidence                                     *)

\* The review ends; the other one, or the evidence, is next.
AfterReview(kind, open) ==
    IF kind = "spec" THEN pc' = "code" /\ UNCHANGED <<trace, outcome>>
    ELSE IF open = {} THEN pc' = "evidence" /\ UNCHANGED <<trace, outcome>>
    ELSE trace' = "review-blocked" /\ Finish("stalled_incomplete")

\* The reviewer says PASS.
ReviewPasses(kind) ==
    /\ pc = kind /\ seat = "read" /\ SeatEnds
    /\ passed' = passed \cup {kind}
    /\ rounds' = 0
    /\ AfterReview(kind, blocked)
    /\ UNCHANGED <<product, cur, rows, loop, landed, blocked, env, checked>>

\* FAIL below the budget: a fixer is dispatched, unless the cancel is seen.
ReviewFails(kind) ==
    /\ pc = kind /\ seat = "read" /\ rounds < DodRounds /\ ~cancel
    /\ seat' = "write"
    /\ UNCHANGED <<product, pc, cur, rows, loop, late, landed, rounds, blocked, trace, outcome, env, checked, passed>>

\* check(repo_root) after a review fix
Recheck == \E obs \in Observations(works, Cases) : checked' = WholeGreen(works, obs)

\* The fixer is done: the build must still be green before the same reviewer is
\* asked again.
ReviewFix(kind) ==
    /\ pc = kind /\ Seat
    /\ Recheck
    /\ rounds' = rounds + 1
    /\ IF checked' THEN UNCHANGED <<pc, trace, outcome, blocked>>
       ELSE /\ trace' = "review-blocked" /\ Finish("stalled_incomplete")
            /\ blocked' = blocked \cup {kind}
    /\ UNCHANGED <<product, cur, rows, loop, landed, env, passed>>

\* MUTANT of Unresolved: a finding that outlives the budget is only reported.
Unresolved_Advisory(kind) == blocked
Unresolved(kind) == blocked \cup {kind}

\* FAIL with the budget spent: it blocks, but the other review still runs.
ReviewBlocks(kind) ==
    /\ pc = kind /\ seat = "read" /\ rounds = DodRounds /\ SeatEnds
    /\ blocked' = Unresolved(kind)
    /\ rounds' = 0
    /\ AfterReview(kind, blocked')
    /\ UNCHANGED <<product, cur, rows, loop, landed, env, checked, passed>>

\* The evidence agent wrote the artifact, or not; nothing is run again, and
\* nobody looks at the cancel any more.
WriteEvidence ==
    /\ pc = "evidence" /\ Seat
    /\ trace' = "complete" /\ Finish("completed")
    /\ UNCHANGED <<product, cur, rows, loop, landed, rounds, blocked, env, checked, passed>>

-----------------------------------------------------------------------------
Step ==
    \/ Dispatch \/ InfrastructureFails \/ SeesCancel \/ PreflightFails \/ PreflightPasses
    \/ Block \/ SkipTask \/ StartTask \/ DraftUntested \/ Draft \/ GateCheck \/ FixTask \/ GiveUpTask
    \/ DodRefuses \/ DodHolds \/ DodFix
    \/ StopRed \/ EnterIntegration \/ IntegrationCheck \/ FixIntegration
    \/ \E kind \in {"spec", "code"} :
          ReviewPasses(kind) \/ ReviewFails(kind) \/ ReviewFix(kind) \/ ReviewBlocks(kind)
    \/ WriteEvidence

Next == Step \/ Work \/ Begin \/ Cancel

Spec == Init /\ [][Next]_vars

\* Seats, checks and reviews end: each is bounded by budgets and timeouts.
FairSpec == Spec /\ WF_vars(Step)

-----------------------------------------------------------------------------
(* Properties                                                              *)

\* No evidence is written for a product that did not get through every wall:
\* each task settled, no review finding open, and, whatever the fixers of the
\* reviews did in between, the product as it is now passed the whole validation
\* and the quality review (run_subagent_driven_build, phases 1 to 3).
WallsBeforeEvidence ==
    pc = "evidence" /\ seat = "none" =>
        /\ \A t \in Tasks : rows[t] \in Settled
        /\ blocked = {} /\ checked /\ "code" \in passed

\* No seat is paid to build on a prerequisite that is red, nor on one that was
\* itself skipped because of a red one, however long the chain: the tasks below
\* the present one have a set of sound prerequisites closed under theirs
\* (matrix.failed_or_blocked).
NoWorkOnRedPrerequisite ==
    pc \in {"draft", "gate", "fix", "dod"} =>
        \E S \in SUBSET (1..(cur - 1)) :
            /\ Deps[cur] \cap 1..(cur - 1) \subseteq S
            /\ \A t \in S : rows[t] \notin Bad /\ Deps[t] \cap 1..(t - 1) \subseteq S

\* Converge or stall: a fix loop is never kept alive by changes that are not
\* convergence.  The cycles whose seat landed work are bounded by the progress
\* made, not by the runaway guard (_TaskProgressGate).
Rank(g) == Cardinality(g.best) + (IF g.seen THEN 1 ELSE 0) + (None - g.least)
ConvergeOrStall ==
    pc \in {"fix", "ifix"} => spent <= StallRounds * Rank(gate) + gate.idle

\* A cancel stops the build at its next look: of all the seats still to come,
\* only the one it finds at work may go on to write the product, none is
\* dispatched any more, and the build is completed only if the one it found was
\* the evidence agent's (_default_run_agent, BuildCancelled).
AtWork == IF seat = "none" THEN 0 ELSE 1
CancelIsFinal ==
    cancel => /\ late + AtWork <= 1
              /\ outcome = "completed" => late = 1

\* Every build comes to an end, also when no seat ever lands work and nothing
\* is charged to the stall counter.
BuildEnds == pc = "preflight" ~> pc = "done"

\* Refinement: the build keeps the contract of BuildContract.  A settled row is
\* a good verdict, a failed or blocked one a bad verdict.
Verdict(status) == IF status \in Settled THEN "good" ELSE IF status \in Bad THEN "bad" ELSE "open"
Stage ==
    CASE pc = "done" -> "idle"
      [] pc \in {"integrate", "ifix"} -> "integration"
      [] pc \in {"spec", "code"} -> "review"
      [] pc = "evidence" -> "record"
      [] OTHER -> "tasks"
Contract == INSTANCE BuildContract WITH
    verdict <- [t \in Tasks |-> Verdict(rows[t])], stage <- Stage, result <- outcome
KeepsContract == Contract!Spec
=============================================================================
