----------------------------- MODULE WorkerPool -----------------------------
(***************************************************************************)
(* The parallel executor: run_worker_pool (product/executor.py) draining a *)
(* task store, either PostgresTaskStore, whose operations are single SQL   *)
(* statements, or InMemoryTaskStore, whose operations are plain Python     *)
(* that other worker threads interleave with.                              *)
(*                                                                         *)
(* Time is abstracted to "the lease of a task has lapsed".  runtime_id,    *)
(* results and error texts are stored but never read, and are left out.    *)
(***************************************************************************)
EXTENDS Naturals, FiniteSets

CONSTANTS Worker,       \* the threads of the pool
          N,            \* number of enqueued tasks, in the order of the store
          MaxAttempts,  \* max_attempts of the store
          Stores,       \* "postgres": PostgresTaskStore, "memory": InMemoryTaskStore
          Faults,       \* Postgres calls that may raise, and "git"
          MaxFaults     \* BOUND: how often they do

ASSUME PoolAssumption ==
    /\ N \in Nat /\ MaxAttempts \in Nat \ {0} /\ MaxFaults \in Nat
    /\ Stores \subseteq {"postgres", "memory"}
    /\ Faults \subseteq {"claim", "heartbeat", "complete", "fail", "git"}
    /\ IsFiniteSet(Worker) /\ Worker # {}

Task == 1..N
NoTask == 0

VARIABLES
    db,       \* the store this pool was given
    status,   \* Task -> queued | running | done | dead
    attempts, \* Task -> failures counted
    lapsed,   \* Task -> lease_until <= now
    pc,       \* Worker -> where its loop is
    cur,      \* Worker -> position of InMemoryTaskStore.claim in the dict, 1 outside it
    job,      \* Worker -> the claimed task
    seen,     \* Worker -> outcome.status, "none" before there is one
    beating,  \* Worker -> its heartbeat thread is alive
    inFlight, \* the pool's in_flight
    reported, \* Task -> outcome statuses in ExecutionReport.outcomes
    isolated, \* run_isolated_build_tasks: each task in a git worktree of its own
    merged,   \* the tasks with a merge commit on the base branch
    midMerge, \* an aborted merge left the repository inside a merge
    faults    \* errors of the store and of git so far

store  == <<db, status, attempts, lapsed>>
repo == <<isolated, merged, midMerge>>
vars == <<db, status, attempts, lapsed, pc, cur, job, seen, beating, inFlight,
          reported, isolated, merged, midMerge, faults>>

PCs == {"claim", "scan", "take", "lease", "none", "begin", "run", "complete", "fail",
        "unlease", "failhard", "get", "finish", "exit", "died",
        "merge", "tidyOk", "tidyHard"}

TypeOK ==
    /\ db \in Stores
    /\ status \in [Task -> {"queued", "running", "done", "dead"}]
    /\ attempts \in [Task -> Nat]
    /\ lapsed \in [Task -> BOOLEAN]
    /\ pc \in [Worker -> PCs]
    /\ cur \in [Worker -> 1..(N + 1)]
    /\ job \in [Worker -> Task \cup {NoTask}]
    /\ seen \in [Worker -> {"none", "queued", "running", "done", "dead"}]
    /\ beating \in [Worker -> BOOLEAN]
    /\ inFlight \in 0..Cardinality(Worker)
    /\ reported \in [Task -> SUBSET {"done", "dead"}]
    /\ isolated \in BOOLEAN /\ merged \subseteq Task /\ midMerge \in BOOLEAN
    /\ faults \in 0..MaxFaults

\* Everything is enqueued before the workers start; lease_until is 0.
Init ==
    /\ db \in Stores
    /\ status = [t \in Task |-> "queued"] /\ attempts = [t \in Task |-> 0]
    /\ lapsed = [t \in Task |-> TRUE]
    /\ pc = [w \in Worker |-> "claim"] /\ cur = [w \in Worker |-> 1]
    /\ job = [w \in Worker |-> NoTask] /\ seen = [w \in Worker |-> "none"]
    /\ beating = [w \in Worker |-> FALSE] /\ inFlight = 0
    /\ reported = [t \in Task |-> {}] /\ faults = 0
    /\ isolated \in BOOLEAN /\ merged = {} /\ midMerge = FALSE

Goto(w, l) == pc' = [pc EXCEPT ![w] = l]

-----------------------------------------------------------------------------
(* claim                                                                   *)

\* MUTANT of Claimable: the lease of a running task is not looked at.
Claimable_AnyLease(t) == status[t] \in {"queued", "running"}

Claimable(t) == status[t] = "queued" \/ (status[t] = "running" /\ lapsed[t])

\* The row claimed by SELECT ... FOR UPDATE SKIP LOCKED: the oldest claimable.
NextRow(t) == Claimable(t) /\ \A u \in Task : u < t => ~Claimable(u)

\* One UPDATE statement.
ClaimRow(w) ==
    /\ db = "postgres" /\ pc[w] = "claim"
    /\ \E t \in Task :
         /\ NextRow(t)
         /\ status' = [status EXCEPT ![t] = "running"]
         /\ lapsed' = [lapsed EXCEPT ![t] = FALSE]
         /\ job' = [job EXCEPT ![w] = t]
    /\ Goto(w, "begin")
    /\ UNCHANGED <<db, attempts, cur, seen, beating, inFlight, reported, repo, faults>>

ClaimNothing(w) ==
    /\ db = "postgres" /\ pc[w] = "claim"
    /\ \A t \in Task : ~Claimable(t)
    /\ Goto(w, "none")
    /\ UNCHANGED <<store, cur, job, seen, beating, inFlight, reported, repo, faults>>

\* In memory: a loop over the tasks, tested and then written in three steps.
ClaimScan(w) ==
    /\ db = "memory" /\ pc[w] = "claim"
    /\ Goto(w, "scan")
    /\ UNCHANGED <<store, cur, job, seen, beating, inFlight, reported, repo, faults>>

ScanTask(w) ==
    /\ pc[w] = "scan"
    /\ \/ cur[w] > N /\ Goto(w, "none") /\ cur' = [cur EXCEPT ![w] = 1]
       \/ cur[w] <= N /\ Claimable(cur[w]) /\ Goto(w, "take") /\ UNCHANGED cur
       \/ /\ cur[w] <= N /\ ~Claimable(cur[w])
          /\ cur' = [cur EXCEPT ![w] = @ + 1] /\ UNCHANGED pc
    /\ UNCHANGED <<store, job, seen, beating, inFlight, reported, repo, faults>>

TakeRunning(w) ==
    /\ pc[w] = "take"
    /\ status' = [status EXCEPT ![cur[w]] = "running"]
    /\ Goto(w, "lease")
    /\ UNCHANGED <<db, attempts, lapsed, cur, job, seen, beating, inFlight, reported, repo, faults>>

TakeLease(w) ==
    /\ pc[w] = "lease"
    /\ lapsed' = [lapsed EXCEPT ![cur[w]] = FALSE]
    /\ job' = [job EXCEPT ![w] = cur[w]] /\ cur' = [cur EXCEPT ![w] = 1]
    /\ Goto(w, "begin")
    /\ UNCHANGED <<db, status, attempts, seen, beating, inFlight, reported, repo, faults>>

-----------------------------------------------------------------------------
(* The worker loop                                                         *)

\* Nothing claimed: the worker ends if nothing is in flight, or polls again.
ReadInFlight(w) ==
    /\ pc[w] = "none"
    /\ Goto(w, IF inFlight > 0 THEN "claim" ELSE "exit")
    /\ UNCHANGED <<store, cur, job, seen, beating, inFlight, reported, repo, faults>>

\* in_flight is raised after the claim, then the heartbeat thread starts.
Begin(w) ==
    /\ pc[w] = "begin"
    /\ inFlight' = inFlight + 1 /\ beating' = [beating EXCEPT ![w] = TRUE]
    /\ Goto(w, "run")
    /\ UNCHANGED <<store, cur, job, seen, reported, repo, faults>>

\* run_task returns, raises, or raises NonRetryableTaskError.
RunTask(w) ==
    /\ pc[w] = "run" /\ ~isolated
    /\ \E l \in {"complete", "fail", "failhard"} : Goto(w, l)
    /\ UNCHANGED <<store, cur, job, seen, beating, inFlight, reported, repo, faults>>

-----------------------------------------------------------------------------
(* run_isolated_build_tasks: a worktree per task, merges one at a time     *)

Fails(kind) == kind \in Faults /\ faults < MaxFaults /\ faults' = faults + 1

\* The worktree is added, the packet dispatched into it and the result committed
\* on a branch of its own.  What raises before the merge is an ordinary failure,
\* whether or not the worktree can then be removed.
RunInWorktree(w) ==
    /\ pc[w] = "run" /\ isolated
    /\ \E l \in {"merge", "fail"} : Goto(w, l)
    /\ UNCHANGED <<store, cur, job, seen, beating, inFlight, reported, repo, faults>>

\* MUTANT of MergeBranch: the conflict is aborted and not raised.
MergeBranch_Swallows(w) ==
    /\ pc[w] = "merge"
    /\ \/ /\ ~midMerge /\ merged' = merged \cup {job[w]}
          /\ Goto(w, "tidyOk") /\ UNCHANGED <<midMerge, faults>>
       \/ Goto(w, "tidyOk") /\ midMerge' = FALSE /\ UNCHANGED <<merged, faults>>
    /\ UNCHANGED <<store, cur, job, seen, beating, inFlight, reported, isolated>>

\* Under merge_lock: the branch is merged into the base branch; a conflict is
\* aborted and dead-letters the task; an abort that raises is an ordinary failure.
MergeBranch(w) ==
    /\ pc[w] = "merge"
    /\ \/ /\ ~midMerge /\ merged' = merged \cup {job[w]}
          /\ Goto(w, "tidyOk") /\ UNCHANGED <<midMerge, faults>>
       \/ Goto(w, "tidyHard") /\ midMerge' = FALSE /\ UNCHANGED <<merged, faults>>
       \/ /\ Fails("git") /\ midMerge' \in {midMerge, TRUE}
          /\ Goto(w, "fail") /\ UNCHANGED merged
    /\ UNCHANGED <<store, cur, job, seen, beating, inFlight, reported, isolated>>

\* The finally clause removes the worktree.  If that raises, its exception takes
\* the place of the result, or of the NonRetryableTaskError, under way.
Tidy(w) ==
    /\ \/ pc[w] = "tidyOk" /\ Goto(w, "complete") /\ UNCHANGED faults
       \/ pc[w] = "tidyHard" /\ Goto(w, "failhard") /\ UNCHANGED faults
       \/ /\ pc[w] \in {"tidyOk", "tidyHard"}
          /\ Fails("git") /\ Goto(w, "fail")
    /\ UNCHANGED <<store, cur, job, seen, beating, inFlight, reported, repo>>

-----------------------------------------------------------------------------
(* The end of an attempt                                                   *)

Complete(w) ==
    /\ pc[w] = "complete"
    /\ status' = [status EXCEPT ![job[w]] = "done"]
    /\ seen' = [seen EXCEPT ![w] = "done"]
    /\ Goto(w, "finish")
    /\ UNCHANGED <<db, attempts, lapsed, cur, job, beating, inFlight, reported, repo, faults>>

\* A retryable failure goes back to the queue while attempts are left.
Retry(t) == attempts[t] + 1 < MaxAttempts

\* Postgres fails a task in one statement, the in-memory store resets the
\* lease of a requeued task after its status.
Fail(w) ==
    LET t == job[w] IN
    /\ pc[w] = "fail"
    /\ attempts' = [attempts EXCEPT ![t] = @ + 1]
    /\ status' = [status EXCEPT ![t] = IF Retry(t) THEN "queued" ELSE "dead"]
    /\ Goto(w, IF Retry(t) /\ db = "memory" THEN "unlease" ELSE "get")
    /\ UNCHANGED <<db, lapsed, cur, job, seen, beating, inFlight, reported, repo, faults>>

FailLease(w) ==
    /\ pc[w] = "unlease"
    /\ lapsed' = [lapsed EXCEPT ![job[w]] = TRUE]
    /\ Goto(w, "get")
    /\ UNCHANGED <<db, status, attempts, cur, job, seen, beating, inFlight, reported, repo, faults>>

FailHard(w) ==
    /\ pc[w] = "failhard"
    /\ attempts' = [attempts EXCEPT ![job[w]] = @ + 1]
    /\ status' = [status EXCEPT ![job[w]] = "dead"]
    /\ seen' = [seen EXCEPT ![w] = "dead"]
    /\ Goto(w, "finish")
    /\ UNCHANGED <<db, lapsed, cur, job, beating, inFlight, reported, repo, faults>>

\* The status is read back after the failure; others may have moved it on.
Get(w) ==
    /\ pc[w] = "get"
    /\ seen' = [seen EXCEPT ![w] = status[job[w]]]
    /\ Goto(w, "finish")
    /\ UNCHANGED <<store, cur, job, beating, inFlight, reported, repo, faults>>

\* MUTANTS of Outcome: only successes are recorded; every failure counts as dead.
Outcome_DoneOnly(w) ==
    IF seen[w] = "done" THEN [reported EXCEPT ![job[w]] = @ \cup {"done"}] ELSE reported
Outcome_EveryFailure(w) ==
    [reported EXCEPT ![job[w]] = @ \cup {IF seen[w] = "done" THEN "done" ELSE "dead"}]

\* Final outcomes are reported, a requeued task is not.
Outcome(w) ==
    IF seen[w] \in {"done", "dead"} THEN [reported EXCEPT ![job[w]] = @ \cup {seen[w]}]
    ELSE reported

\* MUTANT of Finish: in_flight is not lowered.
Finish_Leaks(w) ==
    /\ pc[w] = "finish"
    /\ beating' = [beating EXCEPT ![w] = FALSE]
    /\ reported' = Outcome(w)
    /\ job' = [job EXCEPT ![w] = NoTask] /\ seen' = [seen EXCEPT ![w] = "none"]
    /\ Goto(w, "claim")
    /\ UNCHANGED <<store, cur, inFlight, repo, faults>>

\* The heartbeat is stopped, in_flight lowered, the outcome recorded.
Finish(w) ==
    /\ pc[w] = "finish"
    /\ beating' = [beating EXCEPT ![w] = FALSE]
    /\ inFlight' = inFlight - 1
    /\ reported' = Outcome(w)
    /\ job' = [job EXCEPT ![w] = NoTask] /\ seen' = [seen EXCEPT ![w] = "none"]
    /\ Goto(w, "claim")
    /\ UNCHANGED <<store, cur, repo, faults>>

\* heartbeat renews the lease of a running task, whoever claimed it.
Heartbeat(w) ==
    /\ beating[w] /\ status[job[w]] = "running" /\ lapsed[job[w]]
    /\ lapsed' = [lapsed EXCEPT ![job[w]] = FALSE]
    /\ UNCHANGED <<db, status, attempts, pc, cur, job, seen, beating, inFlight, reported, repo, faults>>

-----------------------------------------------------------------------------
(* Database errors and time                                                *)

Fault(kind) == db = "postgres" /\ Fails(kind)

\* The exception ends the worker thread; the finally clause stops the
\* heartbeat, nothing lowers in_flight.
Die(w) ==
    /\ Goto(w, "died") /\ beating' = [beating EXCEPT ![w] = FALSE]
    /\ job' = [job EXCEPT ![w] = NoTask] /\ seen' = [seen EXCEPT ![w] = "none"]

\* The connection fails before the claim is applied, or before it is answered.
ClaimRaises(w) ==
    /\ pc[w] = "claim" /\ Fault("claim")
    /\ \/ UNCHANGED <<status, lapsed>>
       \/ \E t \in Task :
            /\ NextRow(t)
            /\ status' = [status EXCEPT ![t] = "running"]
            /\ lapsed' = [lapsed EXCEPT ![t] = FALSE]
    /\ Die(w)
    /\ UNCHANGED <<db, attempts, cur, inFlight, reported, repo>>

\* The except clause of run_worker_pool fails a task whose completion raised,
\* applied or not.
CompleteRaises(w) ==
    /\ pc[w] = "complete" /\ Fault("complete")
    /\ \/ UNCHANGED status
       \/ status' = [status EXCEPT ![job[w]] = "done"]
    /\ Goto(w, "fail")
    /\ UNCHANGED <<db, attempts, lapsed, cur, job, seen, beating, inFlight, reported, repo>>

\* A raise in fail or get leaves run_worker_pool's loop.  The failure was applied
\* or not: applied and retryable, it is the raise at "get".
FailRaises(w) ==
    /\ pc[w] \in {"fail", "failhard", "get"} /\ Fault("fail")
    /\ Die(w)
    /\ \/ UNCHANGED <<attempts, status>>
       \/ /\ pc[w] = "failhard"
          /\ attempts' = [attempts EXCEPT ![job[w]] = @ + 1]
          /\ status' = [status EXCEPT ![job[w]] = "dead"]
    /\ UNCHANGED <<db, lapsed, cur, inFlight, reported, repo>>

\* An exception in heartbeat ends the heartbeat thread, the task goes on.
HeartbeatRaises(w) ==
    /\ beating[w] /\ Fault("heartbeat")
    /\ beating' = [beating EXCEPT ![w] = FALSE]
    /\ UNCHANGED <<store, pc, cur, job, seen, inFlight, reported, repo>>

\* The lease is held by a worker that has just claimed, or by its heartbeat.
Renewed(t) ==
    \E w \in Worker :
        \/ job[w] = t /\ (beating[w] \/ pc[w] = "begin")
        \/ cur[w] = t /\ pc[w] = "lease"

\* Time passes: the lease of a running task that nobody renews lapses.
Lapse(t) ==
    /\ status[t] = "running" /\ ~lapsed[t] /\ ~Renewed(t)
    /\ lapsed' = [lapsed EXCEPT ![t] = TRUE]
    /\ UNCHANGED <<db, status, attempts, pc, cur, job, seen, beating, inFlight, reported, repo, faults>>

-----------------------------------------------------------------------------
Step(w) ==
    \/ ClaimRow(w) \/ ClaimNothing(w)
    \/ ClaimScan(w) \/ ScanTask(w) \/ TakeRunning(w) \/ TakeLease(w)
    \/ ReadInFlight(w) \/ Begin(w) \/ RunTask(w)
    \/ RunInWorktree(w) \/ MergeBranch(w) \/ Tidy(w)
    \/ Complete(w) \/ Fail(w) \/ FailLease(w) \/ FailHard(w) \/ Get(w) \/ Finish(w)

Raise(w) == ClaimRaises(w) \/ CompleteRaises(w) \/ FailRaises(w) \/ HeartbeatRaises(w)

Next ==
    \/ \E w \in Worker : Step(w) \/ Heartbeat(w) \/ Raise(w)
    \/ \E t \in Task : Lapse(t)

Spec == Init /\ [][Next]_vars

\* Threads are scheduled, run_task returns (the dispatch has timeouts), and time
\* passes: an unrenewed lease lapses.
FairSpec == Spec /\ (\A w \in Worker : WF_vars(Step(w))) /\ (\A t \in Task : WF_vars(Lapse(t)))

-----------------------------------------------------------------------------
(* Properties                                                              *)

\* Every thread of the pool has returned; every thread has ended somehow.
Returned == \A w \in Worker : pc[w] = "exit"
Over == \A w \in Worker : pc[w] \in {"exit", "died"}

Executing(w) ==
    pc[w] \in {"begin", "run", "merge", "tidyOk", "tidyHard",
              "complete", "fail", "failhard"}

\* No task is executed by two workers at once ("claim: atomic; never
\* double-claims", task_store.py).
NoDoubleClaim ==
    \A v, w \in Worker : v # w /\ Executing(v) /\ Executing(w) => job[v] # job[w]

\* Postgres, and no call of it or of git has raised so far.
Clean == db = "postgres" /\ faults = 0

\* With SKIP LOCKED claims and working heartbeats a task has one worker at a time,
\* however the lease, the retry and the read-back interleave (claim, heartbeat).
PostgresClaimsExclusive == Clean => NoDoubleClaim

\* When an isolated pool without errors has returned, the tasks it reports as
\* done (merged_task_ids) are exactly the tasks with a merge commit on the base
\* branch, whatever merges conflicted and whatever was retried meanwhile: no
\* dead-lettered task leaves its work behind (run_isolated_build_tasks).
MergedAreDone ==
    isolated /\ Clean /\ Returned => merged = {t \in Task : "done" \in reported[t]}

\* When a pool without errors of Postgres has returned, the report gives every
\* task exactly the outcome the store has for it, although a failing worker reads
\* the status back after others may have moved it on (run_worker_pool).
ReportAgrees == Clean /\ Returned => \A t \in Task : reported[t] = {status[t]}

\* The workers leave one by one on what each of them saw; when the last has
\* returned, no task is queued or running and every task is in the report, also
\* if claims were doubled, leases lapsed or completions failed (run_worker_pool,
\* "the store is drained"; run_inprocess_build_tasks, "never a silent drop").
NeverDropped ==
    Returned => \A t \in Task : status[t] \in {"done", "dead"} /\ reported[t] # {}

\* The pool ends, unless an error of the store kills a worker (run_worker_pool,
\* "Stops once every worker simultaneously finds nothing claimable").
EndsOrDies == <>(Over \/ \E w \in Worker : pc[w] = "died")
=============================================================================
