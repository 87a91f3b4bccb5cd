-------------------------- MODULE WorkerPoolProofs --------------------------
(***************************************************************************)
(* Proofs about the worker pool, for every set of workers, every number of *)
(* tasks, every max_attempts and every number of errors: its types, the    *)
(* exclusive claims of the Postgres store, that no task is dropped, and    *)
(* that the report agrees with the store and with the merged branches.     *)
(***************************************************************************)
EXTENDS WorkerPool, FiniteSetTheorems, TLAPS

\* What the proof needs of the types.
Typed ==
    /\ db \in Stores
    /\ status \in [Task -> {"queued", "running", "done", "dead"}]
    /\ lapsed \in [Task -> BOOLEAN]
    /\ pc \in [Worker -> PCs]
    /\ job \in [Worker -> Nat] /\ cur \in [Worker -> Nat]
    /\ beating \in [Worker -> BOOLEAN]
    /\ faults \in Nat

InMemoryPC == {"scan", "take", "lease", "unlease"}

\* A worker that executes a task owns a running row, and its lease is kept by
\* the claim itself or by the heartbeat that started after it: nobody else can
\* claim that row.
Owns(w) ==
    Executing(w) =>
       /\ job[w] \in Task
       /\ status[job[w]] = "running" /\ ~lapsed[job[w]]
       /\ pc[w] # "begin" => beating[w]

\* What the git steps leave alone, and how they move the worker on.
LEMMA GitSteps ==
    ASSUME NEW w \in Worker, MergeBranch(w) \/ Tidy(w)
    PROVE  /\ UNCHANGED <<db, status, lapsed, job, cur, beating>>
           /\ faults' = faults \/ faults' = faults + 1
           /\ pc[w] \in {"merge", "tidyOk", "tidyHard"}
           /\ \E l \in {"tidyOk", "tidyHard", "complete", "fail", "failhard"} :
                 pc' = [pc EXCEPT ![w] = l]
<1>1. CASE MergeBranch(w)
  <2>1. UNCHANGED <<db, status, lapsed, job, cur, beating>> /\ pc[w] = "merge"
    BY <1>1, Zenon DEF MergeBranch, store
  <2>2. faults' = faults \/ faults' = faults + 1
    BY <1>1, Zenon DEF MergeBranch, Fails
  <2>3. Goto(w, "tidyOk") \/ Goto(w, "tidyHard") \/ Goto(w, "fail")
    BY <1>1, Zenon DEF MergeBranch
  <2> QED
    BY <2>1, <2>2, <2>3 DEF Goto
<1>2. CASE Tidy(w)
  <2>1. UNCHANGED <<db, status, lapsed, job, cur, beating>>
    BY <1>2, Zenon DEF Tidy, store
  <2>2. faults' = faults \/ faults' = faults + 1
    BY <1>2, Zenon DEF Tidy, Fails
  <2>3. /\ pc[w] \in {"tidyOk", "tidyHard"}
        /\ Goto(w, "complete") \/ Goto(w, "failhard") \/ Goto(w, "fail")
    BY <1>2 DEF Tidy
  <2> QED
    BY <2>1, <2>2, <2>3 DEF Goto
<1> QED
  BY <1>1, <1>2

\* Every step keeps the types.
LEMMA TypedStep == Typed /\ [Next]_vars => Typed'
<1> SUFFICES ASSUME Typed, [Next]_vars PROVE Typed'
  OBVIOUS
<1> USE DEF Typed, PCs, Goto, store, repo, Task, NoTask
<1>1. ASSUME NEW w \in Worker, ClaimRow(w) PROVE Typed'
  BY <1>1 DEF ClaimRow
<1>2. ASSUME NEW w \in Worker, ClaimNothing(w) PROVE Typed'
  BY <1>2 DEF ClaimNothing
<1>3. ASSUME NEW w \in Worker, ClaimScan(w) PROVE Typed'
  BY <1>3 DEF ClaimScan
<1>4. ASSUME NEW w \in Worker, ScanTask(w) PROVE Typed'
  <2>a. cur' = cur \/ cur' = [cur EXCEPT ![w] = 1] \/ cur' = [cur EXCEPT ![w] = @ + 1]
    BY <1>4 DEF ScanTask
  <2>b. cur[w] + 1 \in Nat /\ 1 \in Nat
    OBVIOUS
  <2>c. ASSUME cur' = [cur EXCEPT ![w] = @ + 1] PROVE cur' \in [Worker -> Nat]
    BY <2>b, <2>c
  <2>1. cur' \in [Worker -> Nat]
    BY <2>a, <2>b, <2>c
  <2>2. pc' \in [Worker -> PCs]
    BY <1>4 DEF ScanTask
  <2> QED
    BY <2>1, <2>2, <1>4 DEF ScanTask
<1>5. ASSUME NEW w \in Worker, TakeRunning(w) PROVE Typed'
  BY <1>5 DEF TakeRunning
<1>6. ASSUME NEW w \in Worker, TakeLease(w) PROVE Typed'
  BY <1>6 DEF TakeLease
<1>7. ASSUME NEW w \in Worker, ReadInFlight(w) PROVE Typed'
  BY <1>7 DEF ReadInFlight
<1>8. ASSUME NEW w \in Worker, Begin(w) PROVE Typed'
  BY <1>8 DEF Begin
<1>9. ASSUME NEW w \in Worker, RunTask(w) PROVE Typed'
  BY <1>9 DEF RunTask
<1>10. ASSUME NEW w \in Worker, Complete(w) PROVE Typed'
  BY <1>10 DEF Complete
<1>11. ASSUME NEW w \in Worker, Fail(w) PROVE Typed'
  BY <1>11 DEF Fail
<1>12. ASSUME NEW w \in Worker, FailLease(w) PROVE Typed'
  BY <1>12 DEF FailLease
<1>13. ASSUME NEW w \in Worker, FailHard(w) PROVE Typed'
  BY <1>13 DEF FailHard
<1>14. ASSUME NEW w \in Worker, Get(w) PROVE Typed'
  BY <1>14 DEF Get
<1>15. ASSUME NEW w \in Worker, Finish(w) PROVE Typed'
  BY <1>15 DEF Finish
<1>16. ASSUME NEW w \in Worker, Heartbeat(w) PROVE Typed'
  BY <1>16 DEF Heartbeat
<1>17. ASSUME NEW w \in Worker, ClaimRaises(w) PROVE Typed'
  <2>1. /\ status' \in [Task -> {"queued", "running", "done", "dead"}]
        /\ lapsed' \in [Task -> BOOLEAN]
    BY <1>17 DEF ClaimRaises
  <2>2. faults' \in Nat /\ pc' \in [Worker -> PCs] /\ beating' \in [Worker -> BOOLEAN]
    BY <1>17 DEF ClaimRaises, Fault, Fails, Die
  <2>3. db' \in Stores /\ job' \in [Worker -> Nat] /\ cur' \in [Worker -> Nat]
    BY <1>17 DEF ClaimRaises, Die
  <2> QED
    BY <2>1, <2>2, <2>3
<1>18. ASSUME NEW w \in Worker, CompleteRaises(w) PROVE Typed'
  <2>1. status' \in [Task -> {"queued", "running", "done", "dead"}]
    BY <1>18 DEF CompleteRaises
  <2>2. faults' \in Nat /\ pc' \in [Worker -> PCs]
    BY <1>18 DEF CompleteRaises, Fault, Fails
  <2> QED
    BY <2>1, <2>2, <1>18 DEF CompleteRaises
<1>19. ASSUME NEW w \in Worker, FailRaises(w) PROVE Typed'
  BY <1>19 DEF FailRaises, Fault, Fails, Die
<1>20. ASSUME NEW w \in Worker, HeartbeatRaises(w) PROVE Typed'
  BY <1>20 DEF HeartbeatRaises, Fault, Fails
<1>21. ASSUME NEW t \in Task, Lapse(t) PROVE Typed'
  BY <1>21 DEF Lapse
<1>22. ASSUME NEW w \in Worker, RunInWorktree(w) PROVE Typed'
  BY <1>22 DEF RunInWorktree
<1>23. ASSUME NEW w \in Worker, MergeBranch(w) PROVE Typed'
  <2>1. PICK l \in {"tidyOk", "tidyHard", "complete", "fail", "failhard"} :
           pc' = [pc EXCEPT ![w] = l]
    BY <1>23, GitSteps
  <2>2. pc' \in [Worker -> PCs]
    BY <2>1
  <2>3. faults' \in Nat
    BY <1>23, GitSteps
  <2>4. UNCHANGED <<db, status, lapsed, job, cur, beating>>
    BY <1>23, GitSteps
  <2> QED
    BY <2>2, <2>3, <2>4
<1>24. ASSUME NEW w \in Worker, Tidy(w) PROVE Typed'
  <2>1. PICK l \in {"tidyOk", "tidyHard", "complete", "fail", "failhard"} :
           pc' = [pc EXCEPT ![w] = l]
    BY <1>24, GitSteps
  <2>2. pc' \in [Worker -> PCs]
    BY <2>1
  <2>3. faults' \in Nat
    BY <1>24, GitSteps
  <2>4. UNCHANGED <<db, status, lapsed, job, cur, beating>>
    BY <1>24, GitSteps
  <2> QED
    BY <2>2, <2>3, <2>4
<1>25. CASE UNCHANGED vars
  BY <1>25 DEF vars
<1> QED
  BY <1>1, <1>2, <1>3, <1>4, <1>5, <1>6, <1>7, <1>8, <1>9, <1>10, <1>11,
     <1>12, <1>13, <1>14, <1>15, <1>16, <1>17, <1>18, <1>19, <1>20, <1>21,
     <1>22, <1>23, <1>24, <1>25 DEF Next, Step, Raise

\* What the invariant says while no call has raised.
Exclusive == NoDoubleClaim /\ \A w \in Worker : pc[w] \notin InMemoryPC /\ Owns(w)

\* While no call has raised, every step keeps the claims exclusive: a claim
\* takes a row nobody executes, a lease lapses only if nobody executes its row,
\* and a row that is completed or failed loses its only executor.
LEMMA CleanStep ==
    ASSUME Typed, Exclusive, [Next]_vars, Clean, Clean'
    PROVE  Exclusive'
<1> USE DEF Exclusive, Typed, NoDoubleClaim, Owns, Executing, InMemoryPC, PCs, Goto, store
<1>1. ASSUME NEW w \in Worker, ClaimRow(w) PROVE Exclusive'
  <2>1. PICK t \in Task :
           /\ Claimable(t)
           /\ status' = [status EXCEPT ![t] = "running"]
           /\ lapsed' = [lapsed EXCEPT ![t] = FALSE]
           /\ job' = [job EXCEPT ![w] = t]
    BY <1>1 DEF ClaimRow, NextRow
  <2>2. \A v \in Worker : v # w /\ Executing(v) => job[v] # t
    BY <2>1 DEF Claimable
  <2>3. pc' = [pc EXCEPT ![w] = "begin"] /\ beating' = beating
    BY <1>1 DEF ClaimRow
  <2>4. \A v \in Worker : v # w => (Executing(v)' <=> Executing(v)) /\ job'[v] = job[v]
    BY <2>1, <2>3
  <2>5. job'[w] = t /\ status'[t] = "running" /\ ~lapsed'[t]
    BY <2>1
  <2>6. NoDoubleClaim'
    BY <2>2, <2>4, <2>5
  <2>7. ASSUME NEW v \in Worker PROVE pc'[v] \notin InMemoryPC /\ Owns(v)'
    BY <2>1, <2>2, <2>3, <2>4, <2>5
  <2> QED
    BY <2>6, <2>7
<1>2. ASSUME NEW w \in Worker, ClaimNothing(w) PROVE Exclusive'
  BY <1>2 DEF ClaimNothing
<1>3. ASSUME NEW w \in Worker, ReadInFlight(w) PROVE Exclusive'
  BY <1>3 DEF ReadInFlight
<1>4. ASSUME NEW w \in Worker, Begin(w) PROVE Exclusive'
  BY <1>4 DEF Begin
<1>5. ASSUME NEW w \in Worker, RunTask(w) PROVE Exclusive'
  BY <1>5 DEF RunTask
<1>6. ASSUME NEW w \in Worker, Get(w) PROVE Exclusive'
  BY <1>6 DEF Get
<1>7. ASSUME NEW w \in Worker, Finish(w) PROVE Exclusive'
  BY <1>7 DEF Finish
<1>8. ASSUME NEW w \in Worker, Complete(w) PROVE Exclusive'
  <2>1. ~Executing(w)' /\ pc'[w] \notin InMemoryPC
    BY <1>8 DEF Complete, Clean
  <2>2. \A v \in Worker : v # w /\ Executing(v) => job[v] # job[w]
    BY <1>8 DEF Complete
  <2>3. \A v \in Worker : v # w => pc'[v] = pc[v] /\ (Executing(v) => status'[job[v]] = status[job[v]])
    BY <2>2, <1>8 DEF Complete
  <2>4. UNCHANGED <<job, lapsed, beating>>
    BY <1>8 DEF Complete
  <2> QED
    BY <2>1, <2>3, <2>4
<1>9. ASSUME NEW w \in Worker, Fail(w) PROVE Exclusive'
  <2>1. ~Executing(w)' /\ pc'[w] \notin InMemoryPC
    BY <1>9 DEF Fail, Clean
  <2>2. \A v \in Worker : v # w /\ Executing(v) => job[v] # job[w]
    BY <1>9 DEF Fail
  <2>3. \A v \in Worker : v # w => pc'[v] = pc[v] /\ (Executing(v) => status'[job[v]] = status[job[v]])
    BY <2>2, <1>9 DEF Fail
  <2>4. UNCHANGED <<job, lapsed, beating>>
    BY <1>9 DEF Fail
  <2> QED
    BY <2>1, <2>3, <2>4
<1>10. ASSUME NEW w \in Worker, FailHard(w) PROVE Exclusive'
  <2>1. ~Executing(w)' /\ pc'[w] \notin InMemoryPC
    BY <1>10 DEF FailHard, Clean
  <2>2. \A v \in Worker : v # w /\ Executing(v) => job[v] # job[w]
    BY <1>10 DEF FailHard
  <2>3. \A v \in Worker : v # w => pc'[v] = pc[v] /\ (Executing(v) => status'[job[v]] = status[job[v]])
    BY <2>2, <1>10 DEF FailHard
  <2>4. UNCHANGED <<job, lapsed, beating>>
    BY <1>10 DEF FailHard
  <2> QED
    BY <2>1, <2>3, <2>4
<1>11. ASSUME NEW w \in Worker, ClaimScan(w) \/ ScanTask(w) \/ TakeRunning(w) \/ TakeLease(w) \/ FailLease(w)
      PROVE  Exclusive'
  BY <1>11 DEF ClaimScan, ScanTask, TakeRunning, TakeLease, FailLease, Clean
<1>12. ASSUME NEW w \in Worker, Raise(w) PROVE Exclusive'
  BY <1>12 DEF Raise, ClaimRaises, CompleteRaises, FailRaises, HeartbeatRaises,
     Fault, Fails, Clean
<1>13. ASSUME NEW w \in Worker, Heartbeat(w) PROVE Exclusive'
  BY <1>13 DEF Heartbeat
<1>14. ASSUME NEW t \in Task, Lapse(t) PROVE Exclusive'
  <2>1. \A v \in Worker : Executing(v) => job[v] # t
    BY <1>14 DEF Lapse, Renewed
  <2> QED
    BY <2>1, <1>14 DEF Lapse
<1>15. ASSUME NEW w \in Worker, RunInWorktree(w) PROVE Exclusive'
  BY <1>15 DEF RunInWorktree
<1>16. ASSUME NEW w \in Worker, MergeBranch(w) PROVE Exclusive'
  BY <1>16, GitSteps
<1>17. ASSUME NEW w \in Worker, Tidy(w) PROVE Exclusive'
  BY <1>17, GitSteps
<1>18. CASE UNCHANGED vars
  BY <1>18 DEF vars
<1> QED
  BY <1>1, <1>2, <1>3, <1>4, <1>5, <1>6, <1>7, <1>8, <1>9, <1>10, <1>11,
     <1>12, <1>13, <1>14, <1>15, <1>16, <1>17, <1>18 DEF Next, Step

\* The store of a pool never changes, and the number of errors never falls.
LEMMA CleanBefore == ASSUME Typed, [Next]_vars, Clean' PROVE Clean
<1> USE DEF Clean, Typed, store
<1>1. ASSUME NEW w \in Worker, ClaimRow(w) PROVE Clean
  BY <1>1 DEF ClaimRow
<1>2. ASSUME NEW w \in Worker, ClaimNothing(w) PROVE Clean
  BY <1>2 DEF ClaimNothing
<1>3. ASSUME NEW w \in Worker, ClaimScan(w) PROVE Clean
  BY <1>3 DEF ClaimScan
<1>4. ASSUME NEW w \in Worker, ScanTask(w) PROVE Clean
  BY <1>4 DEF ScanTask
<1>5. ASSUME NEW w \in Worker, TakeRunning(w) PROVE Clean
  BY <1>5 DEF TakeRunning
<1>6. ASSUME NEW w \in Worker, TakeLease(w) PROVE Clean
  BY <1>6 DEF TakeLease
<1>7. ASSUME NEW w \in Worker, ReadInFlight(w) PROVE Clean
  BY <1>7 DEF ReadInFlight
<1>8. ASSUME NEW w \in Worker, Begin(w) PROVE Clean
  BY <1>8 DEF Begin
<1>9. ASSUME NEW w \in Worker, RunTask(w) PROVE Clean
  BY <1>9 DEF RunTask
<1>10. ASSUME NEW w \in Worker, Complete(w) PROVE Clean
  BY <1>10 DEF Complete
<1>11. ASSUME NEW w \in Worker, Fail(w) PROVE Clean
  BY <1>11 DEF Fail
<1>12. ASSUME NEW w \in Worker, FailLease(w) PROVE Clean
  BY <1>12 DEF FailLease
<1>13. ASSUME NEW w \in Worker, FailHard(w) PROVE Clean
  BY <1>13 DEF FailHard
<1>14. ASSUME NEW w \in Worker, Get(w) PROVE Clean
  BY <1>14 DEF Get
<1>15. ASSUME NEW w \in Worker, Finish(w) PROVE Clean
  BY <1>15 DEF Finish
<1>16. ASSUME NEW w \in Worker, Heartbeat(w) PROVE Clean
  BY <1>16 DEF Heartbeat
<1>17. ASSUME NEW w \in Worker, ClaimRaises(w) PROVE Clean
  BY <1>17 DEF ClaimRaises, Fault, Fails
<1>18. ASSUME NEW w \in Worker, CompleteRaises(w) PROVE Clean
  BY <1>18 DEF CompleteRaises, Fault, Fails
<1>19. ASSUME NEW w \in Worker, FailRaises(w) PROVE Clean
  BY <1>19 DEF FailRaises, Fault, Fails
<1>20. ASSUME NEW w \in Worker, HeartbeatRaises(w) PROVE Clean
  BY <1>20 DEF HeartbeatRaises, Fault, Fails
<1>21. ASSUME NEW t \in Task, Lapse(t) PROVE Clean
  BY <1>21 DEF Lapse
<1>22. ASSUME NEW w \in Worker, RunInWorktree(w) PROVE Clean
  BY <1>22 DEF RunInWorktree
<1>23. ASSUME NEW w \in Worker, MergeBranch(w) PROVE Clean
  BY <1>23, GitSteps
<1>24. ASSUME NEW w \in Worker, Tidy(w) PROVE Clean
  BY <1>24, GitSteps
<1>25. CASE UNCHANGED vars
  BY <1>25 DEF vars
<1> QED
  BY <1>1, <1>2, <1>3, <1>4, <1>5, <1>6, <1>7, <1>8, <1>9, <1>10, <1>11,
     <1>12, <1>13, <1>14, <1>15, <1>16, <1>17, <1>18, <1>19, <1>20, <1>21,
     <1>22, <1>23, <1>24, <1>25 DEF Next, Step, Raise

\* For every number of workers, tasks and attempts: with Postgres and as long as
\* no call raised, no task is executed by two workers at once, however claims,
\* heartbeats, lapsing leases, retries and read-backs interleave (claim, fail).
THEOREM ExclusiveClaims == Spec => []PostgresClaimsExclusive
<1> DEFINE Inv == Typed /\ (Clean => Exclusive)
<1>1. Init => Inv
  BY PoolAssumption DEF Init, Typed, Exclusive, NoDoubleClaim, Owns, Executing,
     InMemoryPC, PCs, Task, NoTask
<1>2. Inv /\ [Next]_vars => Inv'
  BY TypedStep, CleanStep, CleanBefore
<1>3. Inv => PostgresClaimsExclusive
  BY DEF PostgresClaimsExclusive, Exclusive
<1> QED
  BY <1>1, <1>2, <1>3, PTL DEF Spec

\* What else the git steps leave alone, and what they do to the repository.
LEMMA GitFrame ==
    ASSUME NEW w \in Worker, MergeBranch(w) \/ Tidy(w)
    PROVE  /\ UNCHANGED <<attempts, seen, inFlight, reported, isolated>>
           /\ merged' = merged \/ merged' = merged \cup {job[w]}
           /\ midMerge' = midMerge \/ midMerge' = TRUE \/ midMerge' = FALSE
           /\ faults' = faults \/ faults < MaxFaults
<1>1. CASE MergeBranch(w)
  <2>1. UNCHANGED <<attempts, seen, inFlight, reported, isolated>>
    BY <1>1, Zenon DEF MergeBranch, store
  <2>2. merged' = merged \/ merged' = merged \cup {job[w]}
    BY <1>1, Zenon DEF MergeBranch
  <2>3. midMerge' = midMerge \/ midMerge' = TRUE \/ midMerge' = FALSE
    BY <1>1, Zenon DEF MergeBranch
  <2>4. faults' = faults \/ faults < MaxFaults
    BY <1>1, Zenon DEF MergeBranch, Fails
  <2> QED
    BY <2>1, <2>2, <2>3, <2>4
<1>2. CASE Tidy(w)
  BY <1>2, Zenon DEF Tidy, store, repo, Fails
<1> QED
  BY <1>1, <1>2

\* The pcs of a worker that holds a job, and those between Begin and Finish.
Flying == {"run", "merge", "tidyOk", "tidyHard", "complete", "fail", "failhard",
           "unlease", "get", "finish"}
Working == Flying \cup {"begin"}

\* Where a worker has a task in its hands.
Placed(w) ==
    /\ job[w] \in Task \cup {NoTask} /\ cur[w] \in 1..(N + 1)
    /\ pc[w] \in Working => job[w] \in Task
    /\ pc[w] \in {"take", "lease"} => cur[w] \in Task
    /\ pc[w] \notin {"scan", "take", "lease"} => cur[w] = 1

\* The rest of TypeOK but in_flight.
Located ==
    /\ attempts \in [Task -> Nat]
    /\ seen \in [Worker -> {"none", "queued", "running", "done", "dead"}]
    /\ reported \in [Task -> SUBSET {"done", "dead"}]
    /\ isolated \in BOOLEAN /\ merged \subseteq Task /\ midMerge \in BOOLEAN
    /\ faults <= MaxFaults
    /\ \A w \in Worker : Placed(w)

\* Every step keeps them.
LEMMA LocatedStep == ASSUME Typed, Located, [Next]_vars PROVE Located'
<1> USE PoolAssumption DEF Typed, Located, Placed, PCs, Flying, Working, Goto,
      store, repo, Task, NoTask
<1>1. ASSUME NEW w \in Worker, ClaimRow(w) PROVE Located'
  BY <1>1 DEF ClaimRow
<1>2. ASSUME NEW w \in Worker, ClaimNothing(w) PROVE Located'
  BY <1>2 DEF ClaimNothing
<1>3. ASSUME NEW w \in Worker, ClaimScan(w) PROVE Located'
  BY <1>3 DEF ClaimScan
<1>4. ASSUME NEW w \in Worker, ScanTask(w) PROVE Located'
  <2>1. UNCHANGED <<attempts, seen, reported, isolated, merged, midMerge, faults, job>>
    BY <1>4 DEF ScanTask
  <2>2. \A v \in Worker : v # w => pc'[v] = pc[v] /\ cur'[v] = cur[v]
    BY <1>4 DEF ScanTask
  <2>3. \A v \in Worker : v # w => Placed(v)'
    BY <2>1, <2>2
  <2>4. Placed(w)'
    <3>1. CASE cur[w] > N
      BY <1>4, <2>1, <3>1 DEF ScanTask
    <3>2. CASE cur[w] <= N /\ Claimable(cur[w])
      BY <1>4, <2>1, <3>2 DEF ScanTask
    <3>3. CASE cur[w] <= N /\ ~Claimable(cur[w])
      <4>1. cur[w] + 1 \in 1..(N + 1) /\ cur' = [cur EXCEPT ![w] = cur[w] + 1] /\ pc' = pc
        BY <1>4, <3>3 DEF ScanTask
      <4>2. pc[w] = "scan" /\ cur'[w] = cur[w] + 1 /\ job'[w] = job[w]
        BY <1>4, <2>1, <4>1 DEF ScanTask
      <4> QED
        BY <4>1, <4>2
    <3> QED
      BY <3>1, <3>2, <3>3
  <2> QED
    BY <2>1, <2>3, <2>4
<1>5. ASSUME NEW w \in Worker, TakeRunning(w) PROVE Located'
  BY <1>5 DEF TakeRunning
<1>6. ASSUME NEW w \in Worker, TakeLease(w) PROVE Located'
  BY <1>6 DEF TakeLease
<1>7. ASSUME NEW w \in Worker, ReadInFlight(w) PROVE Located'
  BY <1>7 DEF ReadInFlight
<1>8. ASSUME NEW w \in Worker, Begin(w) PROVE Located'
  BY <1>8 DEF Begin
<1>9. ASSUME NEW w \in Worker, RunTask(w) PROVE Located'
  BY <1>9 DEF RunTask
<1>10. ASSUME NEW w \in Worker, RunInWorktree(w) PROVE Located'
  BY <1>10 DEF RunInWorktree
<1>11. ASSUME NEW w \in Worker, MergeBranch(w) PROVE Located'
  <2>1. /\ UNCHANGED <<attempts, seen, reported, isolated>>
        /\ merged' = merged \/ merged' = merged \cup {job[w]}
        /\ faults' = faults \/ faults < MaxFaults
    BY <1>11, GitFrame
  <2>2. /\ UNCHANGED <<job, cur>>
        /\ faults' = faults \/ faults' = faults + 1
        /\ pc[w] \in {"merge", "tidyOk", "tidyHard"}
    BY <1>11, GitSteps
  <2>3. PICK l \in {"tidyOk", "tidyHard", "complete", "fail", "failhard"} :
           pc' = [pc EXCEPT ![w] = l]
    BY <1>11, GitSteps
  <2>4. midMerge' \in BOOLEAN
    BY <1>11, GitFrame, Zenon
  <2>5. faults' <= MaxFaults
    BY <2>1, <2>2
  <2>6. job[w] \in Task /\ merged' \subseteq Task
    BY <2>1, <2>2
  <2>7. \A v \in Worker : Placed(v)'
    BY <2>2, <2>3, <2>6
  <2> QED
    BY <2>1, <2>4, <2>5, <2>6, <2>7
<1>12. ASSUME NEW w \in Worker, Tidy(w) PROVE Located'
  <2>1. /\ UNCHANGED <<attempts, seen, reported, isolated>>
        /\ merged' = merged \/ merged' = merged \cup {job[w]}
        /\ faults' = faults \/ faults < MaxFaults
    BY <1>12, GitFrame
  <2>2. /\ UNCHANGED <<job, cur>>
        /\ faults' = faults \/ faults' = faults + 1
        /\ pc[w] \in {"merge", "tidyOk", "tidyHard"}
    BY <1>12, GitSteps
  <2>3. PICK l \in {"tidyOk", "tidyHard", "complete", "fail", "failhard"} :
           pc' = [pc EXCEPT ![w] = l]
    BY <1>12, GitSteps
  <2>4. midMerge' \in BOOLEAN
    BY <1>12, GitFrame, Zenon
  <2>5. faults' <= MaxFaults
    BY <2>1, <2>2
  <2>6. job[w] \in Task /\ merged' \subseteq Task
    BY <2>1, <2>2
  <2>7. \A v \in Worker : Placed(v)'
    BY <2>2, <2>3, <2>6
  <2> QED
    BY <2>1, <2>4, <2>5, <2>6, <2>7
<1>13. ASSUME NEW w \in Worker, Complete(w) PROVE Located'
  BY <1>13 DEF Complete
<1>14. ASSUME NEW w \in Worker, Fail(w) PROVE Located'
  BY <1>14 DEF Fail, Retry
<1>15. ASSUME NEW w \in Worker, FailLease(w) PROVE Located'
  BY <1>15 DEF FailLease
<1>16. ASSUME NEW w \in Worker, FailHard(w) PROVE Located'
  BY <1>16 DEF FailHard
<1>17. ASSUME NEW w \in Worker, Get(w) PROVE Located'
  BY <1>17 DEF Get
<1>18. ASSUME NEW w \in Worker, Finish(w) PROVE Located'
  BY <1>18 DEF Finish, Outcome
<1>19. ASSUME NEW w \in Worker, Heartbeat(w) PROVE Located'
  BY <1>19 DEF Heartbeat
<1>20. ASSUME NEW w \in Worker, ClaimRaises(w) PROVE Located'
  BY <1>20 DEF ClaimRaises, Fault, Fails, Die
<1>21. ASSUME NEW w \in Worker, CompleteRaises(w) PROVE Located'
  BY <1>21 DEF CompleteRaises, Fault, Fails
<1>22. ASSUME NEW w \in Worker, FailRaises(w) PROVE Located'
  <2>1. attempts' \in [Task -> Nat] /\ seen' \in [Worker -> {"none", "queued", "running", "done", "dead"}]
    <3>1. CASE UNCHANGED <<attempts, status>>
      BY <1>22, <3>1 DEF FailRaises, Die
    <3>2. CASE pc[w] = "failhard" /\ attempts' = [attempts EXCEPT ![job[w]] = @ + 1]
      BY <1>22, <3>2 DEF FailRaises, Die
    <3> QED
      BY <1>22, <3>1, <3>2 DEF FailRaises
  <2>2. /\ UNCHANGED <<reported, isolated, merged, midMerge, cur>> /\ faults' <= MaxFaults
        /\ pc' = [pc EXCEPT ![w] = "died"] /\ job' = [job EXCEPT ![w] = NoTask]
        /\ seen' = [seen EXCEPT ![w] = "none"] /\ beating' = [beating EXCEPT ![w] = FALSE]
        /\ pc[w] \in {"fail", "failhard", "get"}
    BY <1>22 DEF FailRaises, Fault, Fails, Die
  <2>3. \A v \in Worker : Placed(v)'
    BY <2>2
  <2> QED
    BY <2>1, <2>2, <2>3
<1>23. ASSUME NEW w \in Worker, HeartbeatRaises(w) PROVE Located'
  BY <1>23 DEF HeartbeatRaises, Fault, Fails
<1>24. ASSUME NEW t \in Task, Lapse(t) PROVE Located'
  BY <1>24 DEF Lapse
<1>25. CASE UNCHANGED vars
  BY <1>25 DEF vars
<1> QED
  BY <1>1, <1>2, <1>3, <1>4, <1>5, <1>6, <1>7, <1>8, <1>9, <1>10, <1>11, <1>12,
     <1>13, <1>14, <1>15, <1>16, <1>17, <1>18, <1>19, <1>20, <1>21, <1>22, <1>23,
     <1>24, <1>25 DEF Next, Step, Raise

\* in_flight counts a set of workers: every one between Begin and Finish is in it,
\* and what else is in it died on the way and was never taken out.
Counted ==
    \E S \in SUBSET Worker :
        /\ inFlight = Cardinality(S)
        /\ \A w \in Worker : pc[w] \in Flying => w \in S
        /\ \A w \in S : pc[w] \in Flying \cup {"died"}

\* A step that leaves in_flight alone and takes no worker across the border of
\* Flying, but for one that dies in it, keeps the count.
LEMMA CountKept ==
    ASSUME Counted, inFlight' = inFlight,
           \A w \in Worker : /\ pc'[w] \in Flying => pc[w] \in Flying
                             /\ pc[w] \in Flying => pc'[w] \in Flying \cup {"died"}
                             /\ pc[w] = "died" => pc'[w] = "died"
    PROVE  Counted'
<1>1. PICK S \in SUBSET Worker :
         /\ inFlight = Cardinality(S)
         /\ \A w \in Worker : pc[w] \in Flying => w \in S
         /\ \A w \in S : pc[w] \in Flying \cup {"died"}
  BY DEF Counted
<1>2. \A w \in Worker : pc'[w] \in Flying => w \in S
  BY <1>1
<1>3. \A w \in S : pc'[w] \in Flying \cup {"died"}
  BY <1>1
<1> QED
  BY <1>1, <1>2, <1>3, Zenon DEF Counted

\* Every step keeps the count: Begin puts one worker in, Finish takes it out.
LEMMA CountedStep == ASSUME Typed, Counted, [Next]_vars PROVE Counted'
<1> USE DEF Typed, PCs, Flying, Goto
<1>1. ASSUME NEW w \in Worker, ClaimRow(w) PROVE Counted'
  BY <1>1, CountKept DEF ClaimRow
<1>2. ASSUME NEW w \in Worker, ClaimNothing(w) PROVE Counted'
  BY <1>2, CountKept DEF ClaimNothing
<1>3. ASSUME NEW w \in Worker, ClaimScan(w) PROVE Counted'
  BY <1>3, CountKept DEF ClaimScan
<1>4. ASSUME NEW w \in Worker, ScanTask(w) PROVE Counted'
  BY <1>4, CountKept DEF ScanTask
<1>5. ASSUME NEW w \in Worker, TakeRunning(w) PROVE Counted'
  BY <1>5, CountKept DEF TakeRunning
<1>6. ASSUME NEW w \in Worker, TakeLease(w) PROVE Counted'
  BY <1>6, CountKept DEF TakeLease
<1>7. ASSUME NEW w \in Worker, ReadInFlight(w) PROVE Counted'
  BY <1>7, CountKept DEF ReadInFlight
<1>8. ASSUME NEW w \in Worker, Begin(w) PROVE Counted'
  <2>1. PICK S \in SUBSET Worker :
           /\ inFlight = Cardinality(S)
           /\ \A v \in Worker : pc[v] \in Flying => v \in S
           /\ \A v \in S : pc[v] \in Flying \cup {"died"}
    BY DEF Counted
  <2>2. IsFiniteSet(S)
    BY PoolAssumption, FS_Subset

  <2>3. w \notin S /\ inFlight' = inFlight + 1 /\ pc' = [pc EXCEPT ![w] = "run"]
    BY <2>1, <1>8 DEF Begin
  <2>4. inFlight' = Cardinality(S \cup {w})
    BY <2>1, <2>2, <2>3, FS_AddElement
  <2>5. \A v \in Worker : pc'[v] \in Flying => v \in S \cup {w}
    BY <2>1, <2>3
  <2>6. \A v \in S \cup {w} : pc'[v] \in Flying \cup {"died"}
    BY <2>1, <2>3
  <2>7. S \cup {w} \in SUBSET Worker
    OBVIOUS
  <2> QED
    BY <2>4, <2>5, <2>6, <2>7, Zenon DEF Counted
<1>9. ASSUME NEW w \in Worker, RunTask(w) PROVE Counted'
  BY <1>9, CountKept DEF RunTask
<1>10. ASSUME NEW w \in Worker, RunInWorktree(w) PROVE Counted'
  BY <1>10, CountKept DEF RunInWorktree
<1>11. ASSUME NEW w \in Worker, MergeBranch(w) PROVE Counted'
  BY <1>11, CountKept, GitSteps, GitFrame
<1>12. ASSUME NEW w \in Worker, Tidy(w) PROVE Counted'
  BY <1>12, CountKept, GitSteps, GitFrame
<1>13. ASSUME NEW w \in Worker, Complete(w) PROVE Counted'
  BY <1>13, CountKept DEF Complete
<1>14. ASSUME NEW w \in Worker, Fail(w) PROVE Counted'
  BY <1>14, CountKept DEF Fail, Retry
<1>15. ASSUME NEW w \in Worker, FailLease(w) PROVE Counted'
  BY <1>15, CountKept DEF FailLease
<1>16. ASSUME NEW w \in Worker, FailHard(w) PROVE Counted'
  BY <1>16, CountKept DEF FailHard
<1>17. ASSUME NEW w \in Worker, Get(w) PROVE Counted'
  BY <1>17, CountKept DEF Get
<1>18. ASSUME NEW w \in Worker, Finish(w) PROVE Counted'
  <2>1. PICK S \in SUBSET Worker :
           /\ inFlight = Cardinality(S)
           /\ \A v \in Worker : pc[v] \in Flying => v \in S
           /\ \A v \in S : pc[v] \in Flying \cup {"died"}
    BY DEF Counted
  <2>2. IsFiniteSet(S)
    BY PoolAssumption, FS_Subset

  <2>3. w \in S /\ inFlight' = inFlight - 1 /\ pc' = [pc EXCEPT ![w] = "claim"]
    BY <2>1, <1>18 DEF Finish
  <2>4. inFlight' = Cardinality(S \ {w})
    BY <2>1, <2>2, <2>3, FS_RemoveElement, FS_CardinalityType
  <2>5. \A v \in Worker : pc'[v] \in Flying => v \in S \ {w}
    BY <2>1, <2>3
  <2>6. \A v \in S \ {w} : pc'[v] \in Flying \cup {"died"}
    BY <2>1, <2>3
  <2>7. S \ {w} \in SUBSET Worker
    OBVIOUS
  <2> QED
    BY <2>4, <2>5, <2>6, <2>7, Zenon DEF Counted
<1>19. ASSUME NEW w \in Worker, Heartbeat(w) PROVE Counted'
  BY <1>19, CountKept DEF Heartbeat
<1>20. ASSUME NEW w \in Worker, ClaimRaises(w) PROVE Counted'
  BY <1>20, CountKept DEF ClaimRaises, Fault, Fails, Die
<1>21. ASSUME NEW w \in Worker, CompleteRaises(w) PROVE Counted'
  BY <1>21, CountKept DEF CompleteRaises, Fault, Fails
<1>22. ASSUME NEW w \in Worker, FailRaises(w) PROVE Counted'
  BY <1>22, CountKept DEF FailRaises, Fault, Fails, Die
<1>23. ASSUME NEW w \in Worker, HeartbeatRaises(w) PROVE Counted'
  BY <1>23, CountKept DEF HeartbeatRaises, Fault, Fails
<1>24. ASSUME NEW t \in Task, Lapse(t) PROVE Counted'
  BY <1>24, CountKept DEF Lapse
<1>25. CASE UNCHANGED vars
  BY <1>25, CountKept DEF vars
<1> QED
  BY <1>1, <1>2, <1>3, <1>4, <1>5, <1>6, <1>7, <1>8, <1>9, <1>10, <1>11, <1>12,
     <1>13, <1>14, <1>15, <1>16, <1>17, <1>18, <1>19, <1>20, <1>21, <1>22, <1>23,
     <1>24, <1>25 DEF Next, Step, Raise

\* Initially nobody holds a task and nothing is in flight.
LEMMA TypesInit == Init => Typed /\ Located /\ Counted
<1> SUFFICES ASSUME Init PROVE Typed /\ Located /\ Counted
  OBVIOUS
<1>1. Typed
  BY PoolAssumption DEF Init, Typed, PCs, Task, NoTask
<1>2. Located
  <2>1. attempts \in [Task -> Nat] /\ merged \subseteq Task /\ faults <= MaxFaults
    BY PoolAssumption DEF Init
  <2>2. isolated \in BOOLEAN /\ midMerge \in BOOLEAN
    BY Zenon DEF Init
  <2>3. /\ seen \in [Worker -> {"none", "queued", "running", "done", "dead"}]
        /\ reported \in [Task -> SUBSET {"done", "dead"}]
    BY DEF Init
  <2>4. ASSUME NEW w \in Worker
        PROVE  job[w] = NoTask /\ cur[w] = 1 /\ pc[w] = "claim"
    BY DEF Init
  <2>5. 1 \in 1..(N + 1)
    BY PoolAssumption
  <2> QED
    BY <2>1, <2>2, <2>3, <2>4, <2>5 DEF Located, Placed, Flying, Working
<1>3. \A w \in Worker : pc[w] \notin Flying
  BY DEF Init, Flying
<1>4. inFlight = Cardinality({}) /\ {} \in SUBSET Worker
  BY FS_EmptySet DEF Init
<1> QED
  BY <1>1, <1>2, <1>3, <1>4 DEF Counted

\* The parts make up the type invariant of the pool.
LEMMA TypesTogether == Typed /\ Located /\ Counted => TypeOK
<1> SUFFICES ASSUME Typed, Located, Counted PROVE TypeOK
  OBVIOUS
<1>1. PICK S \in SUBSET Worker : inFlight = Cardinality(S)
  BY DEF Counted
<1>2. Cardinality(S) \in Nat /\ Cardinality(Worker) \in Nat /\ Cardinality(S) <= Cardinality(Worker)
  BY PoolAssumption, FS_Subset, FS_CardinalityType
<1>3. inFlight \in 0..Cardinality(Worker)
  BY <1>1, <1>2
<1>4. faults \in 0..MaxFaults
  BY PoolAssumption DEF Typed, Located, Placed
<1>5. cur \in [Worker -> 1..(N + 1)] /\ job \in [Worker -> Task \cup {NoTask}]
  BY DEF Typed, Located, Placed
<1> QED
  BY <1>3, <1>4, <1>5 DEF Typed, Located, TypeOK

\* For every number of workers, tasks, attempts and errors: the variables of the
\* pool keep their types; in particular in_flight, which the workers raise after
\* the claim and lower after the outcome, and which a worker that dies never
\* lowers, stays between 0 and the number of workers (run_worker_pool).
THEOREM PoolTypes == Spec => []TypeOK
<1> DEFINE Inv == Typed /\ Located /\ Counted
<1>1. Init => Inv
  BY TypesInit
<1>2. Inv /\ [Next]_vars => Inv'
  BY TypedStep, LocatedStep, CountedStep
<1>3. Inv => TypeOK
  BY TypesTogether
<1> QED
  BY <1>1, <1>2, <1>3, PTL DEF Spec

-----------------------------------------------------------------------------
(* No task is dropped                                                      *)

\* No worker was killed by an error of the store.
Alive == \A w \in Worker : pc[w] # "died"

\* w claims again, and its scan has not passed t yet.
WillClaim(w, t) == pc[w] \notin {"none", "exit", "died"} /\ ~(pc[w] = "scan" /\ cur[w] > t)

\* w has t in its hands.
Holds(w, t) == (Executing(w) /\ job[w] = t) \/ (pc[w] = "lease" /\ cur[w] = t)

\* w is on its way to report what became of t.
WillReport(w, t) ==
    /\ job[w] = t
    /\ \/ pc[w] \in {"fail", "unlease", "get"}
       \/ pc[w] = "finish" /\ seen[w] \in {"done", "dead"}

\* Somebody is left for t: to claim it, to end its attempt, or to report it.
KeptAt(t) ==
    /\ status[t] = "queued" => \E w \in Worker : WillClaim(w, t)
    /\ status[t] = "running" => \E w \in Worker : Holds(w, t)
    /\ status[t] \in {"done", "dead"} =>
          reported[t] # {} \/ \E w \in Worker : WillReport(w, t)

Kept == Alive => \A t \in Task : KeptAt(t)

\* A step that leaves the status of t alone, withdraws no report of it and takes
\* nobody from it keeps t.
LEMMA KeptStill ==
    ASSUME NEW t \in Task, KeptAt(t), status'[t] = status[t], reported[t] \subseteq reported'[t],
           \A v \in Worker :
              /\ status[t] = "queued" /\ WillClaim(v, t) => WillClaim(v, t)'
              /\ status[t] = "running" /\ Holds(v, t) => Holds(v, t)'
              /\ status[t] \in {"done", "dead"} /\ WillReport(v, t) => WillReport(v, t)'
    PROVE  KeptAt(t)'
<1>1. CASE status[t] = "queued"
  <2>1. PICK v \in Worker : WillClaim(v, t)
    BY <1>1 DEF KeptAt
  <2>2. WillClaim(v, t)'
    BY <1>1, <2>1
  <2> QED
    BY <1>1, <2>2 DEF KeptAt
<1>2. CASE status[t] = "running"
  <2>1. PICK v \in Worker : Holds(v, t)
    BY <1>2 DEF KeptAt
  <2>2. Holds(v, t)'
    BY <1>2, <2>1
  <2> QED
    BY <1>2, <2>2 DEF KeptAt
<1>3. CASE status[t] \in {"done", "dead"}
  <2>1. CASE reported[t] # {}
    BY <1>3, <2>1 DEF KeptAt
  <2>2. CASE reported[t] = {}
    <3>1. PICK v \in Worker : WillReport(v, t)
      BY <1>3, <2>2 DEF KeptAt
    <3>2. WillReport(v, t)'
      BY <1>3, <3>1
    <3> QED
      BY <1>3, <3>2 DEF KeptAt
  <2> QED
    BY <2>1, <2>2
<1> QED
  BY <1>1, <1>2, <1>3 DEF KeptAt

\* A worker that died stays dead.
LEMMA AliveBefore == ASSUME Typed, [Next]_vars, Alive' PROVE Alive
<1> USE DEF Typed, Alive, Goto
<1>1. ASSUME NEW w \in Worker, ClaimRow(w) PROVE Alive
  BY <1>1 DEF ClaimRow
<1>2. ASSUME NEW w \in Worker, ClaimNothing(w) PROVE Alive
  BY <1>2 DEF ClaimNothing
<1>3. ASSUME NEW w \in Worker, ClaimScan(w) PROVE Alive
  BY <1>3 DEF ClaimScan
<1>4. ASSUME NEW w \in Worker, ScanTask(w) PROVE Alive
  BY <1>4 DEF ScanTask
<1>5. ASSUME NEW w \in Worker, TakeRunning(w) PROVE Alive
  BY <1>5 DEF TakeRunning
<1>6. ASSUME NEW w \in Worker, TakeLease(w) PROVE Alive
  BY <1>6 DEF TakeLease
<1>7. ASSUME NEW w \in Worker, ReadInFlight(w) PROVE Alive
  BY <1>7 DEF ReadInFlight
<1>8. ASSUME NEW w \in Worker, Begin(w) PROVE Alive
  BY <1>8 DEF Begin
<1>9. ASSUME NEW w \in Worker, RunTask(w) PROVE Alive
  BY <1>9 DEF RunTask
<1>10. ASSUME NEW w \in Worker, RunInWorktree(w) PROVE Alive
  BY <1>10 DEF RunInWorktree
<1>11. ASSUME NEW w \in Worker, MergeBranch(w) PROVE Alive
  BY <1>11, GitSteps
<1>12. ASSUME NEW w \in Worker, Tidy(w) PROVE Alive
  BY <1>12, GitSteps
<1>13. ASSUME NEW w \in Worker, Complete(w) PROVE Alive
  BY <1>13 DEF Complete
<1>14. ASSUME NEW w \in Worker, Fail(w) PROVE Alive
  BY <1>14 DEF Fail, Retry
<1>15. ASSUME NEW w \in Worker, FailLease(w) PROVE Alive
  BY <1>15 DEF FailLease
<1>16. ASSUME NEW w \in Worker, FailHard(w) PROVE Alive
  BY <1>16 DEF FailHard
<1>17. ASSUME NEW w \in Worker, Get(w) PROVE Alive
  BY <1>17 DEF Get
<1>18. ASSUME NEW w \in Worker, Finish(w) PROVE Alive
  BY <1>18 DEF Finish, Outcome
<1>19. ASSUME NEW w \in Worker, Heartbeat(w) PROVE Alive
  BY <1>19 DEF Heartbeat
<1>20. ASSUME NEW w \in Worker, ClaimRaises(w) PROVE Alive
  BY <1>20 DEF ClaimRaises, Fault, Fails, Die
<1>21. ASSUME NEW w \in Worker, CompleteRaises(w) PROVE Alive
  BY <1>21 DEF CompleteRaises, Fault, Fails
<1>22. ASSUME NEW w \in Worker, FailRaises(w) PROVE Alive
  BY <1>22 DEF FailRaises, Fault, Fails, Die
<1>23. ASSUME NEW w \in Worker, HeartbeatRaises(w) PROVE Alive
  BY <1>23 DEF HeartbeatRaises, Fault, Fails
<1>24. ASSUME NEW t \in Task, Lapse(t) PROVE Alive
  BY <1>24 DEF Lapse
<1>25. CASE UNCHANGED vars
  BY <1>25 DEF vars
<1> QED
  BY <1>1, <1>2, <1>3, <1>4, <1>5, <1>6, <1>7, <1>8, <1>9, <1>10, <1>11, <1>12,
     <1>13, <1>14, <1>15, <1>16, <1>17, <1>18, <1>19, <1>20, <1>21, <1>22, <1>23,
     <1>24, <1>25 DEF Next, Step, Raise

\* As long as no worker died, every step keeps every task in somebody's hands.
LEMMA KeptStep ==
    ASSUME Typed, Located, Kept, [Next]_vars
    PROVE  Kept'
<1> SUFFICES ASSUME Alive', NEW t \in Task PROVE KeptAt(t)'
  BY DEF Kept
<1>0. KeptAt(t)
  BY AliveBefore DEF Kept
<1> USE PoolAssumption, <1>0 DEF Typed, Located, Placed, PCs, Flying, Working, Goto, store, repo, Task,
      WillClaim, Holds, WillReport, Executing
<1>1. ASSUME NEW w \in Worker, ClaimRow(w) PROVE KeptAt(t)'
  <2>0. PICK u \in Task : /\ status' = [status EXCEPT ![u] = "running"]
                          /\ job' = [job EXCEPT ![w] = u]
    BY <1>1 DEF ClaimRow
  <2>1. /\ pc[w] = "claim" /\ pc' = [pc EXCEPT ![w] = "begin"]
        /\ UNCHANGED <<cur, seen, reported>>
    BY <1>1 DEF ClaimRow
  <2>2. CASE t = u
    <3>1. status'[t] = "running" /\ Holds(w, t)'
      BY <2>0, <2>1, <2>2
    <3> QED
      BY <3>1 DEF KeptAt
  <2>3. CASE t # u
    BY <2>0, <2>1, <2>3, KeptStill
  <2> QED
    BY <2>2, <2>3
<1>2. ASSUME NEW w \in Worker, ClaimNothing(w) PROVE KeptAt(t)'
  BY <1>2, KeptStill DEF ClaimNothing, Claimable
<1>3. ASSUME NEW w \in Worker, ClaimScan(w) PROVE KeptAt(t)'
  <2>0. pc[w] = "claim" /\ cur[w] = 1
    BY <1>3 DEF ClaimScan
  <2>1. ~(cur[w] > t)
    BY <2>0
  <2> QED
    BY <1>3, <2>0, <2>1, KeptStill DEF ClaimScan
<1>4. ASSUME NEW w \in Worker, ScanTask(w) PROVE KeptAt(t)'
  BY <1>4, KeptStill DEF ScanTask, Claimable
<1>5. ASSUME NEW w \in Worker, TakeRunning(w) PROVE KeptAt(t)'
  <2>1. CASE t = cur[w]
    <3>1. status'[t] = "running" /\ Holds(w, t)'
      BY <1>5, <2>1 DEF TakeRunning
    <3> QED
      BY <3>1, <2>1 DEF KeptAt
  <2>2. CASE t # cur[w]
    BY <1>5, <2>2, KeptStill DEF TakeRunning
  <2> QED
    BY <2>1, <2>2
<1>6. ASSUME NEW w \in Worker, TakeLease(w) PROVE KeptAt(t)'
  BY <1>6, KeptStill DEF TakeLease
<1>7. ASSUME NEW w \in Worker, ReadInFlight(w) PROVE KeptAt(t)'
  BY <1>7, KeptStill DEF ReadInFlight
<1>8. ASSUME NEW w \in Worker, Begin(w) PROVE KeptAt(t)'
  BY <1>8, KeptStill DEF Begin
<1>9. ASSUME NEW w \in Worker, RunTask(w) PROVE KeptAt(t)'
  <2>1. PICK l \in {"complete", "fail", "failhard"} : pc' = [pc EXCEPT ![w] = l]
    BY <1>9 DEF RunTask
  <2>2. pc[w] = "run" /\ UNCHANGED <<status, cur, job, seen, reported>>
    BY <1>9 DEF RunTask
  <2> QED
    BY <2>1, <2>2, KeptStill
<1>10. ASSUME NEW w \in Worker, RunInWorktree(w) PROVE KeptAt(t)'
  <2>1. PICK l \in {"merge", "fail"} : pc' = [pc EXCEPT ![w] = l]
    BY <1>10 DEF RunInWorktree
  <2>2. pc[w] = "run" /\ UNCHANGED <<status, cur, job, seen, reported>>
    BY <1>10 DEF RunInWorktree
  <2> QED
    BY <2>1, <2>2, KeptStill
<1>11. ASSUME NEW w \in Worker, MergeBranch(w) PROVE KeptAt(t)'
  <2>1. PICK l \in {"tidyOk", "tidyHard", "complete", "fail", "failhard"} :
           pc' = [pc EXCEPT ![w] = l]
    BY <1>11, GitSteps
  <2>2. /\ pc[w] \in {"merge", "tidyOk", "tidyHard"}
        /\ UNCHANGED <<status, cur, job>>
    BY <1>11, GitSteps
  <2>3. UNCHANGED <<seen, reported>>
    BY <1>11, GitFrame
  <2> QED
    BY <2>1, <2>2, <2>3, KeptStill
<1>12. ASSUME NEW w \in Worker, Tidy(w) PROVE KeptAt(t)'
  <2>1. PICK l \in {"tidyOk", "tidyHard", "complete", "fail", "failhard"} :
           pc' = [pc EXCEPT ![w] = l]
    BY <1>12, GitSteps
  <2>2. /\ pc[w] \in {"merge", "tidyOk", "tidyHard"}
        /\ UNCHANGED <<status, cur, job>>
    BY <1>12, GitSteps
  <2>3. UNCHANGED <<seen, reported>>
    BY <1>12, GitFrame
  <2> QED
    BY <2>1, <2>2, <2>3, KeptStill
<1>13. ASSUME NEW w \in Worker, Complete(w) PROVE KeptAt(t)'
  <2>1. CASE t = job[w]
    <3>1. status'[t] = "done" /\ WillReport(w, t)'
      BY <1>13, <2>1 DEF Complete
    <3> QED
      BY <3>1, <2>1 DEF KeptAt
  <2>2. CASE t # job[w]
    BY <1>13, <2>2, KeptStill DEF Complete
  <2> QED
    BY <2>1, <2>2
<1>14. ASSUME NEW w \in Worker, Fail(w) PROVE KeptAt(t)'
  <2>1. CASE t = job[w]
    <3>1. /\ status'[t] \in {"queued", "dead"}
          /\ WillClaim(w, t)' /\ WillReport(w, t)'
      BY <1>14, <2>1 DEF Fail, Retry
    <3> QED
      BY <3>1, <2>1 DEF KeptAt
  <2>2. CASE t # job[w]
    BY <1>14, <2>2, KeptStill DEF Fail, Retry
  <2> QED
    BY <2>1, <2>2
<1>15. ASSUME NEW w \in Worker, FailLease(w) PROVE KeptAt(t)'
  BY <1>15, KeptStill DEF FailLease
<1>16. ASSUME NEW w \in Worker, FailHard(w) PROVE KeptAt(t)'
  <2>1. CASE t = job[w]
    <3>1. status'[t] = "dead" /\ WillReport(w, t)'
      BY <1>16, <2>1 DEF FailHard
    <3> QED
      BY <3>1, <2>1 DEF KeptAt
  <2>2. CASE t # job[w]
    BY <1>16, <2>2, KeptStill DEF FailHard
  <2> QED
    BY <2>1, <2>2
<1>17. ASSUME NEW w \in Worker, Get(w) PROVE KeptAt(t)'
  BY <1>17, KeptStill DEF Get
<1>18. ASSUME NEW w \in Worker, Finish(w) PROVE KeptAt(t)'
  <2>1. /\ pc[w] = "finish" /\ pc' = [pc EXCEPT ![w] = "claim"]
        /\ UNCHANGED <<status, cur>>
        /\ \A v \in Worker : v # w => job'[v] = job[v] /\ seen'[v] = seen[v]
    BY <1>18 DEF Finish
  <2>2. reported[t] \subseteq reported'[t]
    BY <1>18 DEF Finish, Outcome
  <2>3. t = job[w] /\ seen[w] \in {"done", "dead"} => reported'[t] # {}
    BY <1>18 DEF Finish, Outcome
  <2>4. \A v \in Worker :
          /\ WillClaim(v, t) => WillClaim(v, t)'
          /\ Holds(v, t) => Holds(v, t)'
    BY <2>1
  <2>5. CASE WillReport(w, t)
    BY <2>1, <2>2, <2>3, <2>4, <2>5 DEF KeptAt
  <2>6. CASE ~WillReport(w, t)
    BY <2>1, <2>2, <2>4, <2>6, KeptStill
  <2> QED
    BY <2>5, <2>6
<1>19. ASSUME NEW w \in Worker, Heartbeat(w) PROVE KeptAt(t)'
  BY <1>19, KeptStill DEF Heartbeat
<1>20. ASSUME NEW w \in Worker, ClaimRaises(w) PROVE KeptAt(t)'
  BY <1>20 DEF ClaimRaises, Die, Alive
<1>21. ASSUME NEW w \in Worker, CompleteRaises(w) PROVE KeptAt(t)'
  <2>0. /\ status' = status \/ status' = [status EXCEPT ![job[w]] = "done"]
        /\ pc[w] = "complete" /\ pc' = [pc EXCEPT ![w] = "fail"]
        /\ UNCHANGED <<cur, job, seen, reported>>
    BY <1>21 DEF CompleteRaises
  <2>1. CASE t = job[w]
    <3>1. Holds(w, t)' /\ WillReport(w, t)'
      BY <2>0, <2>1
    <3>2. status'[t] = status[t] \/ status'[t] = "done"
      BY <2>0, <2>1
    <3>3. status[t] = "queued" => WillClaim(w, t)'
      BY <2>0
    <3> QED
      BY <3>1, <3>2, <3>3 DEF KeptAt
  <2>2. CASE t # job[w]
    BY <2>0, <2>2, KeptStill
  <2> QED
    BY <2>1, <2>2
<1>22. ASSUME NEW w \in Worker, FailRaises(w) PROVE KeptAt(t)'
  BY <1>22 DEF FailRaises, Die, Alive
<1>23. ASSUME NEW w \in Worker, HeartbeatRaises(w) PROVE KeptAt(t)'
  BY <1>23, KeptStill DEF HeartbeatRaises, Fault, Fails
<1>24. ASSUME NEW u \in Task, Lapse(u) PROVE KeptAt(t)'
  <2>1. UNCHANGED <<status, pc, cur, job, seen, reported>>
    BY <1>24 DEF Lapse
  <2> QED
    BY <2>1, KeptStill
<1>25. CASE UNCHANGED vars
  BY <1>25, KeptStill DEF vars
<1> QED
  BY <1>1, <1>2, <1>3, <1>4, <1>5, <1>6, <1>7, <1>8, <1>9, <1>10, <1>11, <1>12,
     <1>13, <1>14, <1>15, <1>16, <1>17, <1>18, <1>19, <1>20, <1>21, <1>22, <1>23,
     <1>24, <1>25 DEF Next, Step, Raise

\* Initially every worker is about to claim.
LEMMA KeptInit == Init => Kept
  BY PoolAssumption DEF Init, Kept, KeptAt, WillClaim, Task

\* For every store, every number of workers, tasks and attempts, and every error
\* the pool survives: when the last worker has returned, no task is queued or
\* running and every task is in the report (run_worker_pool, "the store is
\* drained"; run_inprocess_build_tasks, "never a silent drop").
THEOREM NothingDropped == Spec => []NeverDropped
<1> DEFINE Inv == Typed /\ Located /\ Kept
<1>1. Init => Inv
  BY TypesInit, KeptInit
<1>2. Inv /\ [Next]_vars => Inv'
  BY TypedStep, LocatedStep, KeptStep
<1>3. Inv => NeverDropped
  BY DEF Typed, Kept, KeptAt, Alive, WillClaim, Holds, WillReport, Executing,
     NeverDropped, Returned
<1> QED
  BY <1>1, <1>2, <1>3, PTL DEF Spec

-----------------------------------------------------------------------------
(* The report of a pool without errors agrees with the store and with git  *)

\* What is reported of a task is what the store has for it, and so is what a
\* worker is about to report.
Agreed ==
    /\ \A t \in Task :
         reported[t] # {} => reported[t] = {status[t]} /\ status[t] \in {"done", "dead"}
    /\ \A w \in Worker :
         pc[w] = "finish" /\ seen[w] \in {"done", "dead"} => status[job[w]] = seen[w]

\* In an isolated pool a task has a merge commit if and only if it is done, or
\* its worker is on the way from the merge to the completion.
Merging(w, t) == pc[w] \in {"tidyOk", "complete"} /\ job[w] = t
MergeKnown ==
    isolated => \A t \in Task :
        t \in merged <=> (status[t] = "done" \/ \E w \in Worker : Merging(w, t))

\* Without errors of git a merge is committed or dead-letters the task, and the
\* worktree is removed.
LEMMA CleanMerge ==
    ASSUME Typed, Clean, Clean', NEW w \in Worker, MergeBranch(w)
    PROVE  \/ merged' = merged \cup {job[w]} /\ pc' = [pc EXCEPT ![w] = "tidyOk"]
           \/ merged' = merged /\ pc' = [pc EXCEPT ![w] = "tidyHard"]
<1>1. faults' # faults + 1
  BY DEF Clean
<1> QED
  BY <1>1, Zenon DEF MergeBranch, Fails, Goto

\* A worker whose merge was committed goes on to complete its task.
LEMMA CleanTidy ==
    ASSUME Typed, Clean, Clean', NEW w \in Worker, Tidy(w)
    PROVE  /\ \/ pc[w] = "tidyOk" /\ pc' = [pc EXCEPT ![w] = "complete"]
              \/ pc[w] = "tidyHard" /\ pc' = [pc EXCEPT ![w] = "failhard"]
           /\ merged' = merged
<1>1. faults' # faults + 1
  BY DEF Clean
<1> QED
  BY <1>1, Zenon DEF Tidy, Fails, Goto, repo

\* The steps an in-memory store or an error takes do not happen.
LEMMA CleanOnly ==
    ASSUME Typed, Exclusive, Clean, Clean', NEW w \in Worker
    PROVE  /\ ~ClaimScan(w) /\ ~ScanTask(w) /\ ~TakeRunning(w) /\ ~TakeLease(w)
           /\ ~FailLease(w) /\ ~Raise(w)
<1>1. pc[w] \notin InMemoryPC /\ db # "memory"
  BY DEF Exclusive, Clean
<1>2. ~ClaimScan(w) /\ ~ScanTask(w) /\ ~TakeRunning(w) /\ ~TakeLease(w) /\ ~FailLease(w)
  BY <1>1 DEF ClaimScan, ScanTask, TakeRunning, TakeLease, FailLease, InMemoryPC
<1>3. faults' # faults + 1
  BY DEF Clean
<1>4. ~Raise(w)
  BY <1>3, Zenon DEF Raise, ClaimRaises, CompleteRaises, FailRaises,
     HeartbeatRaises, Fault, Fails
<1> QED
  BY <1>2, <1>4

\* While no call has raised: a final status is never touched again, since who
\* completes or fails a task owns a running row of it.
LEMMA AgreedStep ==
    ASSUME Typed, Located, Exclusive, Agreed, [Next]_vars, Clean, Clean'
    PROVE  Agreed'
<1> USE DEF Typed, Located, Placed, PCs, Flying, Working, Goto, store, repo, Agreed
<1>1. ASSUME NEW w \in Worker, ClaimRow(w) PROVE Agreed'
  <2>1. PICK u \in Task : /\ Claimable(u)
                          /\ status' = [status EXCEPT ![u] = "running"]
                          /\ job' = [job EXCEPT ![w] = u]
    BY <1>1 DEF ClaimRow, NextRow
  <2>2. pc' = [pc EXCEPT ![w] = "begin"] /\ UNCHANGED <<seen, reported>>
    BY <1>1 DEF ClaimRow
  <2>3. status[u] \notin {"done", "dead"}
    BY <2>1 DEF Claimable
  <2> QED
    BY <2>1, <2>2, <2>3
<1>2. ASSUME NEW w \in Worker, ClaimNothing(w) PROVE Agreed'
  BY <1>2 DEF ClaimNothing
<1>3. ASSUME NEW w \in Worker, ReadInFlight(w) PROVE Agreed'
  BY <1>3 DEF ReadInFlight
<1>4. ASSUME NEW w \in Worker, Begin(w) PROVE Agreed'
  BY <1>4 DEF Begin
<1>5. ASSUME NEW w \in Worker, RunTask(w) PROVE Agreed'
  BY <1>5 DEF RunTask
<1>6. ASSUME NEW w \in Worker, RunInWorktree(w) PROVE Agreed'
  BY <1>6 DEF RunInWorktree
<1>7. ASSUME NEW w \in Worker, MergeBranch(w) PROVE Agreed'
  <2>1. UNCHANGED <<status, job, seen, reported>>
    BY <1>7, GitSteps, GitFrame
  <2>2. pc'[w] # "finish" /\ \A v \in Worker : v # w => pc'[v] = pc[v]
    BY <1>7, GitSteps
  <2> QED
    BY <2>1, <2>2
<1>8. ASSUME NEW w \in Worker, Tidy(w) PROVE Agreed'
  <2>1. UNCHANGED <<status, job, seen, reported>>
    BY <1>8, GitSteps, GitFrame
  <2>2. pc'[w] # "finish" /\ \A v \in Worker : v # w => pc'[v] = pc[v]
    BY <1>8, GitSteps
  <2> QED
    BY <2>1, <2>2
<1>9. ASSUME NEW w \in Worker, Complete(w) PROVE Agreed'
  <2>1. job[w] \in Task /\ status[job[w]] = "running"
    BY <1>9 DEF Complete, Exclusive, Owns, Executing
  <2>2. /\ pc[w] # "finish" /\ UNCHANGED <<job, reported>>
        /\ status' = [status EXCEPT ![job[w]] = "done"]
    BY <1>9 DEF Complete
  <2>3. \A v \in Worker : v # w => pc'[v] = pc[v] /\ seen'[v] = seen[v]
    BY <1>9 DEF Complete
  <2>4. pc'[w] = "finish" /\ seen'[w] \in {"done", "dead"} => status'[job[w]] = seen'[w]
    BY <1>9, <2>1 DEF Complete
  <2>5. \A t \in Task : reported[t] # {} => t # job[w]
    BY <2>1
  <2>6. \A v \in Worker :
          pc[v] = "finish" /\ seen[v] \in {"done", "dead"} => job[v] # job[w]
    BY <2>1
  <2> QED
    BY <2>1, <2>2, <2>3, <2>4, <2>5, <2>6
<1>10. ASSUME NEW w \in Worker, Fail(w) PROVE Agreed'
  <2>1. job[w] \in Task /\ status[job[w]] = "running"
    BY <1>10 DEF Fail, Exclusive, Owns, Executing
  <2>2. /\ pc[w] # "finish" /\ UNCHANGED <<job, reported>>
        /\ status' = [status EXCEPT ![job[w]] = IF Retry(job[w]) THEN "queued" ELSE "dead"]
    BY <1>10 DEF Fail
  <2>3. \A v \in Worker : v # w => pc'[v] = pc[v] /\ seen'[v] = seen[v]
    BY <1>10 DEF Fail
  <2>4. pc'[w] = "finish" /\ seen'[w] \in {"done", "dead"} => status'[job[w]] = seen'[w]
    BY <1>10, <2>1 DEF Fail
  <2>5. \A t \in Task : reported[t] # {} => t # job[w]
    BY <2>1
  <2>6. \A v \in Worker :
          pc[v] = "finish" /\ seen[v] \in {"done", "dead"} => job[v] # job[w]
    BY <2>1
  <2> QED
    BY <2>1, <2>2, <2>3, <2>4, <2>5, <2>6
<1>11. ASSUME NEW w \in Worker, FailHard(w) PROVE Agreed'
  <2>1. job[w] \in Task /\ status[job[w]] = "running"
    BY <1>11 DEF FailHard, Exclusive, Owns, Executing
  <2>2. /\ pc[w] # "finish" /\ UNCHANGED <<job, reported>>
        /\ status' = [status EXCEPT ![job[w]] = "dead"]
    BY <1>11 DEF FailHard
  <2>3. \A v \in Worker : v # w => pc'[v] = pc[v] /\ seen'[v] = seen[v]
    BY <1>11 DEF FailHard
  <2>4. pc'[w] = "finish" /\ seen'[w] \in {"done", "dead"} => status'[job[w]] = seen'[w]
    BY <1>11, <2>1 DEF FailHard
  <2>5. \A t \in Task : reported[t] # {} => t # job[w]
    BY <2>1
  <2>6. \A v \in Worker :
          pc[v] = "finish" /\ seen[v] \in {"done", "dead"} => job[v] # job[w]
    BY <2>1
  <2> QED
    BY <2>1, <2>2, <2>3, <2>4, <2>5, <2>6
<1>12. ASSUME NEW w \in Worker, Get(w) PROVE Agreed'
  BY <1>12 DEF Get
<1>13. ASSUME NEW w \in Worker, Finish(w) PROVE Agreed'
  <2>1. /\ pc[w] = "finish" /\ pc' = [pc EXCEPT ![w] = "claim"] /\ status' = status
        /\ \A v \in Worker : v # w => job'[v] = job[v] /\ seen'[v] = seen[v]
    BY <1>13 DEF Finish
  <2>2. CASE seen[w] \in {"done", "dead"}
    <3>1. reported' = [reported EXCEPT ![job[w]] = @ \cup {seen[w]}]
      BY <1>13, <2>2 DEF Finish, Outcome
    <3>2. job[w] \in Task /\ status[job[w]] = seen[w]
      BY <2>1, <2>2
    <3>3. reported'[job[w]] = {seen[w]}
      BY <3>1, <3>2
    <3>4. \A t \in Task : t # job[w] => reported'[t] = reported[t]
      BY <3>1
    <3> QED
      BY <2>1, <2>2, <3>2, <3>3, <3>4
  <2>3. CASE seen[w] \notin {"done", "dead"}
    BY <1>13, <2>1, <2>3 DEF Finish, Outcome
  <2> QED
    BY <2>2, <2>3
<1>14. ASSUME NEW w \in Worker, Heartbeat(w) PROVE Agreed'
  BY <1>14 DEF Heartbeat
<1>15. ASSUME NEW u \in Task, Lapse(u) PROVE Agreed'
  BY <1>15 DEF Lapse
<1>16. CASE UNCHANGED vars
  BY <1>16 DEF vars
<1> QED
  BY <1>1, <1>2, <1>3, <1>4, <1>5, <1>6, <1>7, <1>8, <1>9, <1>10, <1>11, <1>12,
     <1>13, <1>14, <1>15, <1>16, CleanOnly DEF Next, Step

\* While no call has raised, the merge commits follow the completions.
LEMMA MergeKnownStep ==
    ASSUME Typed, Located, Exclusive, MergeKnown, [Next]_vars, Clean, Clean'
    PROVE  MergeKnown'
<1> USE DEF Typed, Located, Placed, PCs, Flying, Working, Goto, store, repo, MergeKnown, Merging
<1>1. ASSUME NEW w \in Worker, ClaimRow(w) PROVE MergeKnown'
  <2>1. PICK u \in Task : /\ Claimable(u)
                          /\ status' = [status EXCEPT ![u] = "running"]
                          /\ job' = [job EXCEPT ![w] = u]
    BY <1>1 DEF ClaimRow, NextRow
  <2>2. /\ pc[w] = "claim" /\ pc' = [pc EXCEPT ![w] = "begin"]
        /\ UNCHANGED <<merged, isolated>>
    BY <1>1 DEF ClaimRow
  <2>3. status[u] # "done"
    BY <2>1 DEF Claimable
  <2>4. \A t \in Task : \A v \in Worker : Merging(v, t)' <=> Merging(v, t)
    BY <2>1, <2>2
  <2>5. \A t \in Task : status'[t] = "done" <=> status[t] = "done"
    BY <2>1, <2>3
  <2> QED
    BY <2>2, <2>4, <2>5
<1>2. ASSUME NEW w \in Worker, ClaimNothing(w) PROVE MergeKnown'
  <2>1. UNCHANGED <<status, merged, isolated>>
    BY <1>2 DEF ClaimNothing
  <2>2. \A t \in Task : \A v \in Worker : Merging(v, t)' <=> Merging(v, t)
    BY <1>2 DEF ClaimNothing
  <2> QED
    BY <2>1, <2>2
<1>3. ASSUME NEW w \in Worker, ReadInFlight(w) PROVE MergeKnown'
  <2>1. UNCHANGED <<status, merged, isolated>>
    BY <1>3 DEF ReadInFlight
  <2>2. \A t \in Task : \A v \in Worker : Merging(v, t)' <=> Merging(v, t)
    BY <1>3 DEF ReadInFlight
  <2> QED
    BY <2>1, <2>2
<1>4. ASSUME NEW w \in Worker, Begin(w) PROVE MergeKnown'
  <2>1. UNCHANGED <<status, merged, isolated>>
    BY <1>4 DEF Begin
  <2>2. \A t \in Task : \A v \in Worker : Merging(v, t)' <=> Merging(v, t)
    BY <1>4 DEF Begin
  <2> QED
    BY <2>1, <2>2
<1>5. ASSUME NEW w \in Worker, RunTask(w) PROVE MergeKnown'
  BY <1>5 DEF RunTask
<1>6. ASSUME NEW w \in Worker, RunInWorktree(w) PROVE MergeKnown'
  <2>1. UNCHANGED <<status, merged, isolated>>
    BY <1>6 DEF RunInWorktree
  <2>2. \A t \in Task : \A v \in Worker : Merging(v, t)' <=> Merging(v, t)
    BY <1>6 DEF RunInWorktree
  <2> QED
    BY <2>1, <2>2
<1>7. ASSUME NEW w \in Worker, MergeBranch(w) PROVE MergeKnown'
  <2>1. UNCHANGED <<status, job, isolated>> /\ pc[w] = "merge"
    BY <1>7, GitSteps, GitFrame DEF MergeBranch
  <2>2. job[w] \in Task
    BY <2>1
  <2>3. CASE merged' = merged \cup {job[w]} /\ pc' = [pc EXCEPT ![w] = "tidyOk"]
    <3>1. \A t \in Task : \A v \in Worker : Merging(v, t)' <=> Merging(v, t) \/ (v = w /\ t = job[w])
      BY <2>1, <2>3
    <3> QED
      BY <2>1, <2>2, <2>3, <3>1
  <2>4. CASE merged' = merged /\ pc' = [pc EXCEPT ![w] = "tidyHard"]
    <3>1. \A t \in Task : \A v \in Worker : Merging(v, t)' <=> Merging(v, t)
      BY <2>1, <2>4
    <3> QED
      BY <2>1, <2>4, <3>1
  <2> QED
    BY <1>7, <2>3, <2>4, CleanMerge
<1>8. ASSUME NEW w \in Worker, Tidy(w) PROVE MergeKnown'
  <2>1. UNCHANGED <<status, job, isolated, merged>>
    BY <1>8, GitSteps, GitFrame, CleanTidy
  <2>2. \A t \in Task : \A v \in Worker : Merging(v, t)' <=> Merging(v, t)
    BY <1>8, <2>1, CleanTidy
  <2> QED
    BY <2>1, <2>2
<1>9. ASSUME NEW w \in Worker, Complete(w) PROVE MergeKnown'
  <2>1. /\ pc[w] = "complete" /\ pc' = [pc EXCEPT ![w] = "finish"]
        /\ status' = [status EXCEPT ![job[w]] = "done"]
        /\ UNCHANGED <<job, merged, isolated>>
    BY <1>9 DEF Complete
  <2>2. job[w] \in Task /\ status'[job[w]] = "done" /\ Merging(w, job[w])
    BY <2>1
  <2>3. \A t \in Task : t # job[w] => status'[t] = status[t]
    BY <2>1
  <2>4. \A t \in Task : \A v \in Worker : t # job[w] => (Merging(v, t)' <=> Merging(v, t))
    BY <2>1
  <2>5. ASSUME isolated, NEW t \in Task
        PROVE  t \in merged <=> (status'[t] = "done" \/ \E v \in Worker : Merging(v, t)')
    <3>1. CASE t = job[w]
      BY <2>2, <2>5, <3>1
    <3>2. CASE t # job[w]
      BY <2>3, <2>4, <2>5, <3>2
    <3> QED
      BY <3>1, <3>2
  <2> QED
    BY <2>1, <2>5
<1>10. ASSUME NEW w \in Worker, Fail(w) PROVE MergeKnown'
  <2>1. /\ UNCHANGED <<job, merged, isolated>> /\ pc[w] \in {"fail", "failhard"}
        /\ status' = [status EXCEPT ![job[w]] = IF Retry(job[w]) THEN "queued" ELSE "dead"]
        /\ pc'[w] \notin {"tidyOk", "complete"} /\ \A v \in Worker : v # w => pc'[v] = pc[v]
    BY <1>10 DEF Fail
  <2>2. job[w] \in Task /\ status[job[w]] = "running"
    BY <2>1 DEF Exclusive, Owns, Executing
  <2>3. \A t \in Task : status'[t] = "done" <=> status[t] = "done"
    BY <2>1, <2>2
  <2>4. \A t \in Task : \A v \in Worker : Merging(v, t)' <=> Merging(v, t)
    BY <2>1
  <2> QED
    BY <2>1, <2>3, <2>4
<1>11. ASSUME NEW w \in Worker, FailHard(w) PROVE MergeKnown'
  <2>1. /\ UNCHANGED <<job, merged, isolated>> /\ pc[w] \in {"fail", "failhard"}
        /\ status' = [status EXCEPT ![job[w]] = "dead"]
        /\ pc'[w] \notin {"tidyOk", "complete"} /\ \A v \in Worker : v # w => pc'[v] = pc[v]
    BY <1>11 DEF FailHard
  <2>2. job[w] \in Task /\ status[job[w]] = "running"
    BY <2>1 DEF Exclusive, Owns, Executing
  <2>3. \A t \in Task : status'[t] = "done" <=> status[t] = "done"
    BY <2>1, <2>2
  <2>4. \A t \in Task : \A v \in Worker : Merging(v, t)' <=> Merging(v, t)
    BY <2>1
  <2> QED
    BY <2>1, <2>3, <2>4
<1>12. ASSUME NEW w \in Worker, Get(w) PROVE MergeKnown'
  <2>1. UNCHANGED <<status, merged, isolated>>
    BY <1>12 DEF Get
  <2>2. \A t \in Task : \A v \in Worker : Merging(v, t)' <=> Merging(v, t)
    BY <1>12 DEF Get
  <2> QED
    BY <2>1, <2>2
<1>13. ASSUME NEW w \in Worker, Finish(w) PROVE MergeKnown'
  <2>1. UNCHANGED <<status, merged, isolated>>
    BY <1>13 DEF Finish
  <2>2. \A t \in Task : \A v \in Worker : Merging(v, t)' <=> Merging(v, t)
    BY <1>13 DEF Finish
  <2> QED
    BY <2>1, <2>2
<1>14. ASSUME NEW w \in Worker, Heartbeat(w) PROVE MergeKnown'
  <2>1. UNCHANGED <<status, merged, isolated>>
    BY <1>14 DEF Heartbeat
  <2>2. \A t \in Task : \A v \in Worker : Merging(v, t)' <=> Merging(v, t)
    BY <1>14 DEF Heartbeat
  <2> QED
    BY <2>1, <2>2
<1>15. ASSUME NEW u \in Task, Lapse(u) PROVE MergeKnown'
  <2>1. UNCHANGED <<status, merged, isolated>>
    BY <1>15 DEF Lapse
  <2>2. \A t \in Task : \A v \in Worker : Merging(v, t)' <=> Merging(v, t)
    BY <1>15 DEF Lapse
  <2> QED
    BY <2>1, <2>2
<1>16. CASE UNCHANGED vars
  BY <1>16 DEF vars
<1> QED
  BY <1>1, <1>2, <1>3, <1>4, <1>5, <1>6, <1>7, <1>8, <1>9, <1>10, <1>11, <1>12,
     <1>13, <1>14, <1>15, <1>16, CleanOnly DEF Next, Step

\* What the pool keeps: the types, exclusive claims, no task dropped, and, as
\* long as no call raised, a true report and true merges.
PoolInv ==
    /\ Typed /\ Located /\ Kept
    /\ Clean => Exclusive /\ Agreed /\ MergeKnown

\* It holds before the workers start.
LEMMA PoolInvInit == Init => PoolInv
<1> SUFFICES ASSUME Init PROVE PoolInv
  OBVIOUS
<1>1. Typed /\ Located /\ Kept
  BY TypesInit, KeptInit
<1>2. Exclusive
  BY DEF Init, Exclusive, NoDoubleClaim, Owns, Executing, InMemoryPC
<1>3. Agreed
  BY DEF Init, Agreed
<1>4. MergeKnown
  BY DEF Init, MergeKnown, Merging
<1> QED
  BY <1>1, <1>2, <1>3, <1>4 DEF PoolInv

\* Every step of every worker, heartbeat and lease keeps it.
LEMMA PoolInvStep == PoolInv /\ [Next]_vars => PoolInv'
<1> SUFFICES ASSUME PoolInv, [Next]_vars PROVE PoolInv'
  OBVIOUS
<1>1. Typed' /\ Located' /\ Kept'
  BY TypedStep, LocatedStep, KeptStep DEF PoolInv
<1>2. ASSUME Clean' PROVE Exclusive' /\ Agreed' /\ MergeKnown'
  <2>1. Clean
    BY <1>2, CleanBefore DEF PoolInv
  <2> QED
    BY <1>2, <2>1, CleanStep, AgreedStep, MergeKnownStep DEF PoolInv
<1> QED
  BY <1>1, <1>2 DEF PoolInv

\* For every number of workers, tasks and attempts: a pool without errors reports
\* of every task exactly what the store has for it, although a worker reads the
\* status back after its failure (run_worker_pool).
THEOREM ReportIsTrue == Spec => []ReportAgrees
<1>1. PoolInv => ReportAgrees
  <2> SUFFICES ASSUME PoolInv, Clean, Returned, NEW t \in Task PROVE reported[t] = {status[t]}
    BY DEF ReportAgrees
  <2>1. reported[t] # {}
    BY DEF PoolInv, Typed, Kept, KeptAt, Alive, WillClaim, Holds, WillReport,
       Executing, Returned
  <2> QED
    BY <2>1 DEF PoolInv, Agreed
<1> QED
  BY <1>1, PoolInvInit, PoolInvStep, PTL DEF Spec

\* For every number of workers, tasks and attempts: when an isolated pool without
\* errors has returned, the tasks it reports as done are exactly those with a
\* merge commit on the base branch (run_isolated_build_tasks).
THEOREM MergesAreReported == Spec => []MergedAreDone
<1>1. PoolInv => MergedAreDone
  <2> SUFFICES ASSUME PoolInv, isolated, Clean, Returned
      PROVE  merged = {t \in Task : "done" \in reported[t]}
    BY DEF MergedAreDone
  <2>1. ASSUME NEW t \in Task PROVE t \in merged <=> status[t] = "done"
    BY DEF PoolInv, MergeKnown, Merging, Returned
  <2>2. ASSUME NEW t \in Task PROVE reported[t] = {status[t]}
    <3>1. reported[t] # {}
      BY DEF PoolInv, Typed, Kept, KeptAt, Alive, WillClaim, Holds, WillReport,
         Executing, Returned
    <3> QED
      BY <3>1 DEF PoolInv, Agreed
  <2>3. merged \subseteq Task
    BY DEF PoolInv, Located
  <2> QED
    BY <2>1, <2>2, <2>3
<1> QED
  BY <1>1, PoolInvInit, PoolInvStep, PTL DEF Spec
=============================================================================
