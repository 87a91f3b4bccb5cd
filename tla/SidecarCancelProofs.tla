------------------------ MODULE SidecarCancelProofs ------------------------
(***************************************************************************)
(* Why a cancel that reached a registered worker is not lost, whatever the *)
(* two threads do: the inductive invariant of SidecarCancel, and what      *)
(* follows from it.  The module has no constants, so TLC explores it       *)
(* completely; the proof adds the argument.                                *)
(***************************************************************************)
EXTENDS SidecarCancel, TLAPS

\* A registered worker is inside apply_verdict or start; every way out of them passes
\* the statement that takes it off the register.
Registered ==
    /\ working => /\ cmd \in {"deliver", "verdict"}
                  /\ wpc \in {"start", "gate", "boundary", "sign", "finalize", "push", "leave"}
    /\ wpc = "enrol" => cmd \in {"deliver", "verdict"}
    /\ wpc \in {"boundary", "sign"} => cmd = "verdict"
    /\ wpc \in {"status", "resumed"} => cmd = "resume"

\* The reader carries a cancel out itself only after it withdrew its last answer.
Withdrawn == rpc \in {"status", "persist", "release", "evict", "unmark"} => answer = "none"

\* What the handler has in memory is what is on disk, or the disk holds nothing that
\* could go on; but for the reader between its two assignments.
Mirrored ==
    active \/ wpc # "idle" => disk = mem \/ Settled \/ (rpc = "persist" /\ Shared)

\* agent_deliver writes no checkpoint before its gate ends.
FirstGate ==
    cmd = "deliver" /\ wpc \in {"enrol", "start", "gate"} =>
        /\ Settled
        /\ rpc = "persist" /\ Shared => mem = "cancelled"

\* A worker that was told has the flag, and the marker as soon as it is written; or
\* its run is over, and any other request works on a new object.
Told ==
    /\ ref = "told" => cmd # "resume" /\ rpc # "publish"
    /\ rpc \in {"mark", "judge"} /\ ref = "told" =>
          \/ flag /\ wpc # "clear" /\ (rpc = "judge" => marker)
          \/ ~active /\ ~working /\ wpc \in {"clear", "idle"}

\* Where a request may be that found a run that is over.
Over ==
    /\ Settled /\ ~active
    /\ \/ wpc \in {"idle", "clear", "tail"}
       \/ wpc \in {"status", "finalize", "push"} /\ cmd = "resume"

\* A cancel that was left to a worker has its marker until the run is over.
Remembered ==
    /\ rpc = "judge" \/ answer = "worker" => disk # "none"
    /\ answer = "worker" => marker \/ Over
    /\ answer = "worker" /\ wpc = "clear" => Settled /\ ~active

\* A request that began after the worker was told does not get to a gate.
Harmless ==
    /\ late => \/ cmd = "verdict" /\ wpc \in {"tail", "clear", "idle"}
               \/ cmd = "reopen" /\ wpc \in {"relock", "reset", "reopened", "idle"}
               \/ /\ cmd = "resume"
                  /\ wpc \in {"finalize", "push", "status", "tail", "clear", "idle"}
                  /\ wpc \in {"finalize", "push", "status"} => mem \in Terminal
    /\ answer = "worker" /\ cmd \in {"reopen", "resume"} => late

\* All of it; it is inductive.
CancelInv ==
    TypeOK /\ Registered /\ Withdrawn /\ Mirrored /\ FirstGate /\ Told /\ Remembered /\ Harmless

-----------------------------------------------------------------------------
(* One step                                                                *)

\* The Boolean variables.
Flags ==
    /\ active \in BOOLEAN /\ working \in BOOLEAN /\ flag \in BOOLEAN
    /\ marker \in BOOLEAN /\ late \in BOOLEAN

\* Every statement of either thread leaves them Boolean.
LEMMA FlagStep == ASSUME Flags, [Next]_vars PROVE Flags'
<1> USE DEF Flags, registry, intent, Begin
<1>1. CASE Deliver
  BY <1>1, Zenon DEF Deliver
<1>2. CASE Verdict
  BY <1>2, Zenon DEF Verdict
<1>3. CASE Reopen
  BY <1>3, Zenon DEF Reopen
<1>4. CASE ResumeCancelled
  BY <1>4, Zenon DEF ResumeCancelled
<1>5. CASE Resume
  BY <1>5, Zenon DEF Resume
<1>6. CASE Enrol
  BY <1>6, Zenon DEF Enrol
<1>7. CASE StartLock
  BY <1>7, Zenon DEF StartLock
<1>8. CASE GateCancelled
  BY <1>8, Zenon DEF GateCancelled
<1>9. CASE GateEnds
  BY <1>9, Zenon DEF GateEnds
<1>10. CASE GateRaises
  BY <1>10, Zenon DEF GateRaises
<1>11. CASE Leave
  BY <1>11, Zenon DEF Leave
<1>12. CASE Recheck
  BY <1>12, Zenon DEF Recheck
<1>13. CASE Tail
  BY <1>13, Zenon DEF Tail
<1>14. CASE Clear
  BY <1>14, Zenon DEF Clear
<1>15. CASE Boundary
  BY <1>15, Zenon DEF Boundary
<1>16. CASE Sign
  BY <1>16, Zenon DEF Sign
<1>17. CASE Finalize
  BY <1>17, Zenon DEF Finalize
<1>18. CASE Push
  BY <1>18, Zenon DEF Push
<1>19. CASE Relock
  BY <1>19, Zenon DEF Relock
<1>20. CASE Reset
  BY <1>20, Zenon DEF Reset
<1>21. CASE Reopened
  BY <1>21, Zenon DEF Reopened
<1>22. CASE ResumeStatus
  BY <1>22, Zenon DEF ResumeStatus
<1>23. CASE Resumed
  BY <1>23, Zenon DEF Resumed
<1>24. CASE CancelBegin
  BY <1>24, Zenon DEF CancelBegin
<1>25. CASE CancelFlag
  BY <1>25, Zenon DEF CancelFlag
<1>26. CASE CancelMark
  BY <1>26, Zenon DEF CancelMark
<1>27. CASE CancelJudge
  BY <1>27, Zenon DEF CancelJudge
<1>28. CASE CancelStatus
  BY <1>28, Zenon DEF CancelStatus
<1>29. CASE CancelPersist
  BY <1>29, Zenon DEF CancelPersist
<1>30. CASE CancelRelease
  BY <1>30, Zenon DEF CancelRelease
<1>31. CASE CancelEvict
  BY <1>31, Zenon DEF CancelEvict
<1>32. CASE CancelUnmark
  BY <1>32, Zenon DEF CancelUnmark
<1>33. CASE Rival
  BY <1>33, Zenon DEF Rival
<1>34. CASE Restart
  BY <1>34, Zenon DEF Restart
<1>35. CASE UNCHANGED vars
  BY <1>35, Zenon DEF vars
<1> QED
  BY <1>1, <1>2, <1>3, <1>4, <1>5, <1>6, <1>7, <1>8, <1>9, <1>10, <1>11, <1>12, <1>13,
     <1>14, <1>15, <1>16, <1>17, <1>18, <1>19, <1>20, <1>21, <1>22, <1>23, <1>24, <1>25,
     <1>26, <1>27, <1>28, <1>29, <1>30, <1>31, <1>32, <1>33, <1>34, <1>35 DEF Next,
     Request, WorkerStep, ReaderStep

\* No statement of either thread, no rival and no restart breaks the invariant.
LEMMA CancelStep == ASSUME CancelInv, [Next]_vars PROVE CancelInv'
<1>f. Flags'
  BY FlagStep DEF CancelInv, TypeOK, Flags
<1> USE <1>f DEF CancelInv, Flags, TypeOK, Registered, Withdrawn, Mirrored, FirstGate, Told,
      Remembered, Harmless, Over, Settled, Shared, Terminal, ReopenSafe, Status,
      delivery, registry, intent, reader
<1>1. CASE Deliver
  BY <1>1 DEF Deliver, Begin, NewObject
<1>2. CASE Verdict
  BY <1>2 DEF Verdict, Begin, Requested, Terminalize, Checkpoint, Released
<1>3. CASE Reopen
  BY <1>3 DEF Reopen, Begin, NewObject
<1>4. CASE ResumeCancelled
  BY <1>4 DEF ResumeCancelled, Begin, NewObject, Requested, Terminalize, Checkpoint, Released
<1>5. CASE Resume
  <2>1. TypeOK' /\ Registered' /\ Withdrawn' /\ Mirrored'
    BY <1>5 DEF Resume, Begin, NewObject, Requested
  <2>2. FirstGate' /\ Told' /\ Remembered' /\ Harmless'
    BY <1>5 DEF Resume, Begin, NewObject, Requested
  <2> QED
    BY <2>1, <2>2
<1>6. CASE Enrol
  BY <1>6 DEF Enrol
<1>7. CASE StartLock
  BY <1>7 DEF StartLock, AfterRun, Dir
<1>8. CASE GateCancelled
  BY <1>8 DEF GateCancelled, AfterRun, Requested, Terminalize, Checkpoint, Released
<1>9. CASE GateEnds
  BY <1>9 DEF GateEnds, AfterRun, Checkpoint
<1>10. CASE GateRaises
  BY <1>10 DEF GateRaises, Released
<1>11. CASE Leave
  BY <1>11 DEF Leave
<1>12. CASE Recheck
  BY <1>12 DEF Recheck, Requested, Terminalize, Checkpoint, Released
<1>13. CASE Tail
  BY <1>13 DEF Tail
<1>14. CASE Clear
  BY <1>14 DEF Clear
<1>15. CASE Boundary
  BY <1>15 DEF Boundary, Requested, Terminalize, Checkpoint, Released
<1>16. CASE Sign
  BY <1>16 DEF Sign, Requested, Terminalize, Checkpoint, Released
<1>17. CASE Finalize
  BY <1>17 DEF Finalize, AfterRelease, Requested, Terminalize, Checkpoint, Released
<1>18. CASE Push
  BY <1>18 DEF Push, AfterRelease, Requested, Checkpoint, Released
<1>19. CASE Relock
  BY <1>19 DEF Relock
<1>20. CASE Reset
  BY <1>20 DEF Reset, Checkpoint
<1>21. CASE Reopened
  BY <1>21 DEF Reopened, Released
<1>22. CASE ResumeStatus
  BY <1>22 DEF ResumeStatus
<1>23. CASE Resumed
  BY <1>23 DEF Resumed
<1>24. CASE CancelBegin
  BY <1>24 DEF CancelBegin
<1>25. CASE CancelFlag
  BY <1>25 DEF CancelFlag
<1>26. CASE CancelMark
  BY <1>26 DEF CancelMark, Dir
<1>27. CASE CancelJudge
  BY <1>27 DEF CancelJudge
<1>28. CASE CancelStatus
  BY <1>28 DEF CancelStatus
<1>29. CASE CancelPersist
  BY <1>29 DEF CancelPersist
<1>30. CASE CancelRelease
  BY <1>30 DEF CancelRelease, Released
<1>31. CASE CancelEvict
  BY <1>31 DEF CancelEvict
<1>32. CASE CancelUnmark
  BY <1>32 DEF CancelUnmark
<1>33. CASE Rival
  BY <1>33 DEF Rival
<1>34. CASE Restart
  BY <1>34 DEF Restart
<1>35. CASE UNCHANGED vars
  BY <1>35 DEF vars
<1> HIDE DEF CancelInv
<1> QED
  BY <1>1, <1>2, <1>3, <1>4, <1>5, <1>6, <1>7, <1>8, <1>9, <1>10, <1>11, <1>12, <1>13,
     <1>14, <1>15, <1>16, <1>17, <1>18, <1>19, <1>20, <1>21, <1>22, <1>23, <1>24, <1>25,
     <1>26, <1>27, <1>28, <1>29, <1>30, <1>31, <1>32, <1>33, <1>34, <1>35 DEF Next,
     Request, WorkerStep, ReaderStep

\* Every reachable state of the sidecar satisfies it; fairness is not needed.
LEMMA CancelInvariant == Spec => []CancelInv
<1>1. Init => CancelInv
  BY DEF Init, CancelInv, TypeOK, Registered, Withdrawn, Mirrored, FirstGate, Told, Remembered,
         Harmless, Settled, Status, ReopenSafe
<1>2. CancelInv /\ [Next]_vars => CancelInv'
  BY CancelStep
<1> QED
  BY <1>1, <1>2, PTL DEF Spec

-----------------------------------------------------------------------------
(* The results                                                             *)

\* The variables keep their types, and no handler leaves its run behind in
\* _ACTIVE_DELIVERY_WORKERS, by whichever exit it ends (the finally clauses of
\* agent_deliver and agent_verdict).
THEOREM WorkersAreDiscarded == Spec => []TypeOK
<1>1. CancelInv => TypeOK
  BY DEF CancelInv
<1> QED
  BY CancelInvariant, <1>1, PTL

\* A cancel that was left to a registered worker keeps its durable marker, through
\* failed verdicts, reopens and restarts, until the run is over (agent_cancel).
THEOREM ToldCancelSurvives == Spec => []ToldWorkerRemembers
<1>1. CancelInv => ToldWorkerRemembers
  BY DEF CancelInv, Remembered, Over, ToldWorkerRemembers, Requested
<1> QED
  BY CancelInvariant, <1>1, PTL

\* No request that begins after such a cancel runs a gate agent or signs a gate: it
\* finds the marker, or a run that is over (agent_verdict, agent_resume).
THEOREM CancelledRunStaysQuiet == Spec => []NoWorkAfterCancel
<1>1. CancelInv => NoWorkAfterCancel
  BY DEF CancelInv, Harmless, NoWorkAfterCancel
<1> QED
  BY CancelInvariant, <1>1, PTL
=============================================================================
