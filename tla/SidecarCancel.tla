---------------------------- MODULE SidecarCancel ----------------------------
(***************************************************************************)
(* Cancellation in the Python sidecar (signalos_ipc_server.py): two threads *)
(* and one delivery run.  The WORKER serves the requests of the queue one  *)
(* after the other (agent:deliver, agent:verdict, agent:reopen-gate,       *)
(* agent:resume); the stdin READER answers agent:cancel itself, in between *)
(* any two statements of the worker.  They share the registries            *)
(* _ACTIVE_DELIVERIES and _ACTIVE_DELIVERY_WORKERS, the cancel flag, the   *)
(* durable marker cancel-requested.json, delivery.json and the workspace   *)
(* lock.  GateWalk says what a gate run and a verdict do to the walk; here *)
(* a delivery is reduced to its status.                                    *)
(***************************************************************************)
EXTENDS Naturals

VARIABLES
    wpc,     \* the worker's next statement
    cmd,     \* the request the worker serves
    mem,     \* state.status of the orchestrator the worker built last
    disk,    \* the status in delivery.json; "none": the run has no directory,
             \* "bare": a directory without delivery.json
    active,  \* the run is in _ACTIVE_DELIVERIES
    working, \* the run is in _ACTIVE_DELIVERY_WORKERS
    flag,    \* _AGENT_CANCEL_FLAGS[run_id]
    marker,  \* cancel-requested.json exists
    lock,    \* the workspace lock: "ours" is held by the worker's
             \* orchestrator, "lost" by an earlier one, "rival" by another run
    release, \* release_finalization: "none", "pending", "pushed"
    rpc,     \* the reader's next statement
    ref,     \* the orchestrator the reader looked up: "none", the worker's
             \* ("same", or "told" if it was at work when the flag was set)
             \* or one the worker has since replaced ("old")
    answer,  \* history: the last agent:cancel was left to the worker it told,
             \* to one that registered since ("late"), to the marker alone
             \* ("parked"), or was carried out by the reader ("done")
    late     \* history: the request began after a registered worker was told

delivery == <<mem, disk, lock, release>>
registry == <<active, working>>
intent   == <<flag, marker>>
reader   == <<rpc, ref>>
vars == <<wpc, cmd, delivery, registry, intent, reader, answer, late>>

Terminal   == {"complete", "stopped", "cancelled"}
ReopenSafe == {"awaiting-verdict", "blocked", "stopped", "complete", "reopened"}
Status     == ReopenSafe \cup {"active", "cancelled"}

\* The types, and that _ACTIVE_DELIVERY_WORKERS names only a handler that is
\* still at work (a run left in it would refuse every later verdict).
TypeOK ==
    /\ wpc \in {"idle", "enrol", "start", "gate", "boundary", "sign", "finalize",
                "push", "leave", "recheck", "tail", "clear", "relock", "reset",
                "reopened", "status", "resumed"}
    /\ cmd \in {"none", "deliver", "verdict", "reopen", "resume"}
    /\ mem \in Status /\ disk \in Status \cup {"none", "bare"}
    /\ lock \in {"free", "ours", "lost", "rival"}
    /\ release \in {"none", "pending", "pushed"}
    /\ active \in BOOLEAN /\ working \in BOOLEAN
    /\ working => cmd \in {"deliver", "verdict"} /\ wpc # "idle"
    /\ flag \in BOOLEAN /\ marker \in BOOLEAN
    /\ rpc \in {"idle", "publish", "mark", "judge", "status", "persist",
                "release", "evict", "unmark"}
    /\ ref \in {"none", "same", "told", "old"}
    /\ answer \in {"none", "worker", "late", "parked", "done"}
    /\ late \in BOOLEAN

Init ==
    /\ wpc = "idle" /\ cmd = "none"
    /\ mem = "active" /\ disk = "none" /\ lock = "free" /\ release = "none"
    /\ active = FALSE /\ working = FALSE
    /\ flag = FALSE /\ marker = FALSE
    /\ rpc = "idle" /\ ref = "none"
    /\ answer = "none" /\ late = FALSE

\* _agent_cancel_requested
Requested == flag \/ marker

\* _release_delivery_lock by the worker's orchestrator (owner token).
Released == IF lock = "ours" THEN "free" ELSE lock

\* The status is set and persisted; both tasks of one statement sequence.
Checkpoint(s) == mem' = s /\ disk' = s

\* _cancel_at_boundary: status, checkpoint, lock.
Terminalize == Checkpoint("cancelled") /\ lock' = Released /\ UNCHANGED release

\* GateOrchestrator(...) or resume_delivery(...): a new object, a new token.
NewObject == ref' = IF ref = "none" THEN "none" ELSE "old"

\* The reader holds the worker's orchestrator.
Shared == ref \in {"same", "told"}

\* Something is written under the run's directory.
Dir == IF disk = "none" THEN "bare" ELSE disk

Begin(c) == cmd' = c /\ late' = (answer = "worker")

-----------------------------------------------------------------------------
(* agent_deliver and the part of a handler it shares with agent_verdict    *)

Deliver ==
    /\ wpc = "idle" /\ ~active /\ disk = "none"
    /\ Begin("deliver") /\ NewObject
    /\ wpc' = "enrol"
    /\ mem' = "active" /\ active' = TRUE /\ marker' = FALSE
    /\ release' = "none"
    /\ lock' = IF lock = "ours" THEN "lost" ELSE lock
    /\ UNCHANGED <<disk, working, flag, rpc, answer>>

\* _ACTIVE_DELIVERY_WORKERS.add, a statement after the registration (deliver)
\* or after the cancel check (verdict).
Enrol ==
    /\ wpc = "enrol"
    /\ working' = TRUE
    /\ wpc' = IF cmd = "deliver" THEN "start" ELSE "boundary"
    /\ UNCHANGED <<cmd, delivery, active, intent, reader, answer, late>>

AfterRun == IF cmd = "resume" THEN "resumed" ELSE "leave"

\* GateOrchestrator.start: the lock and the agent loop's own files, or the
\* answer "blocked", with which the run stays registered.
StartLock ==
    /\ wpc = "start"
    /\ IF lock \in {"free", "ours"}
       THEN lock' = "ours" /\ disk' = Dir /\ wpc' = "gate"
       ELSE UNCHANGED <<lock, disk>> /\ wpc' = AfterRun
    /\ UNCHANGED <<cmd, mem, release, registry, intent, reader, answer, late>>

\* _run_gate: the agent loop polls cancel_check and returns "cancelled".
GateCancelled ==
    /\ wpc = "gate" /\ Requested
    /\ Terminalize
    /\ wpc' = AfterRun
    /\ UNCHANGED <<cmd, registry, intent, reader, answer, late>>

\* _run_gate: the gate is parked for review or blocked.
GateEnds ==
    /\ wpc = "gate"
    /\ \E s \in {"awaiting-verdict", "blocked"} : Checkpoint(s)
    /\ wpc' = AfterRun
    /\ UNCHANGED <<cmd, lock, release, registry, intent, reader, answer, late>>

\* MUTANT of GateRaises: no finally clause around apply_verdict.
GateRaises_Leaks ==
    /\ wpc = "gate"
    /\ wpc' = "idle"
    /\ UNCHANGED <<cmd, delivery, registry, intent, reader, answer, late>>

\* An exception leaves the gate run.  agent_deliver forgets the run and its
\* cancel, agent_verdict and agent_resume only answer with an error.
GateRaises ==
    /\ wpc = "gate"
    /\ working' = FALSE
    /\ IF cmd = "deliver"
       THEN active' = FALSE /\ flag' = FALSE /\ wpc' = "clear"
       ELSE UNCHANGED <<active, flag>> /\ wpc' = "idle"
    /\ lock' = IF cmd = "verdict" THEN lock ELSE Released
    /\ UNCHANGED <<cmd, mem, disk, release, marker, reader, answer, late>>

\* finally: _ACTIVE_DELIVERY_WORKERS.discard
Leave ==
    /\ wpc = "leave"
    /\ working' = FALSE /\ wpc' = "recheck"
    /\ UNCHANGED <<cmd, delivery, active, intent, reader, answer, late>>

\* MUTANT of Recheck: the handler does not look at the cancel again.
Recheck_Skipped ==
    /\ wpc = "recheck"
    /\ wpc' = "tail"
    /\ UNCHANGED <<cmd, delivery, registry, intent, reader, answer, late>>

\* A cancel that no poll of the run has seen is honoured before the answer.
Recheck ==
    /\ wpc = "recheck"
    /\ wpc' = "tail"
    /\ IF Requested /\ mem \notin Terminal THEN Terminalize ELSE UNCHANGED delivery
    /\ UNCHANGED <<cmd, registry, intent, reader, answer, late>>

\* A finished run leaves the registries; a parked one stays.
Tail ==
    /\ wpc = "tail"
    /\ IF mem \in Terminal
       THEN active' = FALSE /\ flag' = FALSE /\ wpc' = "clear"
       ELSE UNCHANGED <<active, flag>> /\ wpc' = "idle"
    /\ UNCHANGED <<cmd, delivery, working, marker, reader, answer, late>>

\* _clear_agent_cancel_marker
Clear ==
    /\ wpc = "clear"
    /\ marker' = FALSE /\ wpc' = "idle"
    /\ UNCHANGED <<cmd, delivery, registry, flag, reader, answer, late>>

-----------------------------------------------------------------------------
(* agent_verdict and GateOrchestrator.apply_verdict                        *)

\* The cancel check comes before the registration as a worker.
Verdict ==
    /\ wpc = "idle" /\ active
    /\ Begin("verdict")
    /\ IF Requested
       THEN Terminalize /\ wpc' = "tail"
       ELSE UNCHANGED delivery /\ wpc' = "enrol"
    /\ UNCHANGED <<registry, intent, reader, answer>>

\* apply_verdict after the boundary "verdict": refused; a budget is used up;
\* the last gate is waived; rework, reject or waive runs a gate; approve goes
\* on to the signature (at G4 the build proof, not the status, admits it).
Boundary ==
    /\ wpc = "boundary"
    /\ \/ Requested /\ Terminalize /\ wpc' = "leave"
       \/ ~Requested /\ UNCHANGED delivery /\ wpc' \in {"leave", "gate"}
       \/ /\ ~Requested
          /\ \E s \in {"stopped", "complete"} : Checkpoint(s)
          /\ lock' = Released /\ wpc' = "leave"
          /\ UNCHANGED release
       \/ ~Requested /\ mem # "blocked" /\ UNCHANGED delivery /\ wpc' = "sign"
    /\ UNCHANGED <<cmd, registry, intent, reader, answer, late>>

\* The boundary "gate signature", then the signature and its checkpoint: the
\* next gate is dispatched, or the walk is complete and its release pending.
Sign ==
    /\ wpc = "sign"
    /\ \/ Requested /\ Terminalize /\ wpc' = "leave"
       \/ ~Requested /\ Checkpoint("active") /\ wpc' = "gate" /\ UNCHANGED <<lock, release>>
       \/ /\ ~Requested /\ Checkpoint("complete")
          /\ release' = "pending" /\ wpc' = "finalize" /\ UNCHANGED lock
    /\ UNCHANGED <<cmd, registry, intent, reader, answer, late>>

AfterRelease == IF cmd = "resume" THEN "status" ELSE "leave"

\* _finalize_pending_g5_release: the boundaries "G5 finalization" and
\* "release seal".
Finalize ==
    /\ wpc = "finalize"
    /\ IF Requested
       THEN Terminalize /\ wpc' = AfterRelease
       ELSE UNCHANGED delivery /\ wpc' = "push"
    /\ UNCHANGED <<cmd, registry, intent, reader, answer, late>>

\* finalize_g5_release: pushed, still pending, or stopped by its cancel poll.
Push ==
    /\ wpc = "push"
    /\ \/ release' = "pushed" /\ UNCHANGED <<mem, disk>>
       \/ UNCHANGED <<release, mem, disk>>
       \/ Requested /\ Checkpoint("cancelled") /\ UNCHANGED release
    /\ lock' = Released
    /\ wpc' = AfterRelease
    /\ UNCHANGED <<cmd, registry, intent, reader, answer, late>>

-----------------------------------------------------------------------------
(* agent_reopen_gate                                                       *)

\* The registered orchestrator, or a one-shot object loaded from the disk
\* (resume_delivery locks the workspace unless the run is terminal).
Reopen ==
    /\ wpc = "idle"
    /\ Begin("reopen")
    /\ wpc' = "relock"
    /\ \/ /\ active /\ mem \in ReopenSafe
          /\ answer' = IF mem \in Terminal THEN "none" ELSE answer
          /\ UNCHANGED <<mem, lock, ref>>
       \/ /\ ~active /\ disk \in ReopenSafe
          /\ disk \in Terminal \/ lock = "free"
          /\ NewObject
          /\ mem' = disk
          /\ answer' = IF disk \in Terminal THEN "none" ELSE answer
          /\ lock' = IF disk \notin Terminal THEN "ours"
                     ELSE IF lock = "ours" THEN "lost" ELSE lock
    /\ UNCHANGED <<disk, release, registry, intent, rpc>>

\* reopen_gate locks (again), revokes the signatures and checkpoints.
Relock ==
    /\ wpc = "relock"
    /\ IF lock \in {"free", "ours"}
       THEN lock' = "ours" /\ wpc' = "reset"
       ELSE UNCHANGED lock /\ wpc' = "reopened"
    /\ UNCHANGED <<cmd, mem, disk, release, registry, intent, reader, answer, late>>

Reset ==
    /\ wpc = "reset"
    /\ Checkpoint("reopened") /\ release' = "none"
    /\ wpc' = "reopened"
    /\ UNCHANGED <<cmd, lock, registry, intent, reader, answer, late>>

\* "Release its lock and require explicit agent:resume".
Reopened ==
    /\ wpc = "reopened"
    /\ lock' = IF active THEN lock ELSE Released
    /\ wpc' = "idle"
    /\ UNCHANGED <<cmd, mem, disk, release, registry, intent, reader, answer, late>>

-----------------------------------------------------------------------------
(* agent_resume                                                            *)

\* "Cancellation wins before provider construction".
ResumeCancelled ==
    /\ wpc = "idle" /\ ~active /\ disk \in Status
    /\ Requested /\ disk \notin Terminal
    /\ lock = "free"
    /\ Begin("resume") /\ NewObject
    /\ Terminalize
    /\ wpc' = "tail"
    /\ UNCHANGED <<registry, intent, rpc, answer>>

\* MUTANT of Resume: the durable cancel is ignored by the resume.
Resume_Ignores ==
    /\ wpc = "idle" /\ ~active /\ disk \in Status
    /\ lock = "free"
    /\ Begin("resume") /\ NewObject
    /\ mem' = disk
    /\ wpc' = IF disk = "complete" /\ release = "pending" THEN "finalize" ELSE "status"
    /\ lock' = IF disk \in Terminal /\ wpc' = "status" THEN lock ELSE "ours"
    /\ UNCHANGED <<disk, release, registry, intent, rpc, answer>>

\* resume_delivery with release recovery; a terminal run with a late cancel is
\* only reported.
Resume ==
    /\ wpc = "idle" /\ ~active /\ disk \in Status
    /\ Begin("resume") /\ NewObject
    /\ mem' = disk
    /\ \/ /\ ~Requested
          /\ lock = "free"
          /\ wpc' = IF disk = "complete" /\ release = "pending"
                    THEN "finalize" ELSE "status"
          /\ lock' = IF disk \in Terminal /\ wpc' = "status" THEN lock ELSE "ours"
       \/ /\ Requested /\ disk \in Terminal
          /\ wpc' = "status"
          /\ lock' = IF lock = "ours" THEN "lost" ELSE lock
    /\ UNCHANGED <<disk, release, registry, intent, rpc, answer>>

\* The restored status decides: report and forget, refuse ("cancelled"),
\* register the parked checkpoint, or rerun the gate - registered as active
\* delivery but not as a worker.
ResumeStatus ==
    /\ wpc = "status"
    /\ wpc' = CASE mem \in {"complete", "stopped"} -> "tail"
                [] mem = "active" -> "start"
                [] OTHER -> "idle"
    /\ active' = (active \/ mem \notin Terminal)
    /\ UNCHANGED <<cmd, delivery, working, intent, reader, answer, late>>

\* After the rerun: the cancel of a finished run is dropped, the run itself
\* stays registered.
Resumed ==
    /\ wpc = "resumed"
    /\ IF mem \in Terminal
       THEN flag' = FALSE /\ wpc' = "clear"
       ELSE UNCHANGED flag /\ wpc' = "idle"
    /\ UNCHANGED <<cmd, delivery, registry, marker, reader, answer, late>>

-----------------------------------------------------------------------------
(* agent_cancel on the reader thread                                       *)

\* Refused for an unknown run and, "too late", for a finished one on disk.
CancelBegin ==
    /\ rpc = "idle"
    /\ active \/ disk \in Status \ Terminal
    /\ ref' = IF active THEN "same" ELSE "none"
    /\ rpc' = "publish"
    /\ UNCHANGED <<wpc, cmd, delivery, registry, intent, answer, late>>

CancelFlag ==
    /\ rpc = "publish"
    /\ flag' = TRUE /\ rpc' = "mark"
    /\ ref' = IF ref = "same" /\ working THEN "told" ELSE ref
    /\ UNCHANGED <<wpc, cmd, delivery, registry, marker, answer, late>>

\* MUTANT of CancelMark: only the in-memory flag is set.
CancelMark_Volatile ==
    /\ rpc = "mark"
    /\ rpc' = "judge"
    /\ UNCHANGED <<wpc, cmd, delivery, registry, intent, ref, answer, late>>

\* _write_agent_cancel_marker
CancelMark ==
    /\ rpc = "mark"
    /\ marker' = TRUE /\ disk' = Dir /\ rpc' = "judge"
    /\ UNCHANGED <<wpc, cmd, mem, lock, release, registry, flag, ref, answer, late>>

\* A registered worker is told; a run that is only on disk keeps the marker;
\* any other registered run is terminalized by the reader.
CancelJudge ==
    /\ rpc = "judge"
    /\ IF ref = "none" \/ working
       THEN /\ answer' = CASE ref = "none" -> "parked" [] ref = "told" -> "worker"
                           [] OTHER -> "late"
            /\ rpc' = "idle" /\ ref' = "none"
       ELSE /\ answer' = "none"
            /\ rpc' = "status" /\ UNCHANGED ref
    /\ UNCHANGED <<wpc, cmd, delivery, registry, intent, late>>

CancelStatus ==
    /\ rpc = "status"
    /\ mem' = IF Shared THEN "cancelled" ELSE mem
    /\ rpc' = "persist"
    /\ UNCHANGED <<wpc, cmd, disk, lock, release, registry, intent, ref, answer, late>>

\* active._persist() writes the object as it is NOW.
CancelPersist ==
    /\ rpc = "persist"
    /\ disk' = IF Shared THEN mem ELSE "cancelled"
    /\ rpc' = "release"
    /\ UNCHANGED <<wpc, cmd, mem, lock, release, registry, intent, ref, answer, late>>

CancelRelease ==
    /\ rpc = "release"
    /\ lock' = IF Shared THEN Released ELSE lock
    /\ rpc' = "evict"
    /\ UNCHANGED <<wpc, cmd, mem, disk, release, registry, intent, ref, answer, late>>

CancelEvict ==
    /\ rpc = "evict"
    /\ active' = FALSE /\ flag' = FALSE
    /\ rpc' = "unmark"
    /\ UNCHANGED <<wpc, cmd, delivery, working, marker, ref, answer, late>>

CancelUnmark ==
    /\ rpc = "unmark"
    /\ marker' = FALSE
    /\ answer' = "done"
    /\ rpc' = "idle" /\ ref' = "none"
    /\ UNCHANGED <<wpc, cmd, delivery, registry, flag, late>>

-----------------------------------------------------------------------------
(* The environment                                                         *)

\* Another delivery takes and frees the workspace (see DeliveryLock).
Rival ==
    /\ \/ lock = "free" /\ lock' = "rival"
       \/ lock = "rival" /\ lock' = "free"
    /\ UNCHANGED <<wpc, cmd, mem, disk, release, registry, intent, reader, answer, late>>

\* The sidecar dies and is started again: the registries, the flag and the
\* orchestrator are gone, the lock of the dead process is stale.
Restart ==
    /\ wpc' = "idle" /\ cmd' = "none" /\ late' = FALSE
    /\ mem' = "active" /\ UNCHANGED <<disk, release>>
    /\ active' = FALSE /\ working' = FALSE
    /\ flag' = FALSE /\ UNCHANGED marker
    /\ lock' = IF lock \in {"ours", "lost"} THEN "free" ELSE lock
    /\ rpc' = "idle" /\ ref' = "none"
    /\ UNCHANGED answer

Request == Deliver \/ Verdict \/ Reopen \/ ResumeCancelled \/ Resume

WorkerStep ==
    \/ Enrol \/ StartLock \/ GateCancelled \/ GateEnds \/ GateRaises
    \/ Leave \/ Recheck \/ Tail \/ Clear
    \/ Boundary \/ Sign \/ Finalize \/ Push
    \/ Relock \/ Reset \/ Reopened \/ ResumeStatus \/ Resumed

ReaderStep ==
    \/ CancelFlag \/ CancelMark \/ CancelJudge \/ CancelStatus \/ CancelPersist
    \/ CancelRelease \/ CancelEvict \/ CancelUnmark

Next == Request \/ WorkerStep \/ CancelBegin \/ ReaderStep \/ Rival \/ Restart

\* Both threads run on: a gate run is bounded by its budgets and timeouts.
Spec == Init /\ [][Next]_vars /\ WF_vars(WorkerStep) /\ WF_vars(ReaderStep)

-----------------------------------------------------------------------------
(* Properties                                                              *)

Settled == disk \in Terminal \cup {"none", "bare"}

\* A cancel that was left to a registered worker is not lost (agent_cancel,
\* agent_deliver, agent_verdict, agent_resume): until the run is over, the
\* flag or the durable marker still asks for it, through failed verdicts,
\* reopens and restarts.
ToldWorkerRemembers == answer = "worker" => Requested \/ Settled

\* After such a cancel no later request runs a gate agent or signs a gate.
NoWorkAfterCancel == late => wpc \notin {"gate", "sign"}

\* A cancel that finds agent:deliver at work ends the delivery.
InFlightCancelEnds ==
    (answer = "worker" /\ working /\ cmd = "deliver") ~> (Settled \/ ~active)

\* agent_cancel, "an idle checkpoint has no writer and can be terminalized
\* synchronously without opening a concurrency window": whichever way a cancel
\* was answered, it holds until the run is over.
AnsweredCancelHolds == answer # "none" => Requested \/ Settled
=============================================================================
