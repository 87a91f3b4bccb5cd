------------------------------ MODULE GateWalk ------------------------------
(***************************************************************************)
(* One governed delivery: the gate walk of GateOrchestrator                *)
(* (product/gate_orchestrator.py) with its memory (mem), its checkpoint    *)
(* file delivery.json (disk), the canonical signatures (sigs), the product *)
(* tree, the G4 attribution record (proof) and the remote branch (origin). *)
(* A handler is split exactly where it makes something durable, so a crash *)
(* of the sidecar can fall between any two durable effects.  The founder   *)
(* (or anything else that writes files) may edit the product tree and the  *)
(* signed artifacts at any time.                                           *)
(*                                                                         *)
(* Gate 0 is G0, Build is G4 (the build gate), Last is G5 (the release     *)
(* gate).  No cancel is requested here: SidecarCancel models cancellation. *)
(***************************************************************************)
EXTENDS Naturals, FiniteSets

CONSTANTS Last,       \* number of the release gate: 5 in the code
          Trees,      \* digests of shippable trees
          NoTree,     \* "no digest"
          Production, \* TRUE: profile "production", FALSE: "benchmark"
          Verdicts,   \* verdicts the founder gives in this instance
          MaxRework,  \* rework budget of one gate
          MaxReject,  \* max_rejections
          MaxReopen,  \* reopen budget of one gate
          Meddling,   \* what else writes: "edit" the tree, "drift" of artifacts, "repo"
          MaxCrash    \* BOUND: sidecar crashes

ASSUME WalkAssumption ==
    /\ Last \in Nat /\ Last >= 2
    /\ NoTree \notin Trees
    /\ Production \in BOOLEAN
    /\ Verdicts \subseteq {"approve", "approve-with-conditions",
                           "request-changes", "reject", "waive", "reopen"}
    /\ Meddling \subseteq {"edit", "drift", "repo"}
    /\ MaxRework \in Nat /\ MaxReject \in Nat /\ MaxReopen \in Nat /\ MaxCrash \in Nat

Gate   == 0..Last
Build  == Last - 1
Digest == Trees \cup {NoTree}
Status == {"active", "awaiting-verdict", "blocked", "reopened", "stopped", "complete"}
Verification == [ok : BOOLEAN, digest : Digest]
Marker == [status : {"none", "pending", "succeeded", "failed"},
           phase  : {"none", "verified", "signed"},
           digest : Digest]

\* DeliveryState, the content of delivery.json.
DState == [gate : Gate, status : Status, lastOk : BOOLEAN,
           rework : [Gate -> 0..MaxRework], rejections : [Gate -> 0..MaxReject],
           reopens : [Gate -> 0..MaxReopen],
           signed : SUBSET Gate, waived : SUBSET Gate, conds : SUBSET Gate,
           safety : BOOLEAN,       \* security gate passed and runtime proof ok
           relv : Verification,    \* release_verification
           fin : Marker]           \* release_finalization

VARIABLES
    mem,      \* the orchestrator's DeliveryState
    disk,     \* the last persisted DeliveryState
    saved,    \* delivery.json exists
    pc,       \* where the handler is; "down": no orchestrator in memory
    cond,     \* the verdict in progress carries a condition
    target,   \* the gate a reopen in progress aims at
    via,      \* what called the handler: a verdict, a resume, a one-shot reopen
    locked,   \* this delivery owns the workspace's delivery lock
    sigs,     \* gates whose canonical signatures are valid on disk
    tree,     \* digest of the current shippable tree
    proof,    \* digest bound by the verified G4 record, or NoTree
    head,     \* digest of the release commit at HEAD, or NoTree
    origin,   \* digest of the release at the remote branch
    report,   \* readiness told to the founder by the last call (none: no answer)
    crashes,  \* crashes so far
    abandoned, \* history: the last gate run dispatched has not completed
    verified,  \* history: trees that passed the independent build check
    screened,  \* history: the last safety stages are newer than the last build
    approved,  \* history: the founder's last word on G5 is an approval
    orphaned   \* history: a resume disowned the G5 signature, and no run replaced it

state   == <<mem, disk, saved>>
args    == <<cond, target, via>>
files   == <<sigs, tree, proof>>
repo    == <<head, origin>>
audit   == <<verified, screened, approved, orphaned>>
history == <<abandoned, verified, screened, approved, orphaned>>
vars == <<mem, disk, saved, pc, cond, target, via, locked, sigs, tree, proof, head,
          origin, report, crashes, abandoned, verified, screened, approved, orphaned>>

PCs == {"down", "idle", "run", "build", "built", "scan", "sign", "commit", "revoked",
        "final", "ship", "committed", "pushed", "unshipped", "demote", "recheck"}

TypeOK ==
    /\ mem \in DState /\ disk \in DState
    /\ saved \in BOOLEAN /\ cond \in BOOLEAN /\ locked \in BOOLEAN
    /\ pc \in PCs /\ target \in Gate /\ via \in {"verdict", "resume", "oneshot"}
    /\ sigs \subseteq Gate
    /\ tree \in Trees /\ proof \in Digest /\ head \in Digest /\ origin \in Digest
    /\ report \in {"none", "ready", "not-ready"}
    /\ crashes \in 0..MaxCrash
    /\ abandoned \in BOOLEAN /\ approved \in BOOLEAN /\ screened \in BOOLEAN
    /\ orphaned \in BOOLEAN
    /\ verified \subseteq Trees

NoVerification == [ok |-> FALSE, digest |-> NoTree]
NoMarker == [status |-> "none", phase |-> "none", digest |-> NoTree]

\* _signed_gates_on_disk and _current_gate: a fresh orchestrator adopts the
\* unbroken prefix of signed gates and starts at the first unsigned one.
SignedPrefix == {g \in Gate : \A h \in 0..g : h \in sigs}
FirstUnsigned ==
    LET First(g) == g \notin sigs /\ \A h \in Gate : h < g => h \in sigs
    IN  IF \E g \in Gate : First(g) THEN CHOOSE g \in Gate : First(g) ELSE 0

Fresh == [gate |-> FirstUnsigned, status |-> "active", lastOk |-> FALSE,
          rework |-> [g \in Gate |-> 0], rejections |-> [g \in Gate |-> 0],
          reopens |-> [g \in Gate |-> 0],
          signed |-> SignedPrefix, waived |-> {}, conds |-> {},
          safety |-> FALSE, relv |-> NoVerification, fin |-> NoMarker]

Init ==
    /\ sigs = {} /\ tree \in Trees /\ proof = NoTree /\ head = NoTree /\ origin = NoTree
    /\ mem = Fresh /\ disk = Fresh /\ saved = FALSE
    /\ pc = "down" /\ cond = FALSE /\ target = 0 /\ via = "verdict" /\ locked = FALSE
    /\ report = "none" /\ crashes = 0
    /\ abandoned = FALSE /\ verified = {} /\ screened = FALSE /\ approved = FALSE
    /\ orphaned = FALSE

-----------------------------------------------------------------------------
(* Checks the handlers make                                                *)

\* _g4_verification_for_current_tree
BuildProven == proof # NoTree /\ proof = tree

\* _production_release_evidence_reasons: required by the production profile.
SafetyOk(s) == Production => s.safety

\* _g5_release_proof_reasons: strict G5 wants the persisted release
\* checkpoint of a completed delivery, bound to the current tree.
ReleaseProofOnDisk ==
    /\ saved
    /\ disk.gate = Last /\ Last \in disk.signed /\ disk.status = "complete"
    /\ SafetyOk(disk)
    /\ disk.relv.ok /\ disk.relv.digest # NoTree
    /\ disk.fin.status \in {"pending", "succeeded"} /\ disk.fin.phase = "signed"
    /\ disk.fin.digest = disk.relv.digest
    /\ proof = disk.relv.digest /\ tree = disk.relv.digest

\* check_gate_signed_strict
Strict(g) == g \in sigs /\ (g = Last => ReleaseProofOnDisk)

\* _verify_g5_release
VerifyG5(s) ==
    /\ s.waived = {} /\ s.conds = {}
    /\ \A g \in Gate : g < Last => (g \in s.signed /\ Strict(g))
    /\ BuildProven
    /\ SafetyOk(s)

\* _release_digest_from_g4
CurrentDigest == IF BuildProven THEN proof ELSE NoTree

\* _verify_completed_g5_release
VerifyCompleted(s) ==
    /\ VerifyG5(s)
    /\ s.gate = Last
    /\ \A g \in Gate : g \in s.signed /\ Strict(g)

\* _release_commit_at_head: HEAD is the release commit of d, and the
\* workspace still has its bytes.
CommitAtHead(d) == head = d /\ tree = d

\* _release_success_reasons: commit and remote ref are re-read.
ReceiptsHold(d) == CommitAtHead(d) /\ origin = d

\* _release_marker_reasons, for the digest d of the current proof
MarkerOk(m, d) ==
    /\ m.status \in {"pending", "succeeded"}
    /\ m.phase \in (IF m.status = "succeeded" THEN {"signed"} ELSE {"verified", "signed"})
    /\ m.digest # NoTree
    /\ d # NoTree => m.digest = d
    /\ m.status = "succeeded" => ReceiptsHold(m.digest)

\* _governed_outcome_proof_reasons: the signer re-reads the checkpoint FILE
\* before it writes a G4 or G5 signature.
SignerAccepts(g) ==
    g \in {Build, Last} =>
       /\ disk.gate = g /\ disk.status \in {"awaiting-verdict", "reopened"} /\ disk.lastOk
       /\ BuildProven
       /\ \A h \in Gate : h < g => (h \in disk.signed /\ Strict(h))
       /\ g = Last =>
             /\ disk.relv.ok /\ disk.relv.digest = proof
             /\ disk.fin = [status |-> "pending", phase |-> "verified", digest |-> proof]
             /\ disk.waived = {} /\ disk.conds = {}
             /\ SafetyOk(disk)

-----------------------------------------------------------------------------
(* Building blocks of the handlers                                         *)

\* _persist: delivery.json is replaced atomically.
Persist(s) == mem' = s /\ disk' = s /\ saved' = TRUE

\* A handler dispatches a gate run (_run_gate).
Dispatch == pc' = "run" /\ abandoned' = TRUE

\* The delivery leaves _ACTIVE_DELIVERIES and gives the workspace back.
Leave == pc' = "down" /\ locked' = FALSE

\* The founder gives a verdict on the parked delivery (apply_verdict).
Verdict(v) == pc = "idle" /\ v \in Verdicts

Open == mem.status \in {"awaiting-verdict", "reopened"}

-----------------------------------------------------------------------------
(* Gate runs                                                               *)

\* agent_deliver and GateOrchestrator.start.
Deliver ==
    /\ pc = "down" /\ ~saved
    /\ mem' = Fresh /\ locked' = TRUE /\ Dispatch
    /\ UNCHANGED <<disk, saved, args, files, repo, report, crashes, audit>>

\* _run_gate of every gate but the build gate: reviewable work opens the gate,
\* anything else blocks it.  A completed run of the release gate has rewritten
\* its artifact, other runs may or may not touch bytes that are signed.
RunGate ==
    /\ pc = "run" /\ mem.gate # Build
    /\ \E ok \in BOOLEAN :
         /\ Persist([mem EXCEPT !.status = IF ok THEN "awaiting-verdict" ELSE "blocked",
                                !.lastOk = ok])
         /\ \/ sigs' = sigs \ {mem.gate}
            \/ sigs' = sigs /\ ~(ok /\ mem.gate = Last)
    /\ orphaned' = (orphaned /\ Last \in sigs')
    /\ pc' = "idle" /\ abandoned' = FALSE
    /\ UNCHANGED <<args, locked, tree, proof, repo, report, crashes, verified, screened, approved>>

\* _execute_build_gate: the dependency broker refuses before anything starts.
BuildRefused ==
    /\ pc = "run" /\ mem.gate = Build
    /\ Persist([mem EXCEPT !.status = "blocked", !.lastOk = FALSE])
    /\ pc' = "idle" /\ abandoned' = FALSE
    /\ UNCHANGED <<args, locked, files, repo, report, crashes, audit>>

\* _prepare_g4_attribution: the record goes to phase "running".
PrepareBuild ==
    /\ pc = "run" /\ mem.gate = Build
    /\ proof' = NoTree /\ pc' = "build"
    /\ UNCHANGED <<state, args, locked, sigs, tree, repo, report, crashes, history>>

\* The build writes the product; _verify_g4_build checks it independently and
\* _finish_g4_verification binds the record to the resulting tree.
BuildDone ==
    /\ pc = "build" /\ pc' = "built"
    /\ tree' \in Trees
    /\ proof' \in {tree', NoTree}
    /\ verified' = verified \cup ({proof'} \ {NoTree}) /\ screened' = FALSE
    /\ UNCHANGED <<state, args, locked, sigs, repo, report, crashes, abandoned, approved, orphaned>>

\* The record is durable before the checkpoint, which opens the gate if the
\* record says verified.
BuildRecorded ==
    /\ pc = "built" /\ pc' = "idle" /\ abandoned' = FALSE
    /\ LET ok == proof # NoTree IN
       Persist([mem EXCEPT !.status = IF ok THEN "awaiting-verdict" ELSE "blocked", !.lastOk = ok])
    /\ UNCHANGED <<args, locked, files, repo, report, crashes, audit>>

-----------------------------------------------------------------------------
(* apply_verdict: approve and approve-with-conditions                      *)

ApproveVerdict ==
    \/ Verdict("approve") /\ cond' = FALSE
    \/ Verdict("approve-with-conditions") /\ cond' = TRUE

\* G0 has its own approval transaction; a verdict only advances it.
ApproveG0 ==
    /\ ApproveVerdict /\ Open /\ mem.gate = 0
    /\ 0 \in sigs
    /\ pc' = "commit"
    /\ UNCHANGED <<state, target, via, locked, files, repo, report, crashes, history>>

ApproveGate ==
    /\ ApproveVerdict /\ Open /\ mem.gate \notin {0, Build, Last}
    /\ pc' = "sign"
    /\ UNCHANGED <<state, target, via, locked, files, repo, report, crashes, history>>

ApproveBuild ==
    /\ ApproveVerdict /\ Open /\ mem.gate = Build
    /\ BuildProven
    /\ pc' = IF Production THEN "scan" ELSE "sign"
    /\ UNCHANGED <<state, target, via, locked, files, repo, report, crashes, history>>

\* MUTANT of ScanDegraded: a scanner that could not decide keeps the old evidence.
ScanDegraded_Keeps == Persist(mem)

\* An erroring scanner or a proof that did not run: G4 may be signed, the
\* release may not.
ScanDegraded == Persist([mem EXCEPT !.safety = FALSE])

\* _run_post_build_stages: the security gate and the runtime proof.
Scan ==
    /\ pc = "scan"
    /\ \/ /\ Persist([mem EXCEPT !.safety = TRUE])
          /\ pc' = "sign" /\ screened' = TRUE
       \/ ScanDegraded /\ pc' = "sign" /\ UNCHANGED screened
       \/ /\ Persist([mem EXCEPT !.safety = FALSE, !.status = "blocked", !.lastOk = FALSE])
          /\ pc' = "idle" /\ UNCHANGED screened
    /\ UNCHANGED <<args, locked, files, repo, report, crashes, abandoned,
                   verified, approved, orphaned>>

\* The release gate: readiness is decided, and made durable, before the signature.
ApproveRelease ==
    /\ ApproveVerdict /\ Open /\ mem.gate = Last
    /\ LET ready == VerifyG5(mem) /\ ~cond'
           rv == [ok |-> ready, digest |-> CurrentDigest]
           fin == IF ready THEN [status |-> "pending", phase |-> "verified", digest |-> CurrentDigest]
                  ELSE mem.fin
       IN  /\ Persist([mem EXCEPT !.relv = rv, !.fin = fin])
           /\ pc' = IF ready THEN "sign" ELSE "idle"
           /\ approved' = (ready \/ approved)
    /\ UNCHANGED <<target, via, locked, files, repo, report, crashes, abandoned,
                   verified, screened, orphaned>>

\* The canonical signer writes the signatures, or refuses.
Sign ==
    /\ pc = "sign"
    /\ \/ SignerAccepts(mem.gate) /\ sigs' = sigs \cup {mem.gate} /\ pc' = "commit"
       \/ sigs' = sigs /\ pc' = "idle"
    /\ UNCHANGED <<state, args, locked, tree, proof, repo, report, crashes, history>>

\* The signed state, checkpointed before the next gate is dispatched.
Signed == [mem EXCEPT !.signed = @ \cup {mem.gate},
                      !.conds = IF cond THEN @ \cup {mem.gate} ELSE @]

Advance == Persist([Signed EXCEPT !.gate = mem.gate + 1, !.status = "active"])

Commit ==
    /\ pc = "commit" /\ mem.gate # Last
    /\ Advance
    /\ Dispatch
    /\ UNCHANGED <<args, locked, files, repo, report, crashes, audit>>

CommitRelease ==
    /\ pc = "commit" /\ mem.gate = Last
    /\ Persist([Signed EXCEPT !.fin.status = "pending", !.fin.phase = "signed",
                              !.status = "complete"])
    /\ pc' = "final" /\ via' = "verdict"
    /\ UNCHANGED <<cond, target, locked, files, repo, report, crashes, history>>

-----------------------------------------------------------------------------
(* apply_verdict: request-changes, reject, waive; reopen_gate              *)

\* MUTANT of SendBack: one rework more than the budget allows.
SendBack_OffByOne(count, budget, s) ==
    /\ IF count <= budget
       THEN /\ mem' = s /\ Dispatch
            /\ UNCHANGED <<disk, saved, locked>>
       ELSE /\ Persist([mem EXCEPT !.status = "stopped"]) /\ Leave
            /\ UNCHANGED abandoned
    /\ approved' = (approved /\ mem.gate # Last)
    /\ UNCHANGED <<args, files, repo, report, crashes, verified, screened, orphaned>>

\* The gate runs again with the feedback, or the budget is spent and the
\* delivery stops.  The counter is durable only once the new run completes.
SendBack(count, budget, s) ==
    /\ IF count < budget
       THEN /\ mem' = s /\ Dispatch
            /\ UNCHANGED <<disk, saved, locked>>
       ELSE /\ Persist([mem EXCEPT !.status = "stopped"]) /\ Leave
            /\ UNCHANGED abandoned
    /\ approved' = (approved /\ mem.gate # Last)
    /\ UNCHANGED <<args, files, repo, report, crashes, verified, screened, orphaned>>

RequestChanges ==
    /\ Verdict("request-changes")
    /\ SendBack(mem.rework[mem.gate], MaxRework, [mem EXCEPT !.rework[mem.gate] = @ + 1])

Reject ==
    /\ Verdict("reject")
    /\ SendBack(mem.rejections[mem.gate], MaxReject, [mem EXCEPT !.rejections[mem.gate] = @ + 1])

Waive ==
    /\ Verdict("waive")
    /\ LET s == [mem EXCEPT !.waived = @ \cup {mem.gate}]
       IN  IF mem.gate = Last
           THEN /\ Persist([s EXCEPT !.status = "complete", !.relv = NoVerification])
                /\ Leave /\ report' = "not-ready" /\ approved' = FALSE
                /\ UNCHANGED abandoned
           ELSE /\ mem' = [s EXCEPT !.gate = mem.gate + 1] /\ Dispatch
                /\ UNCHANGED <<disk, saved, locked, report, approved>>
    /\ UNCHANGED <<args, files, repo, crashes, verified, screened, orphaned>>

\* revoke_gates: the canonical signatures of the cascade are void.
RevokeFrom(g) == sigs \ {h \in mem.signed : h >= g}

\* reopen_gate on the parked delivery, or one-shot on the persisted one: the
\* revocation is durable before the state that needs it.
Reopen(g) ==
    /\ "reopen" \in Verdicts
    /\ \/ pc = "idle" /\ via' = "verdict"
       \/ pc = "down" /\ saved /\ via' = "oneshot"
    /\ mem.status \in {"awaiting-verdict", "blocked", "stopped", "complete", "reopened"}
    /\ g \in mem.signed /\ mem.reopens[g] < MaxReopen
    /\ locked' = TRUE /\ target' = g
    /\ sigs' = RevokeFrom(g)
    /\ pc' = "revoked" /\ approved' = FALSE
    /\ UNCHANGED <<state, cond, tree, proof, repo, report, crashes, abandoned,
                   verified, screened, orphaned>>

\* MUTANTS of Reopened: the release record survives; every waiver is dropped.
Reopened_KeepsRelease ==
    [mem EXCEPT !.signed = {h \in @ : h < target}, !.reopens[target] = @ + 1,
                !.gate = target, !.status = "reopened"]
Reopened_ClearsWaivers ==
    [mem EXCEPT !.signed = {h \in @ : h < target}, !.waived = {},
                !.reopens[target] = @ + 1, !.relv = NoVerification, !.fin = NoMarker,
                !.gate = target, !.status = "reopened"]

\* Waivers of the target itself and of signed gates stay, and so do conditions.
Reopened ==
    [mem EXCEPT !.signed = {h \in @ : h < target},
                !.waived = {h \in @ : h <= target \/ h \in mem.signed},
                !.reopens[target] = @ + 1,
                !.relv = NoVerification, !.fin = NoMarker,
                !.safety = @ /\ target > Build,
                !.gate = target, !.status = "reopened"]

ReopenDone ==
    /\ pc = "revoked"
    /\ Persist(Reopened)
    /\ IF via = "oneshot" THEN Leave ELSE pc' = "idle" /\ UNCHANGED locked
    /\ UNCHANGED <<args, files, repo, report, crashes, history>>

-----------------------------------------------------------------------------
(* The release: _finalize_pending_g5_release                               *)

\* MUTANT of ReleaseTruth: only the marker is validated.
ReleaseTruth_MarkerOnly(s) == MarkerOk(s.fin, CurrentDigest)

\* What must hold before any side effect of the release.
ReleaseTruth(s) == VerifyCompleted(s) /\ MarkerOk(s.fin, CurrentDigest)

\* Another workspace finalizer owns the G5 finalization lock.
FinalizerBusy ==
    /\ pc = "final"
    /\ Leave /\ report' = "not-ready"
    /\ UNCHANGED <<state, args, files, repo, crashes, history>>

\* Release truth is recomputed and made durable before any side effect.
Finalize ==
    /\ pc = "final"
    /\ Persist([mem EXCEPT !.relv = [ok |-> ReleaseTruth(mem), digest |-> CurrentDigest]])
    /\ pc' = IF ReleaseTruth(mem) THEN "ship" ELSE "demote"
    /\ UNCHANGED <<args, locked, files, repo, report, crashes, history>>

\* A release that is no longer true goes back to the founder as blocked.  The
\* verdict path releases the delivery lock on the way out.
Demote ==
    /\ pc = "demote"
    /\ Persist([mem EXCEPT !.status = "blocked", !.lastOk = FALSE])
    /\ pc' = "idle" /\ report' = "not-ready" /\ locked' = (via # "verdict")
    /\ UNCHANGED <<args, files, repo, crashes, history>>

\* MUTANT of CommitTree: the tree is committed as it is now.
CommitTree_Unchecked(d) == head' = tree

\* _stage_and_commit_for_release: what is staged, or is already at HEAD, must
\* have the approved digest.
CommitTree(d) == tree = d /\ head' = d

StageAndCommit ==
    /\ pc = "ship"
    /\ CommitTree(mem.fin.digest)
    /\ pc' = "committed"
    /\ UNCHANGED <<state, args, locked, files, origin, report, crashes, history>>

Push ==
    /\ pc = "committed"
    /\ CommitAtHead(mem.fin.digest)
    /\ origin' = mem.fin.digest /\ pc' = "pushed"
    /\ UNCHANGED <<state, args, locked, files, head, report, crashes, history>>

\* The seal, the commit or the push failed or was deferred.
ShipFails ==
    /\ pc \in {"ship", "committed"}
    /\ pc' = "unshipped"
    /\ UNCHANGED <<state, args, locked, files, repo, report, crashes, history>>

\* The receipts are read back; anything but success leaves the release pending.
Receipt ==
    /\ pc \in {"pushed", "unshipped"}
    /\ LET done == pc = "pushed" /\ ReceiptsHold(mem.fin.digest)
       IN  /\ Persist([mem EXCEPT !.fin.status = IF done THEN "succeeded" ELSE "pending"])
           /\ report' = IF done THEN "ready" ELSE "not-ready"
    /\ Leave
    /\ UNCHANGED <<args, files, repo, crashes, history>>

-----------------------------------------------------------------------------
(* resume_delivery with recover_pending_release, from agent_resume         *)

\* _recover_g5_release: the checkpoint was written before the G5 signature,
\* the signature exists, the terminal checkpoint does not.
SignedCrash ==
    /\ disk.fin.status = "pending" /\ disk.status \in {"active", "awaiting-verdict"}
    /\ Last \in sigs

Reconcilable(s) ==
    /\ s.gate = Last /\ VerifyG5(s)
    /\ MarkerOk(s.fin, CurrentDigest) /\ s.fin.digest = CurrentDigest

\* MUTANT of Resuming: the delivery continues without taking the lock again.
Resuming_NoLock == pc = "down" /\ saved /\ UNCHANGED locked /\ via' = "resume"

Resuming == pc = "down" /\ saved /\ locked' = TRUE /\ via' = "resume"

\* A parked checkpoint is registered as it is; an active one runs again.
Park(s) ==
    \/ s.status \in {"awaiting-verdict", "blocked", "reopened"} /\ pc' = "idle" /\ UNCHANGED abandoned
    \/ s.status = "active" /\ Dispatch

Resume ==
    /\ Resuming /\ ~SignedCrash
    /\ Park(disk)
    /\ UNCHANGED <<state, cond, target, files, repo, report, crashes, audit>>

ResumeReconciled ==
    /\ Resuming /\ SignedCrash /\ Reconcilable(disk)
    /\ Persist([disk EXCEPT !.signed = @ \cup {Last}, !.status = "complete", !.fin.phase = "signed"])
    /\ pc' = "recheck"
    /\ UNCHANGED <<cond, target, files, repo, report, crashes, history>>

ResumeRefused ==
    /\ Resuming /\ SignedCrash /\ ~Reconcilable(disk)
    /\ Persist([disk EXCEPT !.fin.status = "failed",
                            !.relv = [ok |-> FALSE, digest |-> CurrentDigest]])
    /\ Park(disk) /\ orphaned' = TRUE
    /\ UNCHANGED <<cond, target, files, repo, report, crashes, verified, screened, approved>>

ResumeComplete ==
    /\ Resuming /\ disk.status = "complete"
    /\ pc' = "recheck"
    /\ UNCHANGED <<state, cond, target, files, repo, report, crashes, history>>

\* What a resume of a complete delivery recomputes.
RecheckTruth(s) ==
    /\ VerifyCompleted(s)
    /\ s.fin.status # "none" => MarkerOk(s.fin, CurrentDigest)

\* MUTANT of RetryPending: only a release that was never signed is retried.
RetryPending_Unsigned(s) ==
    s.fin.status = "pending" /\ s.fin.phase = "verified" /\ MarkerOk(s.fin, CurrentDigest)

\* A pending release whose marker is intact is finalized again.
RetryPending(s) == s.fin.status = "pending" /\ MarkerOk(s.fin, CurrentDigest)

Recheck ==
    /\ pc = "recheck"
    /\ LET truth == RecheckTruth(mem)
       IN  /\ Persist([mem EXCEPT !.relv = [ok |-> truth, digest |-> CurrentDigest]])
           /\ IF RetryPending(mem)
              THEN pc' = "final" /\ UNCHANGED <<locked, report>>
              ELSE /\ Leave
                   /\ report' = IF truth /\ mem.fin.status = "succeeded" THEN "ready" ELSE "not-ready"
    /\ UNCHANGED <<args, files, repo, crashes, history>>

-----------------------------------------------------------------------------
(* The environment                                                         *)

\* The sidecar dies: memory is gone, the files are not.
Crash ==
    /\ pc # "down" /\ crashes < MaxCrash
    /\ crashes' = crashes + 1
    /\ pc' = "down" /\ mem' = disk /\ locked' = FALSE /\ report' = "none"
    /\ UNCHANGED <<disk, saved, args, files, repo, history>>

\* Somebody changes the product tree.
Edit ==
    /\ "edit" \in Meddling
    /\ tree' \in Trees \ {tree}
    /\ UNCHANGED <<state, pc, args, locked, sigs, proof, repo, report, crashes, history>>

\* Somebody changes a signed artifact: its signature no longer verifies.
Drift(g) ==
    /\ "drift" \in Meddling /\ g \in sigs
    /\ sigs' = sigs \ {g}
    /\ UNCHANGED <<state, pc, args, locked, tree, proof, repo, report, crashes, history>>

\* Somebody commits on top of the release, or moves the remote branch.
RepoMoves ==
    /\ "repo" \in Meddling
    /\ \/ head # NoTree /\ head' = NoTree /\ UNCHANGED origin
       \/ origin # NoTree /\ origin' = NoTree /\ UNCHANGED head
    /\ UNCHANGED <<state, pc, args, locked, files, report, crashes, history>>

\* approve_gate0_as_solo_founder, the explicit G0 transaction.
FounderG0 ==
    /\ pc \in {"down", "idle"} /\ 0 \notin sigs
    /\ sigs' = sigs \cup {0}
    /\ UNCHANGED <<state, pc, args, locked, tree, proof, repo, report, crashes, history>>

-----------------------------------------------------------------------------
Handler ==
    \/ RunGate \/ BuildRefused \/ PrepareBuild \/ BuildDone \/ BuildRecorded
    \/ Scan \/ Sign \/ Commit \/ CommitRelease
    \/ ReopenDone
    \/ FinalizerBusy \/ Finalize \/ Demote \/ StageAndCommit \/ Push \/ ShipFails \/ Receipt
    \/ Recheck

Founder ==
    \/ Deliver \/ FounderG0
    \/ ApproveG0 \/ ApproveGate \/ ApproveBuild \/ ApproveRelease
    \/ RequestChanges \/ Reject \/ Waive
    \/ \E g \in Gate : Reopen(g)
    \/ Resume \/ ResumeReconciled \/ ResumeRefused \/ ResumeComplete

Environment == Crash \/ Edit \/ (\E g \in Gate : Drift(g)) \/ RepoMoves

Next == Handler \/ Founder \/ Environment

Spec == Init /\ [][Next]_vars

\* Handlers run to completion once called (agent loops, builds and git calls
\* are bounded by budgets and timeouts), the founder keeps resuming a delivery
\* that is not in memory, and a push that is retried for ever succeeds.
Fairness ==
    /\ WF_vars(Handler)
    /\ WF_vars(Resume \/ ResumeReconciled \/ ResumeRefused \/ ResumeComplete)
    /\ SF_vars(Finalize) /\ SF_vars(StageAndCommit) /\ SF_vars(Push)

FairSpec == Spec /\ Fairness

-----------------------------------------------------------------------------
(* Properties                                                              *)

InOrder(s) == \A g \in Gate : g < s.gate => g \in s.signed \cup s.waived

\* A delivery never gets past a gate the founder neither signed nor waived, in
\* memory and in the checkpoint a crash falls back to: whatever the order of
\* verdicts, reopens and crashes (apply_verdict, reopen_gate, resume_delivery).
WalkInOrder == InOrder(mem) /\ InOrder(disk)

\* The release branch, here and at the remote, only ever holds a tree that
\* passed the independent build verification of this delivery, although the
\* tree may be edited between any two steps (_stage_and_commit_for_release).
OnlyVerifiedTreesShip == {head, origin} \ {NoTree} \subseteq verified

\* When the remote branch is moved to a release, every gate is signed, none is
\* waived or conditional, and the bytes are those the founder approved
\* (_finalize_pending_g5_release, _verify_completed_g5_release).
Releasable(s) ==
    /\ s.signed = Gate /\ s.waived = {} /\ s.conds = {}
    /\ SafetyOk(s)
ShipOnlyReleasable ==
    [][pc = "committed" /\ pc' = "pushed" => Releasable(mem) /\ origin' = disk.relv.digest]_vars

\* Nothing is shipped after the founder took the approval of G5 back: a rework,
\* a waiver or a reopen in between, even interrupted by a crash, is not
\* overlooked by the crash recovery of _recover_g5_release, with one exception: a
\* G5 signature that an earlier recovery disowned stays on disk, and passes for the
\* signature of a later approval that was refused by the signer and then withdrawn.
ShipNeedsApproval == pc \in {"ship", "committed", "pushed"} => approved \/ orphaned

\* In the production profile a release is finalized only with safety evidence
\* collected after its last build: a rebuild, or scanners that could not decide,
\* never ship on the evidence of an earlier tree (_run_post_build_stages).
ShipNeedsFreshScreening == (Production /\ pc = "ship") => screened

\* A release recorded as shipped belongs to a completed walk with every gate
\* signed; a reopen that was interrupted by a crash leaves it so, a reopen that
\* finished has cleared the record (reopen_gate, _finalize_pending_g5_release).
SucceededIsComplete ==
    disk.fin.status = "succeeded" =>
        /\ disk.status = "complete" /\ disk.gate = Last
        /\ disk.signed = Gate /\ disk.waived = {} /\ disk.conds = {}

\* A gate is open for a verdict only if the last run dispatched for it came to
\* its end (_run_gate, "Fix 1", and the checkpoint of "Fix 6").
OpenOnlyAfterCompletedRun ==
    pc = "idle" /\ mem.status = "awaiting-verdict" => ~abandoned

\* The build runs only while this delivery owns the workspace, and so does every
\* gate run, resumed ones included, with one exception: after a signed release
\* was demoted the lock is gone and the rework of the release gate runs without
\* it (start, resume_delivery, _finalize_pending_g5_release).
UnlockedOnlyAfterDemotion ==
    /\ pc \in {"build", "built"} => locked
    /\ pc = "run" /\ ~locked => mem.gate = Last /\ Last \in mem.signed

\* A signed release that is pending is eventually shipped, or handed back to
\* the founder, unless somebody keeps changing the tree or the branch for ever:
\* crashes, refused pushes and busy finalizers only delay it.
PendingReleaseResolves ==
    \/ []<><<Edit \/ RepoMoves>>_vars
    \/ (disk.status = "complete" /\ disk.fin.status = "pending")
          ~> (disk.fin.status = "succeeded" \/ disk.status # "complete")
=============================================================================
