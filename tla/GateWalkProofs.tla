--------------------------- MODULE GateWalkProofs ---------------------------
(***************************************************************************)
(* Proofs about GateWalk for every number of gates, every set of trees,    *)
(* all budgets, any number of crashes and any interference with the files. *)
(***************************************************************************)
EXTENDS GateWalk, TLAPS

\* Nothing below a signed gate is missing, wherever the current gate is.
Closed(s) == \A g \in s.signed : \A h \in Gate : h < g => h \in s.signed \cup s.waived

\* Between the revocation and the checkpoint of a reopen, and only there, the
\* target is bound to the state the handler decided on.
ReopenPending ==
    pc = "revoked" => target \in mem.signed /\ mem.reopens[target] < MaxReopen

Sound(s) == InOrder(s) /\ Closed(s)

WalkInv == TypeOK /\ ReopenPending /\ Sound(mem) /\ Sound(disk)

\* The verified G4 record and both ends of the release branch name verified trees.
ProofInv == {proof, head, origin} \subseteq verified \cup {NoTree}

\* From the moment release truth is established until the push is over, the
\* persisted state is releasable and names one verified digest.
ShipInv ==
    pc \in {"ship", "committed"} =>
        /\ Releasable(mem) /\ disk = mem
        /\ mem.relv.digest = mem.fin.digest /\ mem.fin.digest \in verified

-----------------------------------------------------------------------------
\* The state a fresh orchestrator derives from the signatures on disk is typed
\* and respects the gate order.
LEMMA FreshIsSound == Fresh \in DState /\ InOrder(Fresh) /\ Closed(Fresh)
<1> USE WalkAssumption DEF Gate, SignedPrefix
<1>1. FirstUnsigned \in Gate /\ \A h \in Gate : h < FirstUnsigned => h \in sigs
  BY DEF FirstUnsigned
<1>2. \A h \in Gate : h < FirstUnsigned => h \in SignedPrefix
  BY <1>1
<1>3. InOrder(Fresh)
  BY <1>2 DEF InOrder, Fresh
<1>4. Closed(Fresh)
  BY DEF Closed, Fresh
<1>5. Fresh \in DState
  BY <1>1 DEF Fresh, DState, Status, Verification, Marker, Digest, NoVerification, NoMarker
<1> QED
  BY <1>3, <1>4, <1>5

\* Every action writes a well-formed DeliveryState to memory and to the
\* checkpoint; the reopen budget needs the binding of its target.
LEMMA StateStep ==
    ASSUME TypeOK, ReopenPending, [Next]_vars
    PROVE  mem' \in DState /\ disk' \in DState
<1>a. mem \in DState /\ disk \in DState
  BY DEF TypeOK
<1>b. CurrentDigest \in Digest
  BY DEF TypeOK, CurrentDigest, Digest
<1>c. mem.gate \in Gate /\ (mem.gate # Last => mem.gate + 1 \in Gate) /\ Last \in Gate
  <2>1. mem.gate \in Gate
    BY <1>a DEF DState
  <2> QED
    BY <2>1, WalkAssumption DEF Gate
<1>d. Signed \in DState
  BY <1>a, <1>c DEF DState, Signed
<1>1. CASE Deliver
  BY <1>a, <1>1, FreshIsSound DEF Deliver
<1>2. CASE RunGate
  <2>1. \A ok \in BOOLEAN : [mem EXCEPT !.status = IF ok THEN "awaiting-verdict" ELSE "blocked",
                                         !.lastOk = ok] \in DState
    BY <1>a DEF DState, Status
  <2> QED
    BY <2>1, <1>2 DEF RunGate, Persist
<1>3. CASE BuildRefused
  <2>1. [mem EXCEPT !.status = "blocked", !.lastOk = FALSE] \in DState
    BY <1>a DEF DState, Status
  <2> QED
    BY <2>1, <1>3 DEF BuildRefused, Persist
<1>4. CASE PrepareBuild
  BY <1>a, <1>4 DEF PrepareBuild, state
<1>5. CASE BuildDone
  BY <1>a, <1>5 DEF BuildDone, state
<1>5a. CASE BuildRecorded
  <2>1. \A ok \in BOOLEAN : [mem EXCEPT !.status = IF ok THEN "awaiting-verdict" ELSE "blocked",
                                         !.lastOk = ok] \in DState
    BY <1>a DEF DState, Status
  <2> QED
    BY <2>1, <1>5a DEF BuildRecorded, Persist
<1>6. CASE ApproveG0
  BY <1>a, <1>6 DEF ApproveG0, state
<1>7. CASE ApproveGate
  BY <1>a, <1>7 DEF ApproveGate, state
<1>8. CASE ApproveBuild
  BY <1>a, <1>8 DEF ApproveBuild, state
<1>9. CASE Scan
  <2>1. /\ \A b \in BOOLEAN : [mem EXCEPT !.safety = b] \in DState
         /\ [mem EXCEPT !.safety = FALSE, !.status = "blocked", !.lastOk = FALSE] \in DState
    BY <1>a DEF DState, Status
  <2> QED
    BY <2>1, <1>9 DEF Scan, Persist, ScanDegraded
<1>10. CASE ApproveRelease
  <2>1. \A rv \in Verification : \A f \in Marker : [mem EXCEPT !.relv = rv, !.fin = f] \in DState
    BY <1>a DEF DState
  <2>2. mem.fin \in Marker
    BY <1>a DEF DState
  <2>3. \A b \in BOOLEAN : [ok |-> b, digest |-> CurrentDigest] \in Verification
    BY <1>b DEF Verification
  <2>4. [status |-> "pending", phase |-> "verified", digest |-> CurrentDigest] \in Marker
    BY <1>b DEF Marker
  <2> DEFINE ready == VerifyG5(mem) /\ ~cond'
  <2>5. ready \in BOOLEAN
    OBVIOUS
  <2> HIDE DEF ready
  <2> QED
    BY <2>1, <2>2, <2>3, <2>4, <2>5, <1>10 DEF ApproveRelease, Persist, ready
<1>11. CASE Sign
  BY <1>a, <1>11 DEF Sign, state
<1>12. CASE Commit
  <2>1. mem.gate # Last => [Signed EXCEPT !.gate = mem.gate + 1, !.status = "active"] \in DState
    BY <1>c, <1>d DEF DState, Status
  <2> QED
    BY <2>1, <1>12 DEF Commit, Persist, Advance
<1>13. CASE CommitRelease
  <2>1. [Signed EXCEPT !.fin.status = "pending", !.fin.phase = "signed", !.status = "complete"] \in DState
    BY <1>d DEF DState, Status, Marker
  <2> QED
    BY <2>1, <1>13 DEF CommitRelease, Persist
<1>14. CASE RequestChanges
  <2>1. mem.rework[mem.gate] < MaxRework => [mem EXCEPT !.rework[mem.gate] = @ + 1] \in DState
    BY <1>a, WalkAssumption DEF DState
  <2>2. [mem EXCEPT !.status = "stopped"] \in DState
    BY <1>a DEF DState, Status
  <2> QED
    BY <1>a, <2>1, <2>2, <1>14 DEF RequestChanges, SendBack, Persist
<1>15. CASE Reject
  <2>1. mem.rejections[mem.gate] < MaxReject => [mem EXCEPT !.rejections[mem.gate] = @ + 1] \in DState
    BY <1>a, WalkAssumption DEF DState
  <2>2. [mem EXCEPT !.status = "stopped"] \in DState
    BY <1>a DEF DState, Status
  <2> QED
    BY <1>a, <2>1, <2>2, <1>15 DEF Reject, SendBack, Persist
<1>16. CASE Waive
  <2> DEFINE s == [mem EXCEPT !.waived = @ \cup {mem.gate}]
  <2>1. mem.gate # Last => [s EXCEPT !.gate = mem.gate + 1] \in DState
    BY <1>a, <1>c DEF DState
  <2>2. [s EXCEPT !.status = "complete", !.relv = NoVerification] \in DState
    BY <1>a DEF DState, Status, Verification, NoVerification, Digest
  <2> QED
    BY <1>a, <2>1, <2>2, <1>16 DEF Waive, Persist
<1>17. ASSUME NEW g \in Gate, Reopen(g) PROVE mem' \in DState /\ disk' \in DState
  BY <1>a, <1>17 DEF Reopen, state
<1>18. CASE ReopenDone
  <2>1. target \in Gate /\ mem.reopens[target] < MaxReopen
    BY <1>a, <1>18 DEF ReopenDone, ReopenPending, DState
  <2>a. NoVerification \in Verification /\ NoMarker \in Marker
    BY DEF NoVerification, NoMarker, Verification, Marker, Digest
  <2>b. [mem.reopens EXCEPT ![target] = @ + 1] \in [Gate -> 0..MaxReopen]
    BY <1>a, <2>1, WalkAssumption DEF DState
  <2>2. \A S \in SUBSET Gate : \A W \in SUBSET Gate : \A b \in BOOLEAN :
           [mem EXCEPT !.signed = S, !.waived = W, !.reopens[target] = @ + 1,
                       !.relv = NoVerification, !.fin = NoMarker, !.safety = b,
                       !.gate = target, !.status = "reopened"] \in DState
    <3> TAKE S \in SUBSET Gate
    <3> TAKE W \in SUBSET Gate
    <3> TAKE b \in BOOLEAN
    <3> DEFINE m == [mem EXCEPT !.signed = S, !.waived = W, !.safety = b,
                                !.gate = target, !.status = "reopened"]
    <3>1. m \in DState /\ m.reopens = mem.reopens
      BY <1>a, <2>1 DEF DState, Status
    <3>2. [m EXCEPT !.reopens = [mem.reopens EXCEPT ![target] = @ + 1],
                    !.relv = NoVerification, !.fin = NoMarker] \in DState
      <4> HIDE DEF m
      <4> QED
        BY <3>1, <2>a, <2>b DEF DState
    <3>3. [m EXCEPT !.reopens = [mem.reopens EXCEPT ![target] = @ + 1],
                    !.relv = NoVerification, !.fin = NoMarker]
           = [mem EXCEPT !.signed = S, !.waived = W, !.reopens[target] = @ + 1,
                         !.relv = NoVerification, !.fin = NoMarker, !.safety = b,
                         !.gate = target, !.status = "reopened"]
      BY <1>a DEF DState
    <3> QED
      BY <3>2, <3>3, Zenon
  <2>3. {h \in mem.signed : h < target} \in SUBSET Gate
    BY <1>a DEF DState
  <2>4. {h \in mem.waived : h <= target \/ h \in mem.signed} \in SUBSET Gate
    BY <1>a DEF DState
  <2>5. (mem.safety /\ target > Build) \in BOOLEAN
    OBVIOUS
  <2>6. Reopened \in DState
    BY <2>2, <2>3, <2>4, <2>5, Zenon DEF Reopened
  <2> QED
    BY <2>6, <1>18 DEF ReopenDone, Persist
<1>19. CASE FinalizerBusy
  BY <1>a, <1>19 DEF FinalizerBusy, state
<1>20. CASE Finalize
  <2>1. \A b \in BOOLEAN : [mem EXCEPT !.relv = [ok |-> b, digest |-> CurrentDigest]] \in DState
    BY <1>a, <1>b DEF DState, Verification
  <2>2. ReleaseTruth(mem) \in BOOLEAN
    BY DEF ReleaseTruth
  <2> QED
    BY <2>1, <2>2, <1>20 DEF Finalize, Persist
<1>21. CASE Demote
  <2>1. [mem EXCEPT !.status = "blocked", !.lastOk = FALSE] \in DState
    BY <1>a DEF DState, Status
  <2> QED
    BY <2>1, <1>21 DEF Demote, Persist
<1>22. CASE StageAndCommit
  BY <1>a, <1>22 DEF StageAndCommit, state
<1>23. CASE Push
  BY <1>a, <1>23 DEF Push, state
<1>24. CASE ShipFails
  BY <1>a, <1>24 DEF ShipFails, state
<1>25. CASE Receipt
  <2>1. \A x \in {"succeeded", "pending"} : [mem EXCEPT !.fin.status = x] \in DState
    BY <1>a DEF DState, Marker
  <2> QED
    BY <2>1, <1>25 DEF Receipt, Persist
<1>26. CASE Resume
  BY <1>a, <1>26 DEF Resume, state
<1>27. CASE ResumeReconciled
  <2>1. [disk EXCEPT !.signed = @ \cup {Last}, !.status = "complete", !.fin.phase = "signed"] \in DState
    BY <1>a, <1>c DEF DState, Status, Marker
  <2> QED
    BY <2>1, <1>27 DEF ResumeReconciled, Persist
<1>28. CASE ResumeRefused
  <2>1. [disk EXCEPT !.fin.status = "failed",
                     !.relv = [ok |-> FALSE, digest |-> CurrentDigest]] \in DState
    BY <1>a, <1>b DEF DState, Marker, Verification
  <2> QED
    BY <2>1, <1>28 DEF ResumeRefused, Persist
<1>29. CASE ResumeComplete
  BY <1>a, <1>29 DEF ResumeComplete, state
<1>30. CASE Recheck
  <2>1. \A b \in BOOLEAN : [mem EXCEPT !.relv = [ok |-> b, digest |-> CurrentDigest]] \in DState
    BY <1>a, <1>b DEF DState, Verification
  <2>2. RecheckTruth(mem) \in BOOLEAN
    BY DEF RecheckTruth
  <2> QED
    BY <2>1, <2>2, <1>30 DEF Recheck, Persist
<1>31. CASE Crash
  BY <1>a, <1>31 DEF Crash
<1>32. CASE Edit
  BY <1>a, <1>32 DEF Edit, state
<1>33. ASSUME NEW g \in Gate, Drift(g) PROVE mem' \in DState /\ disk' \in DState
  BY <1>a, <1>33 DEF Drift, state
<1>34. CASE RepoMoves
  BY <1>a, <1>34 DEF RepoMoves, state
<1>35. CASE FounderG0
  BY <1>a, <1>35 DEF FounderG0, state
<1>36. CASE UNCHANGED vars
  BY <1>a, <1>36 DEF vars
<1> QED
  BY <1>1, <1>2, <1>3, <1>4, <1>5, <1>5a, <1>6, <1>7, <1>8, <1>9, <1>10, <1>11,
     <1>12, <1>13, <1>14, <1>15, <1>16, <1>17, <1>18, <1>19, <1>20, <1>21,
     <1>22, <1>23, <1>24, <1>25, <1>26, <1>27, <1>28, <1>29, <1>30, <1>31,
     <1>32, <1>33, <1>34, <1>35, <1>36 DEF Next, Handler, Founder,
     Environment

\* The other variables: every action of the walk keeps the whole state typed.
LEMMA TypeStep == TypeOK /\ ReopenPending /\ [Next]_vars => TypeOK'
<1> SUFFICES ASSUME TypeOK, ReopenPending, [Next]_vars PROVE TypeOK'
  OBVIOUS
<1>a. mem' \in DState /\ disk' \in DState
  BY StateStep
<1>b. mem.gate \in Gate /\ mem.fin.digest \in Digest
  BY DEF TypeOK, DState, Marker
<1>c. 0 \in Gate
  BY WalkAssumption DEF Gate
<1> USE <1>a DEF TypeOK, PCs, Digest, Persist, Dispatch, Leave
<1> USE DEF args, files, repo, audit, history, state
<1>1. CASE Deliver
  BY <1>1 DEF Deliver
<1>2. CASE RunGate
  BY <1>2 DEF RunGate
<1>3. CASE BuildRefused
  BY <1>3 DEF BuildRefused
<1>4. CASE PrepareBuild
  BY <1>4 DEF PrepareBuild
<1>5. CASE BuildDone
  <2>1. /\ pc' \in PCs /\ tree' \in Trees /\ proof' \in Digest /\ verified' \subseteq Trees
        /\ UNCHANGED <<mem, disk, saved, cond, target, via, locked, sigs, head, origin, report, crashes,
                       abandoned, approved, orphaned>>
    BY <1>5 DEF BuildDone
  <2>2. screened' \in BOOLEAN
    BY <1>5 DEF BuildDone
  <2> QED
    BY <2>1, <2>2
<1>5a. CASE BuildRecorded
  BY <1>5a DEF BuildRecorded
<1>6. CASE ApproveG0
  <2>1. cond' \in BOOLEAN
    BY <1>6 DEF ApproveG0, ApproveVerdict
  <2> QED
    BY <2>1, <1>6 DEF ApproveG0
<1>7. CASE ApproveGate
  <2>1. cond' \in BOOLEAN
    BY <1>7 DEF ApproveGate, ApproveVerdict
  <2> QED
    BY <2>1, <1>7 DEF ApproveGate
<1>8. CASE ApproveBuild
  <2>1. cond' \in BOOLEAN
    BY <1>8 DEF ApproveBuild, ApproveVerdict
  <2> QED
    BY <2>1, <1>8 DEF ApproveBuild
<1>9. CASE Scan
  <2>1. saved' \in BOOLEAN /\ screened' \in BOOLEAN /\ pc' \in PCs
    BY <1>9 DEF Scan, ScanDegraded
  <2> QED
    BY <2>1, <1>9 DEF Scan
<1>10. CASE ApproveRelease
  BY <1>10 DEF ApproveRelease, ApproveVerdict
<1>11. CASE Sign
  <2>1. sigs' \subseteq Gate /\ pc' \in PCs
    BY <1>11, <1>b DEF Sign
  <2> QED
    BY <2>1, <1>11 DEF Sign
<1>12. CASE Commit
  BY <1>12 DEF Commit, Advance
<1>13. CASE CommitRelease
  BY <1>13 DEF CommitRelease
<1>14. CASE RequestChanges
  <2>1. saved' \in BOOLEAN /\ abandoned' \in BOOLEAN /\ locked' \in BOOLEAN /\ pc' \in PCs
    BY <1>14 DEF RequestChanges, SendBack
  <2>2. approved' \in BOOLEAN
    BY <1>14 DEF RequestChanges, SendBack
  <2> QED
    BY <2>1, <2>2, <1>14 DEF RequestChanges, SendBack
<1>15. CASE Reject
  <2>1. saved' \in BOOLEAN /\ abandoned' \in BOOLEAN /\ locked' \in BOOLEAN /\ pc' \in PCs
    BY <1>15 DEF Reject, SendBack
  <2>2. approved' \in BOOLEAN
    BY <1>15 DEF Reject, SendBack
  <2> QED
    BY <2>1, <2>2, <1>15 DEF Reject, SendBack
<1>16. CASE Waive
  <2>1. saved' \in BOOLEAN /\ abandoned' \in BOOLEAN /\ locked' \in BOOLEAN /\ approved' \in BOOLEAN
    BY <1>16 DEF Waive
  <2>2. pc' \in PCs /\ report' \in {"none", "ready", "not-ready"}
    BY <1>16 DEF Waive
  <2> QED
    BY <2>1, <2>2, <1>16 DEF Waive
<1>17. ASSUME NEW g \in Gate, Reopen(g) PROVE TypeOK'
  BY <1>17 DEF Reopen, RevokeFrom
<1>18. CASE ReopenDone
  <2>1. pc' \in PCs /\ locked' \in BOOLEAN /\ saved' \in BOOLEAN
    BY <1>18 DEF ReopenDone
  <2> QED
    BY <2>1, <1>18 DEF ReopenDone
<1>19. CASE FinalizerBusy
  BY <1>19 DEF FinalizerBusy
<1>20. CASE Finalize
  BY <1>20 DEF Finalize
<1>21. CASE Demote
  BY <1>21 DEF Demote
<1>22. CASE StageAndCommit
  BY <1>22, <1>b DEF StageAndCommit, CommitTree
<1>23. CASE Push
  BY <1>23, <1>b DEF Push
<1>24. CASE ShipFails
  BY <1>24 DEF ShipFails
<1>25. CASE Receipt
  BY <1>25 DEF Receipt
<1>26. CASE Resume
  BY <1>26 DEF Resume, Resuming, Park
<1>27. CASE ResumeReconciled
  BY <1>27 DEF ResumeReconciled, Resuming
<1>28. CASE ResumeRefused
  BY <1>28 DEF ResumeRefused, Resuming, Park
<1>29. CASE ResumeComplete
  BY <1>29 DEF ResumeComplete, Resuming
<1>30. CASE Recheck
  <2>1. pc' \in PCs /\ locked' \in BOOLEAN /\ saved' \in BOOLEAN
    BY <1>30 DEF Recheck
  <2>2. report' \in {"none", "ready", "not-ready"}
    BY <1>30 DEF Recheck
  <2> QED
    BY <2>1, <2>2, <1>30 DEF Recheck
<1>31. CASE Crash
  <2>1. crashes' \in 0..MaxCrash
    BY <1>31, WalkAssumption DEF Crash
  <2> QED
    BY <2>1, <1>31 DEF Crash
<1>32. CASE Edit
  BY <1>32 DEF Edit
<1>33. ASSUME NEW g \in Gate, Drift(g) PROVE TypeOK'
  BY <1>33 DEF Drift
<1>34. CASE RepoMoves
  BY <1>34 DEF RepoMoves
<1>35. CASE FounderG0
  BY <1>35, <1>c DEF FounderG0
<1>36. CASE UNCHANGED vars
  BY <1>36 DEF vars
<1> QED
  BY <1>1, <1>2, <1>3, <1>4, <1>5, <1>5a, <1>6, <1>7, <1>8, <1>9, <1>10, <1>11,
     <1>12, <1>13, <1>14, <1>15, <1>16, <1>17, <1>18, <1>19, <1>20, <1>21,
     <1>22, <1>23, <1>24, <1>25, <1>26, <1>27, <1>28, <1>29, <1>30, <1>31,
     <1>32, <1>33, <1>34, <1>35, <1>36 DEF Next, Handler, Founder,
     Environment

-----------------------------------------------------------------------------
SameWalk(s, t) == t.gate = s.gate /\ t.signed = s.signed /\ t.waived = s.waived

\* A handler that leaves gate, signed and waived alone cannot break the order.
LEMMA SameIsSound ==
    ASSUME NEW s, NEW t, Sound(s), SameWalk(s, t)
    PROVE  Sound(t)
BY DEF Sound, SameWalk, InOrder, Closed

\* Adding a signature of the current gate keeps everything below it covered.
LEMMA SigningIsSound ==
    ASSUME NEW s, NEW t, Sound(s), s.gate \in Gate,
           t.signed = s.signed \cup {s.gate}, t.waived = s.waived,
           t.gate \in {s.gate, s.gate + 1}
    PROVE  Sound(t)
BY WalkAssumption DEF Sound, InOrder, Closed, Gate

\* A waiver of the current gate covers it like a signature does.
LEMMA WaivingIsSound ==
    ASSUME NEW s, NEW t, Sound(s), s.gate \in Gate,
           t.signed = s.signed, t.waived = s.waived \cup {s.gate},
           t.gate \in {s.gate, s.gate + 1}
    PROVE  Sound(t)
BY WalkAssumption DEF Sound, InOrder, Closed, Gate

\* The cascade of a reopen: what is left below the target still covers it.
LEMMA CascadeIsSound ==
    ASSUME NEW s, NEW t, NEW g \in s.signed, Sound(s), s.signed \subseteq Gate,
           t.signed = {h \in s.signed : h < g},
           t.waived = {h \in s.waived : h <= g \/ h \in s.signed}, t.gate = g
    PROVE  Sound(t)
BY WalkAssumption DEF Sound, InOrder, Closed, Gate

\* Every action keeps the gate order, in memory and in the checkpoint.
LEMMA SoundStep ==
    ASSUME WalkInv, [Next]_vars
    PROVE  Sound(mem') /\ Sound(disk')
<1>a. Sound(mem) /\ Sound(disk)
  BY DEF WalkInv
<1>b. mem \in DState /\ disk \in DState /\ mem.gate \in Gate /\ mem.signed \subseteq Gate
  BY DEF WalkInv, TypeOK, DState
<1>1. CASE Deliver
  BY <1>a, <1>1, FreshIsSound DEF Deliver, Sound
<1>2. CASE RunGate
  <2>1. SameWalk(mem, mem') /\ disk' = mem'
    BY <1>b, <1>2 DEF RunGate, Persist, DState, SameWalk
  <2> QED
    BY <1>a, <2>1, SameIsSound
<1>3. CASE BuildRefused
  <2>1. SameWalk(mem, mem') /\ disk' = mem'
    BY <1>b, <1>3 DEF BuildRefused, Persist, DState, SameWalk
  <2> QED
    BY <1>a, <2>1, SameIsSound
<1>4. CASE PrepareBuild
  BY <1>a, <1>4 DEF PrepareBuild, state
<1>5. CASE BuildDone
  BY <1>a, <1>5 DEF BuildDone, state
<1>5a. CASE BuildRecorded
  <2>1. SameWalk(mem, mem') /\ disk' = mem'
    BY <1>b, <1>5a DEF BuildRecorded, Persist, DState, SameWalk
  <2> QED
    BY <1>a, <2>1, SameIsSound
<1>6. CASE ApproveG0
  BY <1>a, <1>6 DEF ApproveG0, state
<1>7. CASE ApproveGate
  BY <1>a, <1>7 DEF ApproveGate, state
<1>8. CASE ApproveBuild
  BY <1>a, <1>8 DEF ApproveBuild, state
<1>9. CASE Scan
  <2>1. SameWalk(mem, mem') /\ disk' = mem'
    BY <1>b, <1>9 DEF Scan, Persist, ScanDegraded, DState, SameWalk
  <2> QED
    BY <1>a, <2>1, SameIsSound
<1>10. CASE ApproveRelease
  <2>1. SameWalk(mem, mem') /\ disk' = mem'
    BY <1>b, <1>10 DEF ApproveRelease, Persist, DState, SameWalk
  <2> QED
    BY <1>a, <2>1, SameIsSound
<1>11. CASE Sign
  BY <1>a, <1>11 DEF Sign, state
<1>12. CASE Commit
  <2>1. /\ mem'.signed = mem.signed \cup {mem.gate} /\ mem'.waived = mem.waived
        /\ mem'.gate = mem.gate + 1 /\ disk' = mem'
    BY <1>b, <1>12 DEF Commit, Advance, Signed, Persist, DState
  <2> QED
    BY <1>a, <1>b, <2>1, SigningIsSound
<1>13. CASE CommitRelease
  <2>1. /\ mem'.signed = mem.signed \cup {mem.gate} /\ mem'.waived = mem.waived
        /\ mem'.gate = mem.gate /\ disk' = mem'
    BY <1>b, <1>13 DEF CommitRelease, Signed, Persist, DState
  <2> QED
    BY <1>a, <1>b, <2>1, SigningIsSound
<1>14. CASE RequestChanges
  <2>1. SameWalk(mem, mem') /\ disk' \in {mem', disk}
    BY <1>b, <1>14 DEF RequestChanges, SendBack, Persist, DState, SameWalk
  <2> QED
    BY <1>a, <2>1, SameIsSound
<1>15. CASE Reject
  <2>1. SameWalk(mem, mem') /\ disk' \in {mem', disk}
    BY <1>b, <1>15 DEF Reject, SendBack, Persist, DState, SameWalk
  <2> QED
    BY <1>a, <2>1, SameIsSound
<1>16. CASE Waive
  <2>1. /\ mem'.signed = mem.signed /\ mem'.waived = mem.waived \cup {mem.gate}
        /\ mem'.gate \in {mem.gate, mem.gate + 1} /\ disk' \in {mem', disk}
    BY <1>b, <1>16 DEF Waive, Persist, DState
  <2> QED
    BY <1>a, <1>b, <2>1, WaivingIsSound
<1>17. ASSUME NEW g \in Gate, Reopen(g) PROVE Sound(mem') /\ Sound(disk')
  BY <1>a, <1>17 DEF Reopen, state
<1>18. CASE ReopenDone
  <2>1. target \in mem.signed
    BY <1>18 DEF ReopenDone, WalkInv, ReopenPending
  <2>2. /\ mem'.signed = {h \in mem.signed : h < target}
        /\ mem'.waived = {h \in mem.waived : h <= target \/ h \in mem.signed}
        /\ mem'.gate = target /\ disk' = mem'
    BY <1>b, <1>18 DEF ReopenDone, Reopened, Persist, DState
  <2> QED
    BY <1>a, <1>b, <2>1, <2>2, CascadeIsSound
<1>19. CASE FinalizerBusy
  BY <1>a, <1>19 DEF FinalizerBusy, state
<1>20. CASE Finalize
  <2>1. SameWalk(mem, mem') /\ disk' = mem'
    BY <1>b, <1>20 DEF Finalize, Persist, DState, SameWalk
  <2> QED
    BY <1>a, <2>1, SameIsSound
<1>21. CASE Demote
  <2>1. SameWalk(mem, mem') /\ disk' = mem'
    BY <1>b, <1>21 DEF Demote, Persist, DState, SameWalk
  <2> QED
    BY <1>a, <2>1, SameIsSound
<1>22. CASE StageAndCommit
  BY <1>a, <1>22 DEF StageAndCommit, state
<1>23. CASE Push
  BY <1>a, <1>23 DEF Push, state
<1>24. CASE ShipFails
  BY <1>a, <1>24 DEF ShipFails, state
<1>25. CASE Receipt
  <2>1. SameWalk(mem, mem') /\ disk' = mem'
    BY <1>b, <1>25 DEF Receipt, Persist, DState, SameWalk
  <2> QED
    BY <1>a, <2>1, SameIsSound
<1>26. CASE Resume
  BY <1>a, <1>26 DEF Resume, state
<1>27. CASE ResumeReconciled
  <2>1. disk.gate = Last /\ disk.gate \in Gate
    BY <1>b, <1>27 DEF ResumeReconciled, Reconcilable, DState
  <2>2. /\ mem'.signed = disk.signed \cup {disk.gate} /\ mem'.waived = disk.waived
        /\ mem'.gate = disk.gate /\ disk' = mem'
    BY <1>b, <2>1, <1>27 DEF ResumeReconciled, Persist, DState
  <2> QED
    BY <1>a, <2>1, <2>2, SigningIsSound
<1>28. CASE ResumeRefused
  <2>1. SameWalk(disk, mem') /\ disk' = mem'
    BY <1>b, <1>28 DEF ResumeRefused, Persist, DState, SameWalk
  <2> QED
    BY <1>a, <2>1, SameIsSound
<1>29. CASE ResumeComplete
  BY <1>a, <1>29 DEF ResumeComplete, state
<1>30. CASE Recheck
  <2>1. SameWalk(mem, mem') /\ disk' = mem'
    BY <1>b, <1>30 DEF Recheck, Persist, DState, SameWalk
  <2> QED
    BY <1>a, <2>1, SameIsSound
<1>31. CASE Crash
  BY <1>a, <1>31 DEF Crash
<1>32. CASE Edit
  BY <1>a, <1>32 DEF Edit, state
<1>33. ASSUME NEW g \in Gate, Drift(g) PROVE Sound(mem') /\ Sound(disk')
  BY <1>a, <1>33 DEF Drift, state
<1>34. CASE RepoMoves
  BY <1>a, <1>34 DEF RepoMoves, state
<1>35. CASE FounderG0
  BY <1>a, <1>35 DEF FounderG0, state
<1>36. CASE UNCHANGED vars
  BY <1>a, <1>36 DEF vars
<1> QED
  BY <1>1, <1>2, <1>3, <1>4, <1>5, <1>5a, <1>6, <1>7, <1>8, <1>9, <1>10, <1>11,
     <1>12, <1>13, <1>14, <1>15, <1>16, <1>17, <1>18, <1>19, <1>20, <1>21,
     <1>22, <1>23, <1>24, <1>25, <1>26, <1>27, <1>28, <1>29, <1>30, <1>31,
     <1>32, <1>33, <1>34, <1>35, <1>36 DEF Next, Handler, Founder,
     Environment

\* A reopen that revoked signatures owns the state until its checkpoint: only
\* edits of the files can come in between.
LEMMA ReopenStep ==
    ASSUME TypeOK, ReopenPending, [Next]_vars
    PROVE  ReopenPending'
<1>1. ASSUME NEW g \in Gate, Reopen(g) PROVE ReopenPending'
  BY <1>1 DEF Reopen, ReopenPending, state
<1>2. CASE Edit \/ RepoMoves \/ UNCHANGED vars
  BY <1>2 DEF Edit, RepoMoves, ReopenPending, state, args, vars
<1>3. ASSUME NEW g \in Gate, Drift(g) PROVE ReopenPending'
  BY <1>3 DEF Drift, ReopenPending, state, args
<1> USE DEF ReopenPending, Dispatch, Leave
<1>4. CASE Handler
  BY <1>4
  DEF Handler, RunGate, BuildRefused, PrepareBuild, BuildDone, BuildRecorded, Scan, Sign,
      Commit, CommitRelease, ReopenDone, FinalizerBusy, Finalize, Demote,
      StageAndCommit, Push, ShipFails, Receipt, Recheck
<1>5. CASE FounderG0
  BY <1>5 DEF FounderG0
<1>6. CASE Deliver \/ ApproveG0 \/ ApproveGate \/ ApproveBuild \/ ApproveRelease
  BY <1>6 DEF Deliver, ApproveG0, ApproveGate, ApproveBuild, ApproveRelease
<1>7. CASE RequestChanges \/ Reject \/ Waive
  BY <1>7 DEF RequestChanges, Reject, SendBack, Waive
<1>8. CASE Resume \/ ResumeReconciled \/ ResumeRefused \/ ResumeComplete
  BY <1>8 DEF Resume, ResumeReconciled, ResumeRefused, ResumeComplete, Resuming, Park
<1>9. CASE Crash
  BY <1>9 DEF Crash
<1> QED
  BY <1>1, <1>2, <1>3, <1>4, <1>5, <1>6, <1>7, <1>8, <1>9 DEF Next, Founder, Environment

\* The inductive invariant behind both theorems below.
LEMMA WalkInvariant == Spec => []WalkInv
<1>1. Init => WalkInv
  <2> SUFFICES ASSUME Init PROVE WalkInv
    OBVIOUS
  <2>1. ReopenPending /\ Sound(mem) /\ Sound(disk)
    BY FreshIsSound DEF Init, ReopenPending, Sound
  <2>2. 0 \in Gate /\ 0 \in 0..MaxCrash
    BY WalkAssumption DEF Gate
  <2>3. TypeOK
    BY <2>2, FreshIsSound DEF Init, TypeOK, PCs, Digest
  <2> QED
    BY <2>1, <2>3 DEF WalkInv
<1>2. WalkInv /\ [Next]_vars => WalkInv'
  BY TypeStep, SoundStep, ReopenStep DEF WalkInv
<1> QED
  BY <1>1, <1>2, PTL DEF Spec

\* Type correctness of one delivery: the counters of _rework, rejections and
\* reopens stay within their budgets and the gate within the walk.
THEOREM TypeCorrect == Spec => []TypeOK
BY WalkInvariant, PTL DEF WalkInv

\* For every number of gates and every budget, with crashes between any two
\* durable effects: no gate below the current one is unsigned and unwaived, in
\* memory and in delivery.json (apply_verdict, reopen_gate, resume_delivery).
THEOREM NoGateSkipped == Spec => []WalkInOrder
<1>1. WalkInv => WalkInOrder
  BY DEF WalkInv, Sound, WalkInOrder
<1> QED
  BY WalkInvariant, <1>1, PTL

-----------------------------------------------------------------------------
\* What the finalizer established when it went on to ship: the release truth of
\* the state it persisted, on a tree that the G4 record binds.
LEMMA TruthIsReleasable ==
    ASSUME TypeOK, ProofInv, ReleaseTruth(mem)
    PROVE  Releasable(mem) /\ CurrentDigest = mem.fin.digest /\ mem.fin.digest \in verified
<1>1. mem.signed = Gate
  BY DEF TypeOK, DState, ReleaseTruth, VerifyCompleted
<1>2. mem.waived = {} /\ mem.conds = {} /\ SafetyOk(mem) /\ BuildProven
  BY DEF ReleaseTruth, VerifyCompleted, VerifyG5
<1>3. CurrentDigest = proof /\ proof # NoTree
  BY <1>2 DEF CurrentDigest, BuildProven
<1>4. mem.fin.digest = proof
  BY <1>3 DEF ReleaseTruth, MarkerOk
<1> QED
  BY <1>1, <1>2, <1>3, <1>4 DEF Releasable, ProofInv

\* The release branch moves only in the finalizer; the record is bound only to
\* a tree that has just passed the check.
LEMMA ProofStep ==
    ASSUME TypeOK, ProofInv, ShipInv, [Next]_vars
    PROVE  ProofInv'
<1> USE DEF ProofInv, files, repo, audit, history
<1>1. CASE PrepareBuild
  BY <1>1 DEF PrepareBuild
<1>2. CASE BuildDone
  BY <1>2 DEF BuildDone
<1>3. CASE StageAndCommit
  <2>1. head' = mem.fin.digest /\ mem.fin.digest \in verified
    BY <1>3 DEF StageAndCommit, CommitTree, ShipInv
  <2> QED
    BY <2>1, <1>3 DEF StageAndCommit
<1>4. CASE Push
  <2>1. origin' = mem.fin.digest /\ mem.fin.digest \in verified
    BY <1>4 DEF Push, ShipInv
  <2> QED
    BY <2>1, <1>4 DEF Push
<1>5. CASE RepoMoves
  BY <1>5 DEF RepoMoves
<1>6. ASSUME UNCHANGED <<proof, head, origin, verified>> PROVE ProofInv'
  BY <1>6
<1>7. ASSUME NEW g \in Gate, Reopen(g) \/ Drift(g) PROVE ProofInv'
  BY <1>6, <1>7 DEF Reopen, Drift
<1>8. CASE Handler /\ ~(PrepareBuild \/ BuildDone \/ StageAndCommit \/ Push)
  BY <1>6, <1>8
  DEF Handler, RunGate, BuildRefused, BuildRecorded, Scan, Sign, Commit, CommitRelease, ReopenDone,
      FinalizerBusy, Finalize, Demote, ShipFails, Receipt, Recheck
<1>9. CASE Deliver \/ FounderG0 \/ ApproveG0 \/ ApproveGate \/ ApproveBuild \/ ApproveRelease
  BY <1>6, <1>9 DEF Deliver, FounderG0, ApproveG0, ApproveGate, ApproveBuild, ApproveRelease
<1>10. CASE RequestChanges \/ Reject \/ Waive
  BY <1>6, <1>10 DEF RequestChanges, Reject, SendBack, Waive
<1>11. CASE Resume \/ ResumeReconciled \/ ResumeRefused \/ ResumeComplete
  BY <1>6, <1>11 DEF Resume, ResumeReconciled, ResumeRefused, ResumeComplete
<1>12. CASE Crash \/ Edit \/ UNCHANGED vars
  BY <1>6, <1>12 DEF Crash, Edit, vars
<1> QED
  BY <1>1, <1>2, <1>3, <1>4, <1>5, <1>7, <1>8, <1>9, <1>10, <1>11, <1>12
  DEF Next, Founder, Environment

\* Only Finalize begins to ship, and nothing but edits of the files can come
\* between its checkpoint, the commit and the push.
LEMMA ShipStep ==
    ASSUME TypeOK, ProofInv, ShipInv, [Next]_vars
    PROVE  ShipInv'
<1>1. CASE Finalize
  <2> SUFFICES ASSUME pc' = "ship" PROVE ShipInv'
    BY <1>1 DEF Finalize, ShipInv
  <2>1. ReleaseTruth(mem)
    BY <1>1 DEF Finalize
  <2>2. Releasable(mem) /\ CurrentDigest = mem.fin.digest /\ mem.fin.digest \in verified
    BY <2>1, TruthIsReleasable
  <2>3. /\ mem'.signed = mem.signed /\ mem'.waived = mem.waived /\ mem'.conds = mem.conds
        /\ mem'.safety = mem.safety /\ mem'.fin = mem.fin
        /\ mem'.relv.digest = CurrentDigest /\ disk' = mem'
    BY <1>1 DEF TypeOK, DState, Finalize, Persist
  <2>4. verified' = verified
    BY <1>1 DEF Finalize, history
  <2> QED
    BY <2>2, <2>3, <2>4 DEF ShipInv, Releasable, SafetyOk
<1>2. ASSUME pc' \in {"ship", "committed"} => pc \in {"ship", "committed"},
             UNCHANGED <<mem, disk, verified>>
      PROVE  ShipInv'
  BY <1>2 DEF ShipInv, Releasable, SafetyOk
<1>3. CASE StageAndCommit \/ Edit \/ RepoMoves \/ UNCHANGED vars
  BY <1>2, <1>3 DEF StageAndCommit, Edit, RepoMoves, vars, state, history
<1>4. ASSUME NEW g \in Gate, Drift(g) PROVE ShipInv'
  BY <1>2, <1>4 DEF Drift, state, history
<1>5. ASSUME pc' \notin {"ship", "committed"} PROVE ShipInv'
  BY <1>5 DEF ShipInv
<1> USE DEF Dispatch, Leave
<1>6. ASSUME NEW g \in Gate, Reopen(g) PROVE ShipInv'
  BY <1>5, <1>6 DEF Reopen
<1>7. CASE Handler /\ ~(Finalize \/ StageAndCommit)
  BY <1>5, <1>7
  DEF Handler, RunGate, BuildRefused, PrepareBuild, BuildDone, BuildRecorded, Scan, Sign, Commit,
      CommitRelease, ReopenDone, FinalizerBusy, Demote, Push, ShipFails, Receipt, Recheck
<1>8. CASE Deliver \/ FounderG0 \/ ApproveG0 \/ ApproveGate \/ ApproveBuild \/ ApproveRelease
  BY <1>5, <1>8 DEF Deliver, FounderG0, ApproveG0, ApproveGate, ApproveBuild, ApproveRelease
<1>9. CASE RequestChanges \/ Reject \/ Waive
  BY <1>5, <1>9 DEF RequestChanges, Reject, SendBack, Waive
<1>10. CASE Resume \/ ResumeReconciled \/ ResumeRefused \/ ResumeComplete
  BY <1>5, <1>10 DEF Resume, ResumeReconciled, ResumeRefused, ResumeComplete, Park
<1>11. CASE Crash
  BY <1>5, <1>11 DEF Crash
<1> QED
  BY <1>1, <1>3, <1>4, <1>6, <1>7, <1>8, <1>9, <1>10, <1>11 DEF Next, Founder, Environment

LEMMA ShipInvariant == Spec => [](TypeOK /\ ProofInv /\ ShipInv)
<1>1. Init => ProofInv /\ ShipInv
  BY DEF Init, ProofInv, ShipInv
<1>2. TypeOK /\ ProofInv /\ ShipInv /\ [Next]_vars => ProofInv' /\ ShipInv'
  BY ProofStep, ShipStep
<1> QED
  BY TypeCorrect, <1>1, <1>2, PTL DEF Spec

\* Whatever is edited, and whenever the sidecar dies: HEAD and the remote
\* branch only ever hold trees that passed the independent build check
\* (_verify_g4_build, _stage_and_commit_for_release).
THEOREM ShipsOnlyVerified == Spec => []OnlyVerifiedTreesShip
<1>1. ProofInv => OnlyVerifiedTreesShip
  BY DEF ProofInv, OnlyVerifiedTreesShip
<1> QED
  BY ShipInvariant, <1>1, PTL

\* Every push of every delivery ships a fully signed, unwaived, unconditional
\* walk with its safety evidence, and exactly the digest that was made durable
\* before the first side effect (_finalize_pending_g5_release).
THEOREM ShipsOnlyReleasable == Spec => ShipOnlyReleasable
<1> DEFINE Step == pc = "committed" /\ pc' = "pushed" => Releasable(mem) /\ origin' = disk.relv.digest
<1>1. TypeOK /\ ShipInv /\ [Next]_vars => [Step]_vars
  <2> SUFFICES ASSUME ShipInv, [Next]_vars, pc = "committed", pc' = "pushed"
               PROVE  Releasable(mem) /\ origin' = disk.relv.digest
    OBVIOUS
  <2>1. Push
    <3>1. CASE Handler
      BY <3>1
      DEF Handler, RunGate, BuildRefused, PrepareBuild, BuildDone, BuildRecorded, Scan, Sign, Commit,
          CommitRelease, ReopenDone, FinalizerBusy, Finalize, Demote, StageAndCommit,
          ShipFails, Receipt, Recheck
    <3>2. CASE Founder
      BY <3>2
      DEF Founder, Deliver, FounderG0, ApproveG0, ApproveGate, ApproveBuild, ApproveRelease,
          ApproveVerdict, Verdict, RequestChanges, Reject, Waive, Reopen,
          Resume, ResumeReconciled, ResumeRefused, ResumeComplete, Resuming
    <3>3. CASE Environment \/ UNCHANGED vars
      BY <3>3 DEF Environment, Crash, Edit, Drift, RepoMoves, vars
    <3> QED
      BY <3>1, <3>2, <3>3 DEF Next
  <2> QED
    BY <2>1 DEF Push, ShipInv
<1> QED
  BY ShipInvariant, <1>1, PTL DEF Spec, ShipOnlyReleasable

-----------------------------------------------------------------------------
(* Memory and checkpoint                                                   *)

\* Memory differs from the checkpoint only while a gate run is under way.
Synced == pc \notin {"run", "build", "built"} => mem = disk

\* A handler either persists what it computed or leaves both alone; a crash
\* falls back to the checkpoint.
LEMMA SyncedStep == ASSUME Synced, [Next]_vars PROVE Synced'
<1> USE DEF Synced, Persist, Dispatch, Leave, state
<1>1. CASE Deliver
  BY <1>1 DEF Deliver
<1>2. CASE RunGate
  BY <1>2 DEF RunGate
<1>3. CASE BuildRefused
  BY <1>3 DEF BuildRefused
<1>4. CASE PrepareBuild
  BY <1>4 DEF PrepareBuild
<1>5. CASE BuildDone
  BY <1>5 DEF BuildDone
<1>5a. CASE BuildRecorded
  BY <1>5a DEF BuildRecorded
<1>6. CASE ApproveG0
  BY <1>6 DEF ApproveG0, ApproveVerdict, Verdict
<1>7. CASE ApproveGate
  BY <1>7 DEF ApproveGate, ApproveVerdict, Verdict
<1>8. CASE ApproveBuild
  BY <1>8 DEF ApproveBuild, ApproveVerdict, Verdict
<1>9. CASE Scan
  <2> HIDE DEF Persist
  <2>1. \E s : Persist(s)
    BY <1>9, Zenon DEF Scan, ScanDegraded
  <2>2. mem' = disk'
    BY <2>1 DEF Persist
  <2> QED
    BY <2>2
<1>10. CASE ApproveRelease
  BY <1>10 DEF ApproveRelease, ApproveVerdict, Verdict
<1>11. CASE Sign
  BY <1>11 DEF Sign
<1>12. CASE Commit
  BY <1>12 DEF Commit, Advance, Signed
<1>13. CASE CommitRelease
  BY <1>13 DEF CommitRelease, Signed
<1>14. CASE RequestChanges
  BY <1>14 DEF RequestChanges, SendBack, Verdict
<1>15. CASE Reject
  BY <1>15 DEF Reject, SendBack, Verdict
<1>16. CASE Waive
  BY <1>16 DEF Waive, Verdict
<1>17. ASSUME NEW g \in Gate, Reopen(g) PROVE Synced'
  BY <1>17 DEF Reopen
<1>18. CASE ReopenDone
  BY <1>18 DEF ReopenDone, Reopened
<1>19. CASE FinalizerBusy
  BY <1>19 DEF FinalizerBusy
<1>20. CASE Finalize
  BY <1>20 DEF Finalize
<1>21. CASE Demote
  BY <1>21 DEF Demote
<1>22. CASE StageAndCommit
  BY <1>22 DEF StageAndCommit
<1>23. CASE Push
  BY <1>23 DEF Push
<1>24. CASE ShipFails
  BY <1>24 DEF ShipFails
<1>25. CASE Receipt
  BY <1>25 DEF Receipt
<1>26. CASE Resume
  BY <1>26 DEF Resume, Resuming, Park
<1>27. CASE ResumeReconciled
  BY <1>27 DEF ResumeReconciled, Resuming
<1>28. CASE ResumeRefused
  BY <1>28 DEF ResumeRefused, Resuming, Park
<1>29. CASE ResumeComplete
  BY <1>29 DEF ResumeComplete, Resuming
<1>30. CASE Recheck
  BY <1>30 DEF Recheck
<1>31. CASE Crash
  BY <1>31 DEF Crash
<1>32. CASE Edit
  BY <1>32 DEF Edit
<1>33. ASSUME NEW g \in Gate, Drift(g) PROVE Synced'
  BY <1>33 DEF Drift
<1>34. CASE RepoMoves
  BY <1>34 DEF RepoMoves
<1>35. CASE FounderG0
  BY <1>35 DEF FounderG0
<1>36. CASE UNCHANGED vars
  BY <1>36 DEF vars
<1> QED
  BY <1>1, <1>2, <1>3, <1>4, <1>5, <1>5a, <1>6, <1>7, <1>8, <1>9, <1>10, <1>11,
     <1>12, <1>13, <1>14, <1>15, <1>16, <1>17, <1>18, <1>19, <1>20, <1>21,
     <1>22, <1>23, <1>24, <1>25, <1>26, <1>27, <1>28, <1>29, <1>30, <1>31,
     <1>32, <1>33, <1>34, <1>35, <1>36 DEF Next, Handler, Founder,
     Environment

-----------------------------------------------------------------------------
(* The delivery lock                                                       *)

\* The release gate is signed.
AtRelease(s) == s.gate = Last /\ Last \in s.signed

\* A delivery in memory owns the workspace, unless its signed release was
\* demoted by the verdict that signed it.
LockInv ==
    /\ pc \in {"final", "demote"} /\ via = "verdict" => AtRelease(mem)
    /\ pc = "recheck" => via = "resume"
    /\ pc = "revoked" => locked
    /\ pc # "down" /\ ~locked => AtRelease(mem)

\* Only the demotion after a verdict gives the lock up while the delivery stays in
\* memory; every other handler that lets go leaves the process.
LEMMA LockStep == ASSUME TypeOK, LockInv, [Next]_vars PROVE LockInv'
<1>a. mem \in DState /\ disk \in DState /\ Last \in Nat
  BY WalkAssumption DEF TypeOK
<1>b. Build # Last
  BY WalkAssumption DEF Build
<1> USE <1>a, <1>b DEF LockInv, AtRelease, Persist, Dispatch, Leave, state, args, DState
<1>1. CASE Deliver
  BY <1>1 DEF Deliver
<1>2. CASE RunGate
  BY <1>2 DEF RunGate
<1>3. CASE BuildRefused
  BY <1>3 DEF BuildRefused
<1>4. CASE PrepareBuild
  BY <1>4 DEF PrepareBuild
<1>5. CASE BuildDone
  BY <1>5 DEF BuildDone
<1>5a. CASE BuildRecorded
  BY <1>5a DEF BuildRecorded
<1>6. CASE ApproveG0
  BY <1>6 DEF ApproveG0, ApproveVerdict, Verdict
<1>7. CASE ApproveGate
  BY <1>7 DEF ApproveGate, ApproveVerdict, Verdict
<1>8. CASE ApproveBuild
  BY <1>8 DEF ApproveBuild, ApproveVerdict, Verdict
<1>9. CASE Scan
  BY <1>9 DEF Scan, ScanDegraded
<1>10. CASE ApproveRelease
  BY <1>10 DEF ApproveRelease, ApproveVerdict, Verdict
<1>11. CASE Sign
  BY <1>11 DEF Sign
<1>12. CASE Commit
  BY <1>12 DEF Commit, Advance, Signed
<1>13. CASE CommitRelease
  BY <1>13 DEF CommitRelease, Signed
<1>14. CASE RequestChanges
  BY <1>14 DEF RequestChanges, SendBack, Verdict
<1>15. CASE Reject
  BY <1>15 DEF Reject, SendBack, Verdict
<1>16. CASE Waive
  BY <1>16 DEF Waive, Verdict
<1>17. ASSUME NEW g \in Gate, Reopen(g) PROVE LockInv'
  BY <1>17 DEF Reopen
<1>18. CASE ReopenDone
  BY <1>18 DEF ReopenDone, Reopened
<1>19. CASE FinalizerBusy
  BY <1>19 DEF FinalizerBusy
<1>20. CASE Finalize
  BY <1>20 DEF Finalize
<1>21. CASE Demote
  BY <1>21 DEF Demote
<1>22. CASE StageAndCommit
  BY <1>22 DEF StageAndCommit
<1>23. CASE Push
  BY <1>23 DEF Push
<1>24. CASE ShipFails
  BY <1>24 DEF ShipFails
<1>25. CASE Receipt
  BY <1>25 DEF Receipt
<1>26. CASE Resume
  BY <1>26 DEF Resume, Resuming, Park
<1>27. CASE ResumeReconciled
  BY <1>27 DEF ResumeReconciled, Resuming
<1>28. CASE ResumeRefused
  BY <1>28 DEF ResumeRefused, Resuming, Park
<1>29. CASE ResumeComplete
  BY <1>29 DEF ResumeComplete, Resuming
<1>30. CASE Recheck
  BY <1>30 DEF Recheck
<1>31. CASE Crash
  BY <1>31 DEF Crash
<1>32. CASE Edit
  BY <1>32 DEF Edit
<1>33. ASSUME NEW g \in Gate, Drift(g) PROVE LockInv'
  BY <1>33 DEF Drift
<1>34. CASE RepoMoves
  BY <1>34 DEF RepoMoves
<1>35. CASE FounderG0
  BY <1>35 DEF FounderG0
<1>36. CASE UNCHANGED vars
  BY <1>36 DEF vars
<1> QED
  BY <1>1, <1>2, <1>3, <1>4, <1>5, <1>5a, <1>6, <1>7, <1>8, <1>9, <1>10, <1>11,
     <1>12, <1>13, <1>14, <1>15, <1>16, <1>17, <1>18, <1>19, <1>20, <1>21,
     <1>22, <1>23, <1>24, <1>25, <1>26, <1>27, <1>28, <1>29, <1>30, <1>31,
     <1>32, <1>33, <1>34, <1>35, <1>36 DEF Next, Handler, Founder,
     Environment

-----------------------------------------------------------------------------
(* Safety evidence                                                         *)

\* No gate at or above the current one is signed, but the release gate at its end.
Below(s) == \A h \in s.signed : h < s.gate \/ (h = Last /\ s.gate = Last)

\* Passed safety stages of a signed build are newer than that build.
Screened(s) == Production /\ Build \in s.signed /\ s.safety => screened

\* Before the first checkpoint only G0 can be signed.
Unsaved == ~saved => pc \in {"down", "run", "build", "built"} /\ sigs \subseteq {0} /\ disk.signed = {}

\* The walk is above what it signed, and its safety evidence is up to date.
ScreenInv ==
    /\ Below(mem) /\ Below(disk) /\ Screened(mem) /\ Screened(disk)
    /\ pc \in {"sign", "commit"} /\ mem.gate = Build /\ Production /\ mem.safety => screened
    /\ pc \in {"build", "built", "scan"} => mem.gate = Build
    /\ Unsaved

\* While G4 is built, neither memory nor the checkpoint a crash falls back to has it
\* signed: the new build outdates no evidence that is still relied upon.
BuildInv == pc \in {"run", "build", "built"} /\ mem.gate = Build => Build \notin disk.signed

\* A fresh orchestrator starts above what is signed.
LEMMA FreshIsBelow == ASSUME sigs \subseteq {0} PROVE Below(Fresh)
<1>1. 0 \in Gate /\ 1 \in Gate /\ 1 # Last
  BY WalkAssumption DEF Gate
<1>2. /\ FirstUnsigned \in Gate /\ FirstUnsigned \notin sigs
      /\ \A h \in Gate : h < FirstUnsigned => h \in sigs
  <2> DEFINE First(g) == g \notin sigs /\ \A h \in Gate : h < g => h \in sigs
  <2>1. \E g \in Gate : First(g)
    <3>1. CASE 0 \in sigs
      <4>1. First(1)
        BY <3>1, <1>1, WalkAssumption DEF Gate
      <4> QED
        BY <4>1, <1>1
    <3>2. CASE 0 \notin sigs
      <4>1. First(0)
        BY <3>2, <1>1, WalkAssumption DEF Gate
      <4> QED
        BY <4>1, <1>1
    <3> QED
      BY <3>1, <3>2
  <2> QED
    BY <2>1 DEF FirstUnsigned
<1>3. \A h \in SignedPrefix : h \in Gate /\ h = 0 /\ h \in sigs
  BY WalkAssumption DEF SignedPrefix, Gate
<1>4. \A h \in SignedPrefix : h < FirstUnsigned
  BY <1>2, <1>3, WalkAssumption DEF Gate
<1> QED
  BY <1>4 DEF Below, Fresh

\* Signing or waiving the current gate moves the walk above it.
LEMMA AdvanceIsBelow ==
    ASSUME NEW s, NEW t, Below(s), s.gate \in Gate, s.signed \subseteq Gate, s.gate # Last,
           t.signed \subseteq s.signed \cup {s.gate}, t.gate = s.gate + 1
    PROVE  Below(t)
<1>1. \A h \in s.signed : h < s.gate /\ h \in Nat
  BY DEF Below, Gate
<1>2. \A h \in s.signed \cup {s.gate} : h < s.gate + 1
  BY <1>1 DEF Gate
<1> QED
  BY <1>2 DEF Below

\* Safety evidence is dropped with the signature of the build it is about: signing
\* G4 again needs the stages again.
LEMMA ScreenStep ==
    ASSUME TypeOK, ReopenPending, Synced, ScreenInv, BuildInv, [Next]_vars
    PROVE  ScreenInv'
<1>a. mem \in DState /\ disk \in DState /\ Last \in Nat
  BY WalkAssumption DEF TypeOK
<1>b. Build # Last /\ Build # 0 /\ Build + 1 = Last /\ Build \in Nat /\ Last # 0
  BY WalkAssumption DEF Build
<1>c. Gate = 0..Last
  BY DEF Gate
<1> USE <1>a, <1>b, <1>c DEF ScreenInv, Below, Screened, Unsaved, Persist, Dispatch, Leave,
      state, args, files, audit, history, DState
<1>1. CASE Deliver
  <2>1. Below(Fresh) /\ Fresh.safety = FALSE
    BY <1>1, FreshIsBelow DEF Deliver, Fresh
  <2> HIDE DEF Below
  <2> QED
    BY <1>1, <2>1 DEF Deliver
<1>2. CASE RunGate
  BY <1>2 DEF RunGate
<1>3. CASE BuildRefused
  BY <1>3 DEF BuildRefused
<1>4. CASE PrepareBuild
  BY <1>4 DEF PrepareBuild
<1>5. CASE BuildDone
  <2>1. mem.gate = Build /\ Build \notin disk.signed
    BY <1>5 DEF BuildDone, BuildInv
  <2>2. Build \notin mem.signed
    BY <2>1
  <2> QED
    BY <1>5, <2>1, <2>2 DEF BuildDone
<1>5a. CASE BuildRecorded
  BY <1>5a DEF BuildRecorded
<1>6. CASE ApproveG0
  BY <1>6 DEF ApproveG0, ApproveVerdict, Verdict
<1>7. CASE ApproveGate
  BY <1>7 DEF ApproveGate, ApproveVerdict, Verdict
<1>8. CASE ApproveBuild
  BY <1>8 DEF ApproveBuild, ApproveVerdict, Verdict
<1>9. CASE Scan
  BY <1>9 DEF Scan, ScanDegraded
<1>10. CASE ApproveRelease
  BY <1>10 DEF ApproveRelease, ApproveVerdict, Verdict
<1>11. CASE Sign
  BY <1>11 DEF Sign
<1>12. CASE Commit
  <2>1. /\ mem'.signed = mem.signed \cup {mem.gate} /\ mem'.gate = mem.gate + 1
        /\ mem'.safety = mem.safety /\ disk' = mem' /\ mem.gate # Last
    BY <1>12 DEF Commit, Advance, Signed
  <2>2. screened' = screened /\ saved' /\ pc = "commit" /\ pc' = "run"
    BY <1>12 DEF Commit, Advance, Signed
  <2>3. mem.gate \in Gate /\ mem.signed \subseteq Gate
    OBVIOUS
  <2>4. Below(mem')
    <3>1. mem'.signed \subseteq mem.signed \cup {mem.gate} /\ Below(mem)
      BY <2>1
    <3> HIDE DEF Below
    <3> QED
      BY <2>1, <2>3, <3>1, AdvanceIsBelow
  <2>5. Screened(mem)'
    BY <2>1, <2>2
  <2> QED
    BY <2>1, <2>2, <2>4, <2>5
<1>13. CASE CommitRelease
  BY <1>13 DEF CommitRelease, Signed
<1>14. CASE RequestChanges
  BY <1>14 DEF RequestChanges, SendBack, Verdict
<1>15. CASE Reject
  BY <1>15 DEF Reject, SendBack, Verdict
<1>16. CASE Waive
  <2>1. /\ mem'.signed = mem.signed /\ mem'.safety = mem.safety
        /\ mem'.gate = mem.gate \/ (mem.gate # Last /\ mem'.gate = mem.gate + 1)
        /\ disk' = mem' \/ disk' = disk
    BY <1>16 DEF Waive, Verdict
  <2>2. screened' = screened /\ pc' \in {"run", "down"} /\ pc = "idle" /\ saved
    BY <1>16 DEF Waive, Verdict
  <2>3. mem.gate \in Gate /\ mem.signed \subseteq Gate
    OBVIOUS
  <2>4. Below(mem')
    <3>1. CASE mem'.gate = mem.gate
      BY <2>1, <3>1
    <3>2. CASE mem.gate # Last /\ mem'.gate = mem.gate + 1
      <4>1. mem'.signed \subseteq mem.signed \cup {mem.gate} /\ Below(mem)
        BY <2>1
      <4> HIDE DEF Below
      <4> QED
        BY <2>3, <3>2, <4>1, AdvanceIsBelow
    <3> QED
      BY <2>1, <3>1, <3>2
  <2>5. saved'
    BY <1>16, <2>2 DEF Waive, Verdict
  <2> QED
    BY <2>1, <2>2, <2>4, <2>5
<1>17. ASSUME NEW g \in Gate, Reopen(g) PROVE ScreenInv'
  BY <1>17 DEF Reopen
<1>18. CASE ReopenDone
  BY <1>18 DEF ReopenDone, Reopened
<1>19. CASE FinalizerBusy
  BY <1>19 DEF FinalizerBusy
<1>20. CASE Finalize
  BY <1>20 DEF Finalize
<1>21. CASE Demote
  BY <1>21 DEF Demote
<1>22. CASE StageAndCommit
  BY <1>22 DEF StageAndCommit
<1>23. CASE Push
  BY <1>23 DEF Push
<1>24. CASE ShipFails
  BY <1>24 DEF ShipFails
<1>25. CASE Receipt
  BY <1>25 DEF Receipt
<1>26. CASE Resume
  BY <1>26 DEF Resume, Resuming, Park
<1>27. CASE ResumeReconciled
  <2>1. disk.gate = Last
    BY <1>27 DEF ResumeReconciled, Reconcilable
  <2>2. /\ mem'.signed = disk.signed \cup {Last} /\ mem'.gate = disk.gate
        /\ mem'.safety = disk.safety /\ disk' = mem'
    BY <1>27 DEF ResumeReconciled, Resuming
  <2>3. screened' = screened /\ pc' = "recheck" /\ saved'
    BY <1>27 DEF ResumeReconciled, Resuming
  <2> QED
    BY <2>1, <2>2, <2>3
<1>28. CASE ResumeRefused
  BY <1>28 DEF ResumeRefused, Resuming, Park
<1>29. CASE ResumeComplete
  BY <1>29 DEF ResumeComplete, Resuming
<1>30. CASE Recheck
  BY <1>30 DEF Recheck
<1>31. CASE Crash
  BY <1>31 DEF Crash
<1>32. CASE Edit
  BY <1>32 DEF Edit
<1>33. ASSUME NEW g \in Gate, Drift(g) PROVE ScreenInv'
  BY <1>33 DEF Drift
<1>34. CASE RepoMoves
  BY <1>34 DEF RepoMoves
<1>35. CASE FounderG0
  BY <1>35 DEF FounderG0
<1>36. CASE UNCHANGED vars
  BY <1>36 DEF vars
<1> QED
  BY <1>1, <1>2, <1>3, <1>4, <1>5, <1>5a, <1>6, <1>7, <1>8, <1>9, <1>10, <1>11,
     <1>12, <1>13, <1>14, <1>15, <1>16, <1>17, <1>18, <1>19, <1>20, <1>21,
     <1>22, <1>23, <1>24, <1>25, <1>26, <1>27, <1>28, <1>29, <1>30, <1>31,
     <1>32, <1>33, <1>34, <1>35, <1>36 DEF Next, Handler, Founder,
     Environment

\* A build is dispatched from a checkpoint at G4 or below it.
LEMMA BuildStep ==
    ASSUME TypeOK, Synced, ScreenInv, BuildInv, ScreenInv', [Next]_vars, disk' \in DState
    PROVE  BuildInv'
<1>a. mem \in DState /\ disk \in DState /\ Last \in Nat /\ Build \in Nat /\ Build # Last /\ Gate = 0..Last
  BY WalkAssumption DEF TypeOK, Gate, Build
<1>1. ASSUME pc' \notin {"run", "build", "built"} PROVE BuildInv'
  BY <1>1 DEF BuildInv
<1>2. ASSUME disk'.gate <= mem'.gate PROVE BuildInv'
  <2> SUFFICES ASSUME mem'.gate = Build, Build \in disk'.signed PROVE FALSE
    BY DEF BuildInv
  <2>1. disk'.gate \in Gate /\ Below(disk)'
    BY DEF ScreenInv, DState
  <2>2. Build < disk'.gate \/ Build = Last
    BY <2>1 DEF Below
  <2> QED
    BY <1>a, <1>2, <2>1, <2>2
<1>3. ASSUME UNCHANGED <<mem, disk, pc>> PROVE BuildInv'
  BY <1>3 DEF BuildInv
<1> USE DEF Dispatch, Leave, state
<1>4. CASE Deliver
  BY <1>4 DEF Deliver, BuildInv, ScreenInv, Unsaved
<1>5. CASE PrepareBuild \/ BuildDone
  BY <1>5 DEF PrepareBuild, BuildDone, BuildInv
<1>6. CASE Commit
  <2>1. disk'.gate = mem'.gate
    BY <1>6 DEF Commit, Advance, Persist
  <2>2. disk'.gate \in 0..Last
    BY <1>a DEF DState
  <2> QED
    BY <1>a, <1>2, <2>1, <2>2
<1>7. CASE RequestChanges \/ Reject
  <2>1. pc = "idle" /\ mem = disk
    BY <1>7 DEF RequestChanges, Reject, Verdict, Synced
  <2>2. pc' = "down" \/ (mem'.gate = mem.gate /\ disk' = disk)
    BY <1>a, <1>7 DEF RequestChanges, Reject, SendBack, DState
  <2>3. mem.gate \in 0..Last
    BY <1>a DEF DState
  <2> QED
    BY <1>a, <1>1, <1>2, <2>1, <2>2, <2>3
<1>8. CASE Waive
  <2>1. pc = "idle" /\ mem = disk
    BY <1>8 DEF Waive, Verdict, Synced
  <2>2. pc' = "down" \/ (mem'.gate = mem.gate + 1 /\ disk' = disk)
    BY <1>a, <1>8 DEF Waive, DState
  <2>3. mem.gate \in 0..Last
    BY <1>a DEF DState
  <2> QED
    BY <1>a, <1>1, <1>2, <2>1, <2>2, <2>3
<1>9. CASE Resume \/ ResumeRefused
  <2>1. pc = "down" /\ mem = disk
    BY <1>9 DEF Resume, ResumeRefused, Resuming, Synced
  <2>2. disk'.gate = mem'.gate
    BY <2>1, <1>9 DEF Resume, ResumeRefused, Persist
  <2>3. disk'.gate \in 0..Last
    BY <1>a DEF DState
  <2> QED
    BY <1>a, <1>2, <2>2, <2>3
<1>10. CASE Edit \/ RepoMoves \/ FounderG0 \/ UNCHANGED vars
  BY <1>3, <1>10 DEF Edit, RepoMoves, FounderG0, vars
<1>11. ASSUME NEW g \in Gate, Drift(g) PROVE BuildInv'
  BY <1>3, <1>11 DEF Drift
<1>12. ASSUME NEW g \in Gate, Reopen(g) PROVE BuildInv'
  BY <1>1, <1>12 DEF Reopen
<1>13. CASE ApproveG0 \/ ApproveGate \/ ApproveBuild \/ ApproveRelease
  BY <1>1, <1>13 DEF ApproveG0, ApproveGate, ApproveBuild, ApproveRelease
<1>14. CASE ResumeReconciled \/ ResumeComplete \/ Crash
  BY <1>1, <1>14 DEF ResumeReconciled, ResumeComplete, Crash
<1>15. CASE Handler /\ ~(PrepareBuild \/ BuildDone \/ Commit)
  BY <1>1, <1>15
  DEF Handler, RunGate, BuildRefused, BuildRecorded, Scan, Sign, CommitRelease, ReopenDone,
      FinalizerBusy, Finalize, Demote, StageAndCommit, Push, ShipFails, Receipt, Recheck
<1> QED
  BY <1>4, <1>5, <1>6, <1>7, <1>8, <1>9, <1>10, <1>11, <1>12, <1>13, <1>14, <1>15
  DEF Next, Founder, Environment

-----------------------------------------------------------------------------
(* Where the handlers are when a delivery is complete                      *)

\* The points of the release finalization, and the states a verdict waits on.
Releasing == {"recheck", "final", "demote", "ship", "committed", "pushed", "unshipped"}
Parked == {"awaiting-verdict", "blocked", "reopened"}

\* The release is finalized on a complete delivery, and a complete delivery is not
\* parked for a verdict.
StatusInv ==
    /\ pc \in Releasing => mem.status = "complete"
    /\ disk.status = "complete" => pc \in Releasing \cup {"down", "revoked"}
    /\ pc = "idle" => mem.status \in Parked
    /\ pc \in {"scan", "sign", "commit"} => Open
    /\ ~saved => disk.status = "active"

\* The safety stages write their evidence and nothing of the walk.
LEMMA ScanEffect ==
    ASSUME TypeOK, Scan
    PROVE  /\ disk' = mem' /\ saved' /\ mem'.gate = mem.gate /\ mem'.signed = mem.signed
           /\ mem'.waived = mem.waived /\ mem'.conds = mem.conds /\ mem'.fin = mem.fin
           /\ \/ pc' = "sign" /\ mem'.status = mem.status
              \/ pc' = "idle" /\ mem'.status = "blocked"
<1>1. mem \in DState
  BY DEF TypeOK
<1>2. \/ Persist([mem EXCEPT !.safety = TRUE]) /\ pc' = "sign"
      \/ Persist([mem EXCEPT !.safety = FALSE]) /\ pc' = "sign"
      \/ /\ Persist([mem EXCEPT !.safety = FALSE, !.status = "blocked", !.lastOk = FALSE])
         /\ pc' = "idle"
  BY Zenon DEF Scan, ScanDegraded
<1> QED
  BY <1>1, <1>2 DEF Persist, DState

\* Handlers keep the place of a complete delivery, and a crash leads to "down".
LEMMA StatusStep == ASSUME TypeOK, Synced, StatusInv, [Next]_vars PROVE StatusInv'
<1>a. mem \in DState /\ disk \in DState
  BY DEF TypeOK
<1> USE <1>a DEF Synced, StatusInv, Releasing, Parked, Open, Persist, Dispatch, Leave, state,
      DState
<1>1. CASE Deliver
  BY <1>1 DEF Deliver
<1>2. CASE RunGate
  BY <1>2 DEF RunGate
<1>3. CASE BuildRefused
  BY <1>3 DEF BuildRefused
<1>4. CASE PrepareBuild
  BY <1>4 DEF PrepareBuild
<1>5. CASE BuildDone
  BY <1>5 DEF BuildDone
<1>5a. CASE BuildRecorded
  BY <1>5a DEF BuildRecorded
<1>6. CASE ApproveG0
  BY <1>6 DEF ApproveG0, ApproveVerdict, Verdict
<1>7. CASE ApproveGate
  BY <1>7 DEF ApproveGate, ApproveVerdict, Verdict
<1>8. CASE ApproveBuild
  BY <1>8 DEF ApproveBuild, ApproveVerdict, Verdict
<1>9. CASE Scan
  <2>1. pc = "scan"
    BY <1>9 DEF Scan
  <2> QED
    BY <2>1, <1>9, ScanEffect
<1>10. CASE ApproveRelease
  BY <1>10 DEF ApproveRelease, ApproveVerdict, Verdict
<1>11. CASE Sign
  BY <1>11 DEF Sign
<1>12. CASE Commit
  BY <1>12 DEF Commit, Advance, Signed
<1>13. CASE CommitRelease
  BY <1>13 DEF CommitRelease, Signed
<1>14. CASE RequestChanges
  BY <1>14 DEF RequestChanges, SendBack, Verdict
<1>15. CASE Reject
  BY <1>15 DEF Reject, SendBack, Verdict
<1>16. CASE Waive
  BY <1>16 DEF Waive, Verdict
<1>17. ASSUME NEW g \in Gate, Reopen(g) PROVE StatusInv'
  BY <1>17 DEF Reopen
<1>18. CASE ReopenDone
  BY <1>18 DEF ReopenDone, Reopened
<1>19. CASE FinalizerBusy
  BY <1>19 DEF FinalizerBusy
<1>20. CASE Finalize
  BY <1>20 DEF Finalize
<1>21. CASE Demote
  BY <1>21 DEF Demote
<1>22. CASE StageAndCommit
  BY <1>22 DEF StageAndCommit
<1>23. CASE Push
  BY <1>23 DEF Push
<1>24. CASE ShipFails
  BY <1>24 DEF ShipFails
<1>25. CASE Receipt
  BY <1>25 DEF Receipt
<1>26. CASE Resume
  BY <1>26 DEF Resume, Resuming, Park
<1>27. CASE ResumeReconciled
  BY <1>27 DEF ResumeReconciled, Resuming
<1>28. CASE ResumeRefused
  BY <1>28 DEF ResumeRefused, Resuming, Park
<1>29. CASE ResumeComplete
  BY <1>29 DEF ResumeComplete, Resuming
<1>30. CASE Recheck
  BY <1>30 DEF Recheck
<1>31. CASE Crash
  BY <1>31 DEF Crash
<1>32. CASE Edit
  BY <1>32 DEF Edit
<1>33. ASSUME NEW g \in Gate, Drift(g) PROVE StatusInv'
  BY <1>33 DEF Drift
<1>34. CASE RepoMoves
  BY <1>34 DEF RepoMoves
<1>35. CASE FounderG0
  BY <1>35 DEF FounderG0
<1>36. CASE UNCHANGED vars
  BY <1>36 DEF vars
<1> QED
  BY <1>1, <1>2, <1>3, <1>4, <1>5, <1>5a, <1>6, <1>7, <1>8, <1>9, <1>10, <1>11,
     <1>12, <1>13, <1>14, <1>15, <1>16, <1>17, <1>18, <1>19, <1>20, <1>21,
     <1>22, <1>23, <1>24, <1>25, <1>26, <1>27, <1>28, <1>29, <1>30, <1>31,
     <1>32, <1>33, <1>34, <1>35, <1>36 DEF Next, Handler, Founder,
     Environment

-----------------------------------------------------------------------------
(* The record of a shipped release                                         *)

\* A state whose release is recorded as shipped is a completed walk.
Shipped(s) ==
    s.fin.status = "succeeded" =>
        /\ s.status = "complete" /\ s.gate = Last
        /\ s.signed = Gate /\ s.waived = {} /\ s.conds = {}

\* No handler but a reopen or a recheck ever holds such a state.
DoneInv ==
    /\ Shipped(mem) /\ Shipped(disk)
    /\ mem.fin.status = "succeeded" => pc \in {"down", "recheck", "revoked"}
    /\ pc \in {"ship", "committed", "pushed", "unshipped"} => Releasable(mem) /\ mem.gate = Last

\* A waiver moves the walk on, or completes it without a release.
LEMMA WaiveEffect ==
    ASSUME TypeOK, Waive
    PROVE  /\ pc = "idle" /\ mem'.fin = mem.fin /\ mem'.signed = mem.signed
           /\ mem'.waived = mem.waived \cup {mem.gate}
           /\ UNCHANGED <<sigs, orphaned>>
           /\ \/ /\ mem.gate = Last /\ mem'.gate = Last /\ mem'.status = "complete"
                 /\ disk' = mem' /\ pc' = "down"
              \/ /\ mem.gate # Last /\ mem'.status = mem.status
                 /\ disk' = disk /\ pc' = "run" /\ approved' = approved
<1>1. mem \in DState
  BY DEF TypeOK
<1>2. pc = "idle" /\ UNCHANGED <<sigs, orphaned>>
  BY DEF Waive, Verdict, files
<1>3. CASE mem.gate = Last
  BY <1>1, <1>2, <1>3 DEF Waive, Persist, Leave, DState
<1>4. CASE mem.gate # Last
  BY <1>1, <1>2, <1>4 DEF Waive, Dispatch, DState
<1> QED
  BY <1>3, <1>4

\* The marker "succeeded" is written from a releasable state only, and every handler
\* that changes the walk has cleared the marker or does not run on such a state.
LEMMA DoneStep ==
    ASSUME TypeOK, Synced, StatusInv, DoneInv, [Next]_vars
    PROVE  DoneInv'
<1>a. mem \in DState /\ disk \in DState /\ mem.fin \in Marker /\ disk.fin \in Marker
  BY DEF TypeOK, DState
<1> USE <1>a DEF Synced, StatusInv, Releasing, Parked, Open, DoneInv, Shipped, Releasable,
      SafetyOk, Persist, Dispatch, Leave, state, DState, Marker
<1>1. CASE Deliver
  <2>1. mem'.fin.status = "none" /\ disk' = disk /\ pc' = "run"
    BY <1>1 DEF Deliver, Fresh, NoMarker
  <2> QED
    BY <2>1
<1>2. CASE RunGate
  BY <1>2 DEF RunGate
<1>3. CASE BuildRefused
  BY <1>3 DEF BuildRefused
<1>4. CASE PrepareBuild
  BY <1>4 DEF PrepareBuild
<1>5. CASE BuildDone
  BY <1>5 DEF BuildDone
<1>5a. CASE BuildRecorded
  BY <1>5a DEF BuildRecorded
<1>6. CASE ApproveG0
  BY <1>6 DEF ApproveG0, ApproveVerdict, Verdict
<1>7. CASE ApproveGate
  BY <1>7 DEF ApproveGate, ApproveVerdict, Verdict
<1>8. CASE ApproveBuild
  BY <1>8 DEF ApproveBuild, ApproveVerdict, Verdict
<1>9. CASE Scan
  <2>1. pc = "scan"
    BY <1>9 DEF Scan
  <2> QED
    BY <2>1, <1>9, ScanEffect
<1>10. CASE ApproveRelease
  BY <1>10 DEF ApproveRelease, ApproveVerdict, Verdict
<1>11. CASE Sign
  BY <1>11 DEF Sign
<1>12. CASE Commit
  BY <1>12 DEF Commit, Advance, Signed
<1>13. CASE CommitRelease
  BY <1>13 DEF CommitRelease, Signed
<1>14. CASE RequestChanges
  BY <1>14 DEF RequestChanges, SendBack, Verdict
<1>15. CASE Reject
  BY <1>15 DEF Reject, SendBack, Verdict
<1>16. CASE Waive
  BY <1>16, WaiveEffect
<1>17. ASSUME NEW g \in Gate, Reopen(g) PROVE DoneInv'
  BY <1>17 DEF Reopen
<1>18. CASE ReopenDone
  <2>1. mem'.fin.status = "none" /\ disk' = mem' /\ pc' \in {"idle", "down"}
    BY <1>18 DEF ReopenDone, Reopened, NoMarker
  <2> QED
    BY <2>1
<1>19. CASE FinalizerBusy
  BY <1>19 DEF FinalizerBusy
<1>20. CASE Finalize
  <2>1. /\ mem'.fin = mem.fin /\ mem'.signed = mem.signed /\ mem'.waived = mem.waived
        /\ mem'.conds = mem.conds /\ mem'.gate = mem.gate /\ mem'.safety = mem.safety
        /\ disk' = mem'
    BY <1>20 DEF Finalize
  <2>2. mem.fin.status # "succeeded" /\ pc' \in {"ship", "demote"}
    BY <1>20 DEF Finalize
  <2>3. ASSUME pc' = "ship" PROVE Releasable(mem) /\ mem.gate = Last
    <3>1. ReleaseTruth(mem)
      BY <1>20, <2>3 DEF Finalize
    <3> QED
      BY <3>1 DEF ReleaseTruth, VerifyCompleted, VerifyG5
  <2> QED
    BY <2>1, <2>2, <2>3
<1>21. CASE Demote
  BY <1>21 DEF Demote
<1>22. CASE StageAndCommit
  BY <1>22 DEF StageAndCommit
<1>23. CASE Push
  BY <1>23 DEF Push
<1>24. CASE ShipFails
  BY <1>24 DEF ShipFails
<1>25. CASE Receipt
  BY <1>25 DEF Receipt
<1>26. CASE Resume
  BY <1>26 DEF Resume, Resuming, Park
<1>27. CASE ResumeReconciled
  BY <1>27 DEF ResumeReconciled, Resuming
<1>28. CASE ResumeRefused
  BY <1>28 DEF ResumeRefused, Resuming, Park
<1>29. CASE ResumeComplete
  BY <1>29 DEF ResumeComplete, Resuming
<1>30. CASE Recheck
  <2>1. /\ mem'.fin = mem.fin /\ mem'.signed = mem.signed /\ mem'.waived = mem.waived
        /\ mem'.conds = mem.conds /\ mem'.gate = mem.gate /\ mem'.status = mem.status
        /\ disk' = mem'
    BY <1>30 DEF Recheck
  <2>2. pc' \in {"final", "down"} /\ (pc' = "final" => mem.fin.status = "pending")
    BY <1>30 DEF Recheck, RetryPending
  <2> QED
    BY <2>1, <2>2
<1>31. CASE Crash
  BY <1>31 DEF Crash
<1>32. CASE Edit
  BY <1>32 DEF Edit
<1>33. ASSUME NEW g \in Gate, Drift(g) PROVE DoneInv'
  BY <1>33 DEF Drift
<1>34. CASE RepoMoves
  BY <1>34 DEF RepoMoves
<1>35. CASE FounderG0
  BY <1>35 DEF FounderG0
<1>36. CASE UNCHANGED vars
  BY <1>36 DEF vars
<1> QED
  BY <1>1, <1>2, <1>3, <1>4, <1>5, <1>5a, <1>6, <1>7, <1>8, <1>9, <1>10, <1>11,
     <1>12, <1>13, <1>14, <1>15, <1>16, <1>17, <1>18, <1>19, <1>20, <1>21,
     <1>22, <1>23, <1>24, <1>25, <1>26, <1>27, <1>28, <1>29, <1>30, <1>31,
     <1>32, <1>33, <1>34, <1>35, <1>36 DEF Next, Handler, Founder,
     Environment

-----------------------------------------------------------------------------
(* The founder's approval of the release                                   *)

\* A release marker exists only at the release gate, and not on a state that is
\* to run; a complete walk without waivers has the release gate signed.
MarkerPlace(s) ==
    /\ s.gate # Last => s.fin.status = "none"
    /\ s.status = "active" => s.fin.status = "none"
    /\ s.status = "complete" /\ s.waived = {} => Last \in s.signed

\* The crash recovery cannot reconcile s.
Void(s) == s.waived # {} \/ Build \notin sigs

\* A G5 signature next to a checkpoint that awaits the verdict of G5 comes from an
\* approval that stands and was interrupted by a crash (down, commit), from one
\* that a reopen has just made void (revoked), or was disowned.  Next to a complete
\* checkpoint it comes from an approval that stands, or was disowned before.
ApprovalInv ==
    /\ MarkerPlace(mem) /\ MarkerPlace(disk)
    /\ pc \in {"sign", "commit"} /\ mem.gate = Last => approved /\ mem.fin.status = "pending"
    /\ disk.status = "complete" /\ disk.waived = {} /\ Last \in sigs => approved \/ orphaned
    /\ disk.status = "awaiting-verdict" /\ disk.gate = Last /\ Last \in sigs =>
          \/ orphaned
          \/ /\ pc \in {"down", "commit", "revoked"} /\ disk.fin.status = "pending"
             /\ approved \/ Void(disk)
    /\ pc \in {"ship", "committed", "pushed"} => approved \/ orphaned

\* Every way to the finalizer (a verdict, a reconciled crash, a retry of a pending
\* release) starts from an approval that stands or from a disowned signature.
LEMMA ApprovalStep ==
    ASSUME WalkInv, Synced, StatusInv, ScreenInv, DoneInv, ApprovalInv, [Next]_vars
    PROVE  ApprovalInv'
<1>a. /\ mem \in DState /\ disk \in DState /\ Last \in Nat
      /\ mem.fin \in Marker /\ disk.fin \in Marker
  BY WalkAssumption DEF WalkInv, TypeOK, DState
<1>b. Build # Last /\ Build # 0 /\ Last # 0 /\ Build \in Gate /\ Last \in Gate
  BY WalkAssumption DEF Build, Gate
<1>c. approved \in BOOLEAN /\ orphaned \in BOOLEAN
  BY DEF WalkInv, TypeOK
<1> USE <1>a, <1>b, <1>c DEF Synced, StatusInv, Releasing, Parked, Open, ApprovalInv,
      MarkerPlace, Void, Persist, Dispatch, Leave, state, files, audit, history, DState, Marker
<1>1. CASE Deliver
  <2>1. mem'.fin.status = "none" /\ mem'.status = "active" /\ disk' = disk /\ pc' = "run"
    BY <1>1 DEF Deliver, Fresh, NoMarker
  <2>2. disk.status = "active"
    BY <1>1 DEF Deliver
  <2> QED
    BY <2>1, <2>2
<1>2. CASE RunGate
  BY <1>2 DEF RunGate
<1>3. CASE BuildRefused
  BY <1>3 DEF BuildRefused
<1>4. CASE PrepareBuild
  BY <1>4 DEF PrepareBuild
<1>5. CASE BuildDone
  BY <1>5 DEF BuildDone
<1>5a. CASE BuildRecorded
  <2>1. /\ mem'.gate = mem.gate /\ mem'.fin = mem.fin /\ disk' = mem'
        /\ mem'.status \in {"awaiting-verdict", "blocked"}
    BY <1>5a DEF BuildRecorded
  <2>2. pc' = "idle" /\ mem.gate = Build
    BY <1>5a DEF BuildRecorded, ScreenInv
  <2> QED
    BY <2>1, <2>2
<1>6. CASE ApproveG0
  BY <1>6 DEF ApproveG0, ApproveVerdict, Verdict
<1>7. CASE ApproveGate
  BY <1>7 DEF ApproveGate, ApproveVerdict, Verdict
<1>8. CASE ApproveBuild
  BY <1>8 DEF ApproveBuild, ApproveVerdict, Verdict
<1>9. CASE Scan
  <2>1. pc = "scan" /\ mem.gate = Build /\ UNCHANGED <<sigs, approved, orphaned>>
    BY <1>9 DEF Scan, ScreenInv
  <2>2. TypeOK
    BY DEF WalkInv
  <2> QED
    BY <2>1, <2>2, <1>9, ScanEffect
<1>10. CASE ApproveRelease
  BY <1>10 DEF ApproveRelease, ApproveVerdict, Verdict
<1>11. CASE Sign
  BY <1>11 DEF Sign
<1>12. CASE Commit
  BY <1>12 DEF Commit, Advance, Signed
<1>13. CASE CommitRelease
  BY <1>13 DEF CommitRelease, Signed
<1>14. CASE RequestChanges
  BY <1>14 DEF RequestChanges, SendBack, Verdict
<1>15. CASE Reject
  BY <1>15 DEF Reject, SendBack, Verdict
<1>16. CASE Waive
  <2>1. TypeOK
    BY DEF WalkInv
  <2>2. mem'.waived # {}
    BY <1>16, <2>1, WaiveEffect
  <2> QED
    BY <2>1, <2>2, <1>16, WaiveEffect
<1>17. ASSUME NEW g \in Gate, Reopen(g) PROVE ApprovalInv'
  <2>1. /\ UNCHANGED <<mem, disk, orphaned>> /\ mem = disk /\ g \in mem.signed
        /\ pc' = "revoked" /\ approved' = FALSE /\ sigs' = sigs \ {h \in mem.signed : h >= g}
    BY <1>17 DEF Reopen, RevokeFrom
  <2>2. Last \in sigs' => Last \in sigs /\ Last \notin mem.signed
    <3>1. Last >= g
      BY <2>1, <1>a DEF Gate
    <3> QED
      BY <2>1, <3>1
  <2>3. ASSUME Last \in sigs', disk.gate = Last PROVE Void(disk)'
    <3>1. Build >= g
      <4>1. g # Last
        BY <2>1, <2>2, <2>3
      <4>2. g \in 0..Last /\ Last \in Nat
        BY <1>a DEF Gate
      <4> QED
        BY ONLY <4>1, <4>2 DEF Build
    <3>2. Build \in disk.signed \cup disk.waived
      BY <2>3, WalkAssumption DEF WalkInv, Sound, InOrder, Build, Gate
    <3> QED
      BY <2>1, <3>1, <3>2
  <2>4. pc \in {"idle", "down"}
    BY <1>17 DEF Reopen
  <2> QED
    BY <2>1, <2>2, <2>3, <2>4
<1>18. CASE ReopenDone
  <2>1. /\ mem'.fin.status = "none" /\ mem'.status = "reopened" /\ disk' = mem'
        /\ pc' \in {"idle", "down"}
    BY <1>18 DEF ReopenDone, Reopened, NoMarker
  <2> QED
    BY <2>1
<1>19. CASE FinalizerBusy
  BY <1>19 DEF FinalizerBusy
<1>20. CASE Finalize
  <2>1. /\ mem'.fin = mem.fin /\ mem'.signed = mem.signed /\ mem'.waived = mem.waived
        /\ mem'.gate = mem.gate /\ mem'.status = mem.status /\ disk' = mem'
        /\ UNCHANGED <<sigs, approved, orphaned>>
    BY <1>20 DEF Finalize
  <2>2. pc = "final" /\ pc' \in {"ship", "demote"} /\ mem.status = "complete" /\ mem = disk
    BY <1>20 DEF Finalize
  <2>3. ASSUME pc' = "ship" PROVE approved \/ orphaned
    <3>1. ReleaseTruth(mem)
      BY <1>20, <2>3 DEF Finalize
    <3>2. mem.waived = {} /\ Last \in sigs
      BY <3>1 DEF ReleaseTruth, VerifyCompleted, VerifyG5, Strict
    <3> QED
      BY <2>2, <3>2
  <2> QED
    BY <2>1, <2>2, <2>3
<1>21. CASE Demote
  BY <1>21 DEF Demote
<1>22. CASE StageAndCommit
  BY <1>22 DEF StageAndCommit
<1>23. CASE Push
  BY <1>23 DEF Push
<1>24. CASE ShipFails
  BY <1>24 DEF ShipFails
<1>25. CASE Receipt
  <2>1. /\ mem'.signed = mem.signed /\ mem'.waived = mem.waived
        /\ mem'.gate = mem.gate /\ mem'.status = mem.status /\ disk' = mem'
        /\ UNCHANGED <<sigs, approved, orphaned>>
    BY <1>25 DEF Receipt
  <2>2. /\ pc \in {"pushed", "unshipped"} /\ pc' = "down"
        /\ mem.status = "complete" /\ mem = disk /\ mem.gate = Last
    BY <1>25 DEF Receipt, DoneInv
  <2> QED
    BY <2>1, <2>2
<1>26. CASE Resume
  <2>1. /\ mem = disk /\ UNCHANGED <<mem, disk, sigs, approved, orphaned>> /\ ~SignedCrash
        /\ pc = "down" /\ pc' \in {"idle", "run"}
    BY <1>26 DEF Resume, Resuming, Park
  <2>2. disk.status = "awaiting-verdict" /\ disk.gate = Last /\ Last \in sigs => orphaned
    BY <2>1 DEF SignedCrash
  <2> QED
    BY <2>1, <2>2
<1>27. CASE ResumeReconciled
  <2>1. /\ mem'.signed = disk.signed \cup {Last} /\ mem'.gate = disk.gate
        /\ mem'.waived = disk.waived /\ mem'.status = "complete"
        /\ disk' = mem' /\ pc = "down" /\ pc' = "recheck"
        /\ UNCHANGED <<sigs, approved, orphaned>>
    BY <1>27 DEF ResumeReconciled, Resuming
  <2>2. disk.gate = Last /\ disk.waived = {} /\ Build \in sigs
    <3>1. Build < Last
      BY WalkAssumption DEF Build
    <3>2. Reconcilable(disk)
      BY <1>27 DEF ResumeReconciled
    <3> QED
      BY <3>1, <3>2, <1>b DEF Reconcilable, VerifyG5, Strict
  <2>3. SignedCrash
    BY <1>27 DEF ResumeReconciled
  <2>4. disk.status = "awaiting-verdict" /\ Last \in sigs
    BY <2>3 DEF SignedCrash
  <2>5. approved \/ orphaned
    BY <2>2, <2>4
  <2> QED
    BY <2>1, <2>2, <2>5
<1>28. CASE ResumeRefused
  <2>1. /\ mem'.signed = disk.signed /\ mem'.gate = disk.gate /\ mem'.waived = disk.waived
        /\ mem'.status = disk.status /\ disk' = mem' /\ pc' \in {"idle", "run"}
        /\ orphaned' /\ sigs' = sigs
    BY <1>28 DEF ResumeRefused, Resuming, Park
  <2>2. SignedCrash
    BY <1>28 DEF ResumeRefused
  <2>3. disk.gate = Last /\ disk.status = "awaiting-verdict"
    BY <2>2 DEF SignedCrash
  <2> QED
    BY <2>1, <2>3
<1>29. CASE ResumeComplete
  BY <1>29 DEF ResumeComplete, Resuming
<1>30. CASE Recheck
  BY <1>30 DEF Recheck
<1>31. CASE Crash
  BY <1>31 DEF Crash
<1>32. CASE Edit
  BY <1>32 DEF Edit
<1>33. ASSUME NEW g \in Gate, Drift(g) PROVE ApprovalInv'
  BY <1>33 DEF Drift
<1>34. CASE RepoMoves
  BY <1>34 DEF RepoMoves
<1>35. CASE FounderG0
  BY <1>35 DEF FounderG0
<1>36. CASE UNCHANGED vars
  BY <1>36 DEF vars
<1> QED
  BY <1>1, <1>2, <1>3, <1>4, <1>5, <1>5a, <1>6, <1>7, <1>8, <1>9, <1>10, <1>11,
     <1>12, <1>13, <1>14, <1>15, <1>16, <1>17, <1>18, <1>19, <1>20, <1>21,
     <1>22, <1>23, <1>24, <1>25, <1>26, <1>27, <1>28, <1>29, <1>30, <1>31,
     <1>32, <1>33, <1>34, <1>35, <1>36 DEF Next, Handler, Founder,
     Environment

-----------------------------------------------------------------------------
(* The results                                                             *)

\* One delivery from its start to its receipt.
DeliveryInv ==
    /\ WalkInv /\ Synced /\ LockInv /\ ScreenInv /\ BuildInv /\ StatusInv /\ DoneInv /\ ApprovalInv

\* The inductive invariant of one delivery.
LEMMA DeliveryInvariant == Spec => []DeliveryInv
<1>1. Init => Synced /\ LockInv /\ ScreenInv /\ BuildInv /\ StatusInv /\ DoneInv /\ ApprovalInv
  <2> SUFFICES ASSUME Init
               PROVE  Synced /\ LockInv /\ ScreenInv /\ BuildInv /\ StatusInv /\ DoneInv /\ ApprovalInv
    OBVIOUS
  <2>1. /\ mem = disk /\ pc = "down" /\ sigs = {} /\ ~saved
        /\ mem.status = "active" /\ mem.fin.status = "none" /\ ~mem.safety /\ disk.signed = {}
    BY WalkAssumption DEF Init, Fresh, NoMarker, SignedPrefix, Gate
  <2>2. Below(mem)
    BY FreshIsBelow DEF Init
  <2>3. Synced /\ LockInv /\ StatusInv /\ DoneInv
    BY <2>1 DEF Synced, LockInv, StatusInv, Releasing, DoneInv, Shipped
  <2>4. ScreenInv
    BY <2>1, <2>2 DEF ScreenInv, Screened, Unsaved
  <2>5. ApprovalInv
    BY <2>1 DEF ApprovalInv, MarkerPlace
  <2>6. BuildInv
    BY <2>1 DEF BuildInv
  <2> QED
    BY <2>3, <2>4, <2>5, <2>6
<1>2. DeliveryInv /\ [Next]_vars =>
         Synced' /\ LockInv' /\ ScreenInv' /\ BuildInv' /\ StatusInv' /\ DoneInv' /\ ApprovalInv'
  <2> SUFFICES ASSUME DeliveryInv, [Next]_vars
               PROVE  Synced' /\ LockInv' /\ ScreenInv' /\ BuildInv' /\ StatusInv' /\ DoneInv' /\ ApprovalInv'
    OBVIOUS
  <2>1. Synced' /\ LockInv' /\ ScreenInv' /\ StatusInv' /\ DoneInv' /\ ApprovalInv'
    BY SyncedStep, LockStep, ScreenStep, StatusStep, DoneStep, ApprovalStep DEF DeliveryInv, WalkInv
  <2>2. disk' \in DState
    BY StateStep DEF DeliveryInv, WalkInv
  <2>3. BuildInv'
    BY <2>1, <2>2, BuildStep DEF DeliveryInv, WalkInv
  <2> QED
    BY <2>1, <2>3
<1> QED
  BY WalkInvariant, <1>1, <1>2, PTL DEF Spec, DeliveryInv

\* For every number of gates, every budget, any number of crashes and any edit of
\* the files: nothing ships after the founder took the approval of G5 back, unless
\* a G5 signature that a recovery disowned is still on disk (_recover_g5_release).
THEOREM ShipsOnlyApproved == Spec => []ShipNeedsApproval
<1>1. DeliveryInv => ShipNeedsApproval
  BY DEF DeliveryInv, ApprovalInv, ShipNeedsApproval
<1> QED
  BY DeliveryInvariant, <1>1, PTL

\* In the production profile every release that is about to ship has safety
\* evidence newer than its last build, however often it was rebuilt, reopened,
\* rescanned or interrupted (_run_post_build_stages).
THEOREM ShipsOnlyScreened == Spec => []ShipNeedsFreshScreening
<1>1. DeliveryInv => ShipNeedsFreshScreening
  <2> SUFFICES ASSUME DeliveryInv, Production, pc = "ship" PROVE screened
    BY DEF ShipNeedsFreshScreening
  <2>1. Build \in Gate
    BY WalkAssumption DEF Build, Gate
  <2>2. Build \in mem.signed /\ mem.safety
    BY <2>1 DEF DeliveryInv, DoneInv, Releasable, SafetyOk
  <2> QED
    BY <2>2 DEF DeliveryInv, ScreenInv, Screened
<1> QED
  BY DeliveryInvariant, <1>1, PTL

\* The record of a shipped release always belongs to a completed walk with every
\* gate signed and nothing waived or conditional (reopen_gate,
\* _finalize_pending_g5_release).
THEOREM ShippedIsComplete == Spec => []SucceededIsComplete
<1>1. DeliveryInv => SucceededIsComplete
  BY DEF DeliveryInv, DoneInv, Shipped, SucceededIsComplete
<1> QED
  BY DeliveryInvariant, <1>1, PTL

\* Every gate run owns the workspace, but the rework of a demoted signed release;
\* the build always does (start, resume_delivery, _finalize_pending_g5_release).
THEOREM RunsOwnTheWorkspace == Spec => []UnlockedOnlyAfterDemotion
<1>1. DeliveryInv => UnlockedOnlyAfterDemotion
  <2> SUFFICES ASSUME DeliveryInv PROVE UnlockedOnlyAfterDemotion
    OBVIOUS
  <2>1. Build # Last
    BY WalkAssumption DEF Build
  <2>2. ASSUME pc \in {"build", "built"} PROVE locked
    BY <2>1, <2>2 DEF DeliveryInv, ScreenInv, LockInv, AtRelease
  <2> QED
    BY <2>2 DEF DeliveryInv, LockInv, AtRelease, UnlockedOnlyAfterDemotion
<1> QED
  BY DeliveryInvariant, <1>1, PTL
=============================================================================
