---------------------------- MODULE DeliveryLock ----------------------------
(***************************************************************************)
(* The two workspace-global lock files of the gate orchestrator            *)
(* (product/gate_orchestrator.py): delivery.lock and g5-release.lock.  A   *)
(* lock FILE is published with an atomic hard link, judged stale by its    *)
(* owner's pid (same host) or by its age (another host), and removed by    *)
(* name.  A contender is one GateOrchestrator instance.  Every file-system *)
(* call is a step of its own, so contenders interleave between the link,   *)
(* the read, the liveness probe and the unlink.                            *)
(*                                                                         *)
(* The finalization lock differs in what it does with the answers: it is   *)
(* not re-entrant, has a token per acquisition, reclaims in its first      *)
(* round only, and gives up when the stale file is gone already.           *)
(***************************************************************************)
EXTENDS Naturals

CONSTANTS Contender,   \* orchestrator instances, one owner token each
          Process,     \* operating-system processes
          ProcOf,      \* the process a contender runs in
          HostOf,      \* the host a process runs on
          MaxAttempts, \* rounds of the delivery lock's acquire loop: range(3) in the code
          Locks,       \* the locks considered
          MaxUses,     \* BOUND: acquisitions each contender may begin
          NoTicket     \* "no lock file" / "nothing readable"

Ticket == [owner : Contender, use : Nat]

ASSUME LockAssumption ==
    /\ ProcOf \in [Contender -> Process]
    /\ MaxAttempts \in Nat \ {0}
    /\ Locks \subseteq {"delivery", "finalization"}
    /\ MaxUses \in [Contender -> Nat]
    /\ NoTicket \notin Ticket

VARIABLES
    which,    \* the lock that is contended for
    lock,     \* the lock file: the ticket it holds, or NoTicket
    old,      \* tickets published more than _LOCK_TTL_SECONDS ago
    alive,    \* processes that still run
    pc,       \* where each contender is in acquire / release
    attempt,  \* the acquire loop's counter
    uses,     \* acquisitions each contender has begun
    seen,     \* the ticket a contender last read from the file
    holding,  \* contenders that believe they own the workspace
    robbed    \* history: holders whose file another call has removed

vars == <<which, lock, old, alive, pc, attempt, uses, seen, holding, robbed>>

PCs == {"idle", "link", "read", "judge", "unlink", "held",
        "relread", "relunlink", "dead"}

Rounds == IF which = "delivery" THEN MaxAttempts ELSE 2

TypeOK ==
    /\ which \in Locks
    /\ lock \in Ticket \cup {NoTicket}
    /\ old \subseteq Ticket
    /\ alive \subseteq Process
    /\ pc \in [Contender -> PCs]
    /\ attempt \in [Contender -> 0..Rounds]
    /\ uses \in [Contender -> Nat]
    /\ seen \in [Contender -> Ticket \cup {NoTicket}]
    /\ holding \subseteq Contender
    /\ robbed \subseteq Contender

SameHost(c, d) == HostOf[ProcOf[c]] = HostOf[ProcOf[d]]

\* MUTANTS of IsLive: the probe finds every owner dead / every owner alive.
IsLive_NeverLive(c, t) == FALSE /\ t.owner = c
IsLive_AlwaysLive(c, t) == TRUE \/ t.owner = c

\* _delivery_lock_is_live: the pid decides on the owner's host, the TTL on
\* every other host.
IsLive(c, t) ==
    IF SameHost(c, t.owner) THEN ProcOf[t.owner] \in alive ELSE t \notin old

Init ==
    /\ which \in Locks
    /\ lock = NoTicket
    /\ old = {}
    /\ alive = Process
    /\ pc = [c \in Contender |-> "idle"]
    /\ attempt = [c \in Contender |-> 0]
    /\ uses = [c \in Contender |-> 0]
    /\ seen = [c \in Contender |-> NoTicket]
    /\ holding = {}
    /\ robbed = {}

Goto(c, l) == pc' = [pc EXCEPT ![c] = l]

\* The call returns: its local variables are gone.
Return(c, l) ==
    /\ pc' = [pc EXCEPT ![c] = l]
    /\ seen' = [seen EXCEPT ![c] = NoTicket]
    /\ attempt' = [attempt EXCEPT ![c] = 0]

-----------------------------------------------------------------------------
(* _acquire_delivery_lock, _try_acquire_g5_finalization_lock               *)

\* start / reopen_gate / resume_delivery call acquire; a contender that
\* already holds the delivery lock may call it again (re-entry).  A finalizer
\* has released before it acquires again.
Begin(c) ==
    /\ pc[c] = "idle" \/ (pc[c] = "held" /\ which = "delivery")
    /\ uses[c] < MaxUses[c]
    /\ uses' = [uses EXCEPT ![c] = @ + 1]
    /\ attempt' = [attempt EXCEPT ![c] = 1]
    /\ Goto(c, "link")
    /\ UNCHANGED <<which, lock, old, alive, seen, holding, robbed>>

\* MUTANT of LinkWins: the publish replaces an existing file (os.replace).
LinkWins_Replaces(c) ==
    /\ pc[c] = "link"
    /\ lock' = [owner |-> c, use |-> uses[c]]
    /\ holding' = holding \cup {c}
    /\ robbed' = robbed \ {c}
    /\ Return(c, "held")
    /\ UNCHANGED <<which, old, alive, uses>>

\* _write_delivery_lock: os.link publishes the whole file or refuses.
LinkWins(c) ==
    /\ pc[c] = "link"
    /\ lock = NoTicket
    /\ lock' = [owner |-> c, use |-> uses[c]]
    /\ holding' = holding \cup {c}
    /\ robbed' = robbed \ {c}
    /\ Return(c, "held")
    /\ UNCHANGED <<which, old, alive, uses>>

LinkRefused(c) ==
    /\ pc[c] = "link"
    /\ lock # NoTicket
    /\ Goto(c, "read")
    /\ UNCHANGED <<which, lock, old, alive, attempt, uses, seen, holding, robbed>>

\* _read_delivery_lock: the file may have vanished since the refused link.
Read(c) ==
    /\ pc[c] = "read"
    /\ seen' = [seen EXCEPT ![c] = lock]
    /\ Goto(c, "judge")
    /\ UNCHANGED <<which, lock, old, alive, attempt, uses, holding, robbed>>

SameOwner(c) == which = "delivery" /\ seen[c] # NoTicket /\ seen[c].owner = c

JudgeOwn(c) ==
    /\ pc[c] = "judge"
    /\ SameOwner(c)
    /\ holding' = holding \cup {c}
    /\ Return(c, "held")
    /\ UNCHANGED <<which, lock, old, alive, uses, robbed>>

\* The owner lives, or the finalization lock was found taken twice.
Refuses(c) ==
    \/ seen[c] # NoTicket /\ IsLive(c, seen[c])
    \/ which = "finalization" /\ attempt[c] = Rounds

\* Another live delivery or finalizer: the caller gets a "blocked" answer.
JudgeLive(c) ==
    /\ pc[c] = "judge"
    /\ ~SameOwner(c)
    /\ Refuses(c)
    /\ holding' = holding \ {c}
    /\ robbed' = robbed \ {c}
    /\ Return(c, "idle")
    /\ UNCHANGED <<which, lock, old, alive, uses>>

JudgeStale(c) ==
    /\ pc[c] = "judge"
    /\ ~SameOwner(c)
    /\ ~Refuses(c)
    /\ Goto(c, "unlink")
    /\ UNCHANGED <<which, lock, old, alive, attempt, uses, seen, holding, robbed>>

\* Path.unlink removes whatever file bears the name NOW.
RemoveFile ==
    /\ lock' = NoTicket
    /\ robbed' = IF lock = NoTicket THEN robbed
                 ELSE robbed \cup ({lock.owner} \cap holding)

\* The finalization lock does not try again when somebody else removed the file.
Overtaken == which = "finalization" /\ lock = NoTicket

\* MUTANT of UnlinkRetry: the loop runs one round too many.
UnlinkRetry_OffByOne(c) ==
    /\ pc[c] = "unlink"
    /\ attempt[c] <= Rounds
    /\ RemoveFile
    /\ attempt' = [attempt EXCEPT ![c] = @ + 1]
    /\ Goto(c, "link")
    /\ UNCHANGED <<which, old, alive, uses, seen, holding>>

\* After the unlink the loop goes round again, or gives up after the last
\* attempt and answers "could not be acquired atomically".
UnlinkRetry(c) ==
    /\ pc[c] = "unlink"
    /\ attempt[c] < Rounds /\ ~Overtaken
    /\ RemoveFile
    /\ attempt' = [attempt EXCEPT ![c] = @ + 1]
    /\ Goto(c, "link")
    /\ UNCHANGED <<which, old, alive, uses, seen, holding>>

UnlinkGiveUp(c) ==
    /\ pc[c] = "unlink"
    /\ attempt[c] = Rounds \/ Overtaken
    /\ RemoveFile
    /\ holding' = holding \ {c}
    /\ Return(c, "idle")
    /\ UNCHANGED <<which, old, alive, uses>>

-----------------------------------------------------------------------------
(* _release_delivery_lock, _release_g5_finalization_lock                   *)

\* The caller has finished its delivery operation.
ReleaseBegin(c) ==
    /\ pc[c] = "held"
    /\ holding' = holding \ {c}
    /\ robbed' = robbed \ {c}
    /\ Goto(c, "relread")
    /\ UNCHANGED <<which, lock, old, alive, attempt, uses, seen>>

\* The token in the file is the one this contender published.
Mine(c) ==
    IF which = "delivery" THEN lock # NoTicket /\ lock.owner = c
    ELSE lock = [owner |-> c, use |-> uses[c]]

ReleaseRead(c) ==
    /\ pc[c] = "relread"
    /\ IF Mine(c)
       THEN /\ seen' = [seen EXCEPT ![c] = lock]
            /\ Goto(c, "relunlink")
            /\ UNCHANGED attempt
       ELSE Return(c, "idle")
    /\ UNCHANGED <<which, lock, old, alive, uses, holding, robbed>>

ReleaseUnlink(c) ==
    /\ pc[c] = "relunlink"
    /\ RemoveFile
    /\ Return(c, "idle")
    /\ UNCHANGED <<which, old, alive, uses, holding>>

-----------------------------------------------------------------------------
(* The environment                                                         *)

\* A process is killed: its contenders stop where they are, the file stays.
Crash(p) ==
    /\ p \in alive
    /\ alive' = alive \ {p}
    /\ pc' = [c \in Contender |-> IF ProcOf[c] = p THEN "dead" ELSE pc[c]]
    /\ holding' = {c \in holding : ProcOf[c] # p}
    /\ robbed' = {c \in robbed : ProcOf[c] # p}
    /\ UNCHANGED <<which, lock, old, attempt, uses, seen>>

\* Six hours pass while one lock file stays in place.
PassTTL ==
    /\ lock # NoTicket
    /\ lock \notin old
    /\ old' = old \cup {lock}
    /\ UNCHANGED <<which, lock, alive, pc, attempt, uses, seen, holding, robbed>>

Acquire(c) ==
    \/ Begin(c) \/ LinkWins(c) \/ LinkRefused(c) \/ Read(c)
    \/ JudgeOwn(c) \/ JudgeLive(c) \/ JudgeStale(c)
    \/ UnlinkRetry(c) \/ UnlinkGiveUp(c)

Release(c) == ReleaseBegin(c) \/ ReleaseRead(c) \/ ReleaseUnlink(c)

Next ==
    \/ \E c \in Contender : Acquire(c) \/ Release(c)
    \/ \E p \in Process : Crash(p)
    \/ PassTTL

\* A call that has begun is carried to its end by the operating system's
\* scheduler; nobody is obliged to begin one, to crash or to wait six hours.
Progress(c) ==
    \/ LinkWins(c) \/ LinkRefused(c) \/ Read(c)
    \/ JudgeOwn(c) \/ JudgeLive(c) \/ JudgeStale(c)
    \/ UnlinkRetry(c) \/ UnlinkGiveUp(c)
    \/ ReleaseRead(c) \/ ReleaseUnlink(c)

Spec == Init /\ [][Next]_vars /\ \A c \in Contender : WF_vars(Progress(c))

-----------------------------------------------------------------------------
(* Properties                                                              *)

\* One workspace owns one live delivery operation (_delivery_lock_path) and one
\* finalizer: no two orchestrators believe they hold the lock.
MutualExclusion == \A c, d \in holding : c = d

\* A holder whose file was not removed under it owns the file.
HolderOwnsFile ==
    \A c \in holding \ robbed : lock # NoTicket /\ lock.owner = c

\* Exclusivity is lost in one way only: by an unlink that removed the file
\* of a working holder.  The atomic link publish and the re-entry test by
\* owner token never admit a second holder by themselves.
ExclusiveUnlessRobbed ==
    \A c, d \in holding : c = d \/ c \in robbed \/ d \in robbed

\* _acquire_delivery_lock reclaims "only a STALE lock": a working holder is
\* robbed only by a call whose judgement was overtaken (the file it read is
\* not the file it removes) or that saw a foreign host's lock past the TTL.
RobbedOnlyByLateUnlink ==
    [][\A o \in robbed' \ robbed :
          \E c \in Contender :
             /\ pc[c] \in {"unlink", "relunlink"}
             /\ pc'[c] # pc[c]
             /\ \/ seen[c] # lock
                \/ ~SameHost(c, o) /\ lock \in old]_vars

\* "A crash never deadlocks the project permanently": once a contender on the
\* same host tries, the file of a killed process does not stay.  A finalizer in
\* its second round leaves it to the next attempt.
DeadFile(c) ==
    lock # NoTicket /\ ProcOf[lock.owner] \notin alive /\ SameHost(c, lock.owner)
CrashNeverDeadlocks ==
    \A c \in Contender :
        (DeadFile(c) /\ pc[c] = "link" /\ (which = "finalization" => attempt[c] = 1)) ~> (~DeadFile(c) \/ pc[c] = "dead")
=============================================================================
