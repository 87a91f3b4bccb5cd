------------------------- MODULE DeliveryLockProofs -------------------------
(* Theorems about the delivery and the finalization lock, for every set of *)
(* contenders, processes and hosts and every number of attempts and uses.  *)
EXTENDS DeliveryLock, TLAPS

\* Where the owner named by the lock file can be: holding, or releasing, or
\* killed -- and a holder that is judging has read its own file.
OwnerPlace ==
    lock # NoTicket =>
       LET o == lock.owner IN
          \/ pc[o] \in {"held", "link", "read"} /\ o \in holding
          \/ pc[o] = "judge" /\ o \in holding /\ SameOwner(o)
          \/ pc[o] \in {"relread", "relunlink", "dead"}

\* A finalizer leaves no file of an earlier acquisition behind.
Current == which = "finalization" /\ lock # NoTicket => lock.use = uses[lock.owner]

\* A contender that found its own ticket still counts as a holder.
OwnJudgement ==
    \A c \in Contender : pc[c] = "judge" /\ SameOwner(c) => c \in holding

\* A contender about to unlink judged a killed owner or an expired foreign
\* lock, or read nothing; a releasing one read its own ticket.
Judged ==
    \A c \in Contender :
       /\ pc[c] = "unlink" /\ seen[c] # NoTicket =>
             IF SameHost(c, seen[c].owner)
             THEN ProcOf[seen[c].owner] \notin alive
             ELSE seen[c] \in old
       /\ pc[c] = "relunlink" => seen[c] # NoTicket /\ seen[c].owner = c

\* Holders are in the acquire call or past it, a finalizer is past it; only
\* killed processes stop.
HolderPlace ==
    /\ \A c \in holding : pc[c] \in {"held", "link", "read", "judge", "unlink"}
    /\ which = "finalization" => \A c \in holding : pc[c] = "held"
    /\ \A c \in Contender : pc[c] # "dead" => ProcOf[c] \in alive

IInv == TypeOK /\ HolderOwnsFile /\ OwnerPlace /\ Current /\ OwnJudgement /\ Judged /\ HolderPlace

\* One step of any contender, a crash or the passing of the TTL keeps types.
LEMMA TypeStep == TypeOK /\ [Next]_vars => TypeOK'
<1> SUFFICES ASSUME TypeOK, [Next]_vars PROVE TypeOK'
  OBVIOUS
<1> USE LockAssumption DEF TypeOK, PCs, Ticket, Rounds
<1>1. ASSUME NEW c \in Contender, Begin(c) PROVE TypeOK'
  BY <1>1 DEF Begin, Goto
<1>2. ASSUME NEW c \in Contender, LinkWins(c) PROVE TypeOK'
  BY <1>2 DEF LinkWins, Return
<1>3. ASSUME NEW c \in Contender, LinkRefused(c) PROVE TypeOK'
  BY <1>3 DEF LinkRefused, Goto
<1>4. ASSUME NEW c \in Contender, Read(c) PROVE TypeOK'
  BY <1>4 DEF Read, Goto
<1>5. ASSUME NEW c \in Contender, JudgeOwn(c) PROVE TypeOK'
  BY <1>5 DEF JudgeOwn, Return
<1>6. ASSUME NEW c \in Contender, JudgeLive(c) PROVE TypeOK'
  BY <1>6 DEF JudgeLive, Return
<1>7. ASSUME NEW c \in Contender, JudgeStale(c) PROVE TypeOK'
  BY <1>7 DEF JudgeStale, Goto
<1>8. ASSUME NEW c \in Contender, UnlinkRetry(c) PROVE TypeOK'
  BY <1>8 DEF UnlinkRetry, RemoveFile, Goto
<1>9. ASSUME NEW c \in Contender, UnlinkGiveUp(c) PROVE TypeOK'
  BY <1>9 DEF UnlinkGiveUp, RemoveFile, Return
<1>10. ASSUME NEW c \in Contender, ReleaseBegin(c) PROVE TypeOK'
  BY <1>10 DEF ReleaseBegin, Goto
<1>11. ASSUME NEW c \in Contender, ReleaseRead(c) PROVE TypeOK'
  BY <1>11 DEF ReleaseRead, Mine, Return, Goto
<1>12. ASSUME NEW c \in Contender, ReleaseUnlink(c) PROVE TypeOK'
  BY <1>12 DEF ReleaseUnlink, RemoveFile, Return
<1>13. ASSUME NEW p \in Process, Crash(p) PROVE TypeOK'
  BY <1>13 DEF Crash
<1>14. CASE PassTTL
  BY <1>14 DEF PassTTL
<1>15. CASE UNCHANGED vars
  BY <1>15 DEF vars
<1> QED
  BY <1>1, <1>2, <1>3, <1>4, <1>5, <1>6, <1>7, <1>8, <1>9, <1>10, <1>11,
     <1>12, <1>13, <1>14, <1>15 DEF Next, Acquire, Release

\* Type correctness: every file-system step of acquire, release, crash and
\* TTL keeps the state in its type.
THEOREM TypeCorrect == Spec => []TypeOK
<1>1. Init => TypeOK
  BY LockAssumption DEF Init, TypeOK, PCs, Rounds
<1> QED
  BY <1>1, TypeStep, PTL DEF Spec

\* The strengthened invariant is inductive.
LEMMA IInvStep == IInv /\ [Next]_vars => IInv'
<1> SUFFICES ASSUME IInv, [Next]_vars PROVE IInv'
  OBVIOUS
<1>0. TypeOK'
  BY TypeStep DEF IInv
<1> USE LockAssumption, <1>0 DEF IInv, TypeOK, PCs, Ticket, HolderOwnsFile, OwnerPlace, Current,
        OwnJudgement, Judged, HolderPlace, SameOwner
<1>1. ASSUME NEW c \in Contender, Begin(c) PROVE IInv'
  BY <1>1 DEF Begin, Goto
<1>2. ASSUME NEW c \in Contender, LinkWins(c) PROVE IInv'
  BY <1>2 DEF LinkWins, Return
<1>3. ASSUME NEW c \in Contender, LinkRefused(c) PROVE IInv'
  BY <1>3 DEF LinkRefused, Goto
<1>4. ASSUME NEW c \in Contender, Read(c) PROVE IInv'
  BY <1>4 DEF Read, Goto
<1>5. ASSUME NEW c \in Contender, JudgeOwn(c) PROVE IInv'
  BY <1>5 DEF JudgeOwn, Return
<1>6. ASSUME NEW c \in Contender, JudgeLive(c) PROVE IInv'
  BY <1>6 DEF JudgeLive, Return
<1>7. ASSUME NEW c \in Contender, JudgeStale(c) PROVE IInv'
  BY <1>7 DEF JudgeStale, Refuses, IsLive, Goto
<1>8. ASSUME NEW c \in Contender, UnlinkRetry(c) PROVE IInv'
  BY <1>8 DEF UnlinkRetry, RemoveFile, Goto
<1>9. ASSUME NEW c \in Contender, UnlinkGiveUp(c) PROVE IInv'
  BY <1>9 DEF UnlinkGiveUp, RemoveFile, Return
<1>10. ASSUME NEW c \in Contender, ReleaseBegin(c) PROVE IInv'
  BY <1>10 DEF ReleaseBegin, Goto
<1>11. ASSUME NEW c \in Contender, ReleaseRead(c) PROVE IInv'
  BY <1>11 DEF ReleaseRead, Mine, Return, Goto
<1>12. ASSUME NEW c \in Contender, ReleaseUnlink(c) PROVE IInv'
  BY <1>12 DEF ReleaseUnlink, RemoveFile, Return
<1>13. ASSUME NEW p \in Process, Crash(p) PROVE IInv'
  BY <1>13 DEF Crash
<1>14. CASE PassTTL
  BY <1>14 DEF PassTTL
<1>15. CASE UNCHANGED vars
  BY <1>15 DEF vars
<1> QED
  BY <1>1, <1>2, <1>3, <1>4, <1>5, <1>6, <1>7, <1>8, <1>9, <1>10, <1>11,
     <1>12, <1>13, <1>14, <1>15 DEF Next, Acquire, Release

\* The inductive invariant holds in every behaviour of the lock protocol.
LEMMA InductiveInvariant == Spec => []IInv
<1>1. Init => IInv
  BY LockAssumption DEF Init, IInv, TypeOK, PCs, Rounds, HolderOwnsFile, OwnerPlace,
     Current, OwnJudgement, Judged, HolderPlace
<1> QED
  BY <1>1, IInvStep, PTL DEF Spec

\* Two orchestrators believe they own the workspace only if the file of one
\* of them was unlinked while it worked: the link publish and the owner-token
\* re-entry of _acquire_delivery_lock never admit a second holder themselves.
THEOREM Exclusivity == Spec => []ExclusiveUnlessRobbed
<1>1. IInv => ExclusiveUnlessRobbed
  BY DEF IInv, HolderOwnsFile, ExclusiveUnlessRobbed
<1> QED
  BY <1>1, InductiveInvariant, PTL

\* The step relation of RobbedOnlyByLateUnlink.
LateUnlink ==
    \A o \in robbed' \ robbed :
       \E c \in Contender :
          /\ pc[c] \in {"unlink", "relunlink"}
          /\ pc'[c] # pc[c]
          /\ \/ seen[c] # lock
             \/ ~SameHost(c, o) /\ lock \in old

\* An unlink that removes the file of a working holder was overtaken: the
\* file it read is not the file it removes, or it judged a foreign host's
\* lock by its age.  A lock that is read and still in place is never robbed
\* while its same-host owner lives.
THEOREM ReclaimIsJustified == Spec => RobbedOnlyByLateUnlink
<1>1. IInv /\ [Next]_vars => [LateUnlink]_vars
  <2> SUFFICES ASSUME IInv, Next PROVE LateUnlink
    OBVIOUS
  <2> USE LockAssumption DEF IInv, TypeOK, PCs, Ticket, LateUnlink
  <2>1. ASSUME NEW c \in Contender, UnlinkRetry(c) \/ UnlinkGiveUp(c)
        PROVE LateUnlink
    <3> SUFFICES ASSUME NEW o \in robbed' \ robbed
                 PROVE seen[c] # lock \/ (~SameHost(c, o) /\ lock \in old)
      BY <2>1 DEF UnlinkRetry, UnlinkGiveUp, Goto, Return
    <3>1. lock # NoTicket /\ o = lock.owner /\ o \in holding /\ pc[c] = "unlink"
      BY <2>1 DEF UnlinkRetry, UnlinkGiveUp, RemoveFile
    <3>2. ProcOf[o] \in alive
      BY <3>1 DEF HolderPlace
    <3> QED
      BY <3>1, <3>2 DEF Judged, SameHost
  <2>2. ASSUME NEW c \in Contender, ReleaseUnlink(c) PROVE LateUnlink
    <3> SUFFICES ASSUME NEW o \in robbed' \ robbed PROVE seen[c] # lock
      BY <2>2 DEF ReleaseUnlink, Return
    <3>1. lock # NoTicket /\ o = lock.owner /\ o \in holding
      BY <2>2 DEF ReleaseUnlink, RemoveFile
    <3> QED
      BY <2>2, <3>1 DEF Judged, HolderPlace, ReleaseUnlink
  <2>3. ASSUME robbed' \subseteq robbed PROVE LateUnlink
    BY <2>3
  <2>4. ASSUME NEW c \in Contender,
               Begin(c) \/ LinkWins(c) \/ LinkRefused(c) \/ Read(c) \/ JudgeOwn(c)
                 \/ JudgeLive(c) \/ JudgeStale(c) \/ ReleaseBegin(c) \/ ReleaseRead(c)
        PROVE robbed' \subseteq robbed
    BY <2>4 DEF Begin, LinkWins, LinkRefused, Read, JudgeOwn, JudgeLive, JudgeStale,
       ReleaseBegin, ReleaseRead
  <2>5. ASSUME NEW p \in Process, Crash(p) PROVE robbed' \subseteq robbed
    BY <2>5 DEF Crash
  <2>6. PassTTL => robbed' \subseteq robbed
    BY DEF PassTTL
  <2> QED
    BY <2>1, <2>2, <2>3, <2>4, <2>5, <2>6 DEF Next, Acquire, Release
<1> QED
  BY <1>1, InductiveInvariant, PTL DEF Spec, RobbedOnlyByLateUnlink, LateUnlink
=============================================================================
