----------------------- MODULE SidecarLifecycleProofs -----------------------
(***************************************************************************)
(* The type invariant and the truth of the status record, for every number *)
(* of calls, clients and engines and every queue capacity.                 *)
(***************************************************************************)
EXTENDS SidecarLifecycle, TLAPS

\* A message is appended only below the capacity, and to nobody else's queue.
LEMMA TrySendKeepsQueues ==
    ASSUME TypeOK, NEW g \in Gen, NEW m \in Message, TrySend(g, m)
    PROVE  /\ queue' \in [Gen -> Seq(Message)]
           /\ \A h \in Gen : Len(queue'[h]) <= Cap
  <1>1. CASE CanSend(g)
    <2>1. queue' = [queue EXCEPT ![g] = Append(queue[g], m)]
      BY <1>1 DEF TrySend
    <2>2. Append(queue[g], m) \in Seq(Message) /\ Len(Append(queue[g], m)) = Len(queue[g]) + 1
      BY DEF TypeOK
    <2>3. Len(queue[g]) \in Nat /\ Len(queue[g]) < Cap
      BY <1>1 DEF TypeOK, CanSend
    <2>4. Len(Append(queue[g], m)) <= Cap
      BY <2>2, <2>3, CapAssumption
    <2> QED
      BY <2>1, <2>2, <2>4 DEF TypeOK
  <1>2. CASE ~CanSend(g)
    BY <1>2 DEF TrySend, TypeOK
  <1> QED
    BY <1>1, <1>2

\* Stopping leaves a well-formed manager and well-formed queues.
LEMMA StopCurrentKeepsTypes ==
    ASSUME TypeOK, StopCurrent
    PROVE  /\ tx' \in GenOrNone
           /\ queue' \in [Gen -> Seq(Message)]
           /\ \A h \in Gen : Len(queue'[h]) <= Cap
  <1>1. CASE tx = 0
    BY <1>1 DEF StopCurrent, TypeOK
  <1>2. CASE tx # 0
    <2>1. tx \in Gen
      BY <1>2, BoundAssumption DEF TypeOK, Gen, GenOrNone
    <2>2. TrySend(tx, "stop") /\ tx' = 0
      BY <1>2 DEF StopCurrent
    <2>3. 0 \in GenOrNone
      BY BoundAssumption DEF GenOrNone
    <2> QED
      BY <2>1, <2>2, <2>3, TrySendKeepsQueues DEF Message
  <1> QED
    BY <1>1, <1>2

\* The status stays a status.
LEMMA UpdateStatusKeepsType ==
    ASSUME TypeOK, NEW g \in GenOrNone, NEW s \in Status, UpdateStatus(g, s)
    PROVE  status' \in Status
  BY DEF UpdateStatus, TypeOK

\* One writer step shortens or empties a queue.
LEMMA TailKeepsQueues ==
    ASSUME TypeOK, NEW g \in Gen, queue[g] # <<>>, queue' = [queue EXCEPT ![g] = Tail(@)]
    PROVE  /\ queue' \in [Gen -> Seq(Message)]
           /\ \A h \in Gen : Len(queue'[h]) <= Cap
  <1>1. Tail(queue[g]) \in Seq(Message) /\ Len(Tail(queue[g])) = Len(queue[g]) - 1
    BY DEF TypeOK
  <1>2. Len(queue[g]) \in Nat /\ Len(queue[g]) <= Cap
    BY DEF TypeOK
  <1>3. Len(Tail(queue[g])) <= Cap
    BY <1>1, <1>2, CapAssumption
  <1> QED
    BY <1>1, <1>3 DEF TypeOK

\* The initial state is well typed.
LEMMA InitTypeOK == Init => TypeOK
  <1> SUFFICES ASSUME Init PROVE TypeOK
    OBVIOUS
  <1>1. 0 \in GenOrNone /\ 1 \in 1..(MaxGen + 1) /\ 0 \in 0..MaxFaults
    BY BoundAssumption DEF GenOrNone
  <1>2. <<>> \in Seq(Message) /\ Len(<<>>) = 0 /\ 0 <= Cap
    BY CapAssumption
  <1> QED
    BY <1>1, <1>2 DEF Init, TypeOK, Status, Event

\* Every step of the lifecycle keeps the types.
LEMMA NextTypeOK == TypeOK /\ [Next]_vars => TypeOK'
  <1> SUFFICES ASSUME TypeOK, [Next]_vars PROVE TypeOK'
    OBVIOUS
  <1> USE BoundAssumption
  <1>0. 0 \in GenOrNone /\ \A g \in Gen : g \in GenOrNone
    BY DEF GenOrNone, Gen
  <1>1. ASSUME NEW c \in Callers, Restart(c) \/ Replace(c) PROVE TypeOK'
    BY <1>1, StopCurrentKeepsTypes DEF Restart, Replace, Goto, TypeOK, history
  <1>2. ASSUME NEW c \in Callers, Start(c) PROVE TypeOK'
    BY <1>2 DEF Start, Goto, TypeOK, manager, engine, history
  <1>3. ASSUME NEW c \in Callers, Spawn(c) PROVE TypeOK'
    <2>1. next \in Gen /\ next \in GenOrNone /\ next' \in 1..(MaxGen + 1)
      BY <1>3 DEF Spawn, TypeOK, Gen, GenOrNone
    <2> QED
      BY <1>3, <2>1 DEF Spawn, Goto, TypeOK, history
  <1>4. ASSUME NEW c \in Callers, SpawnFails(c) PROVE TypeOK'
    BY <1>4 DEF SpawnFails, Goto, TypeOK, manager, engine
  <1>5. ASSUME NEW c \in Callers, Store(c) PROVE TypeOK'
    BY <1>5 DEF Store, Goto, TypeOK, engine, history
  <1>6. ASSUME NEW c \in Callers, Publish(c) PROVE TypeOK'
    <2>1. gen[c] \in GenOrNone
      BY DEF TypeOK
    <2>2. [gen |-> gen[c], running |-> TRUE, pid |-> gen[c]] \in Status
      BY <2>1 DEF Status
    <2>3. status' \in Status
      BY <1>6, <2>1, <2>2, UpdateStatusKeepsType DEF Publish
    <2> QED
      BY <1>6, <2>3 DEF Publish, Goto, TypeOK, history, Event
  <1>7. ASSUME NEW c \in Callers, Probe(c) PROVE TypeOK'
    <2>1. tx # 0 => tx \in Gen
      BY DEF TypeOK, Gen, GenOrNone
    <2>2. queue' \in [Gen -> Seq(Message)] /\ \A h \in Gen : Len(queue'[h]) <= Cap
      BY <1>7, <2>1, TrySendKeepsQueues DEF Probe, TypeOK, Message
    <2> QED
      BY <1>7, <2>2 DEF Probe, Goto, TypeOK, manager, history
  <1>8. ASSUME NEW k \in Clients, CloneSender(k) PROVE TypeOK'
    BY <1>8 DEF CloneSender, TypeOK, manager, calls, engine, history
  <1>9. ASSUME NEW k \in Clients, SendRequest(k) PROVE TypeOK'
    <2>1. held[k] \in Gen
      BY <1>9 DEF SendRequest, TypeOK, Gen, GenOrNone
    <2>2. queue' \in [Gen -> Seq(Message)] /\ \A h \in Gen : Len(queue'[h]) <= Cap
      BY <1>9, <2>1, TrySendKeepsQueues DEF SendRequest, Message
    <2> QED
      BY <1>0, <1>9, <2>2 DEF SendRequest, TypeOK, manager, calls, history
  <1>10. ASSUME NEW g \in Gen, Write(g) PROVE TypeOK'
    <2>1. queue' \in [Gen -> Seq(Message)] /\ \A h \in Gen : Len(queue'[h]) <= Cap
      BY <1>10, TailKeepsQueues DEF Write
    <2> QED
      BY <1>10, <2>1 DEF Write, TypeOK, manager, calls, history
  <1>11. ASSUME NEW g \in Gen, Kill(g) PROVE TypeOK'
    <2>1. <<>> \in Seq(Message) /\ Len(<<>>) = 0 /\ 0 <= Cap
      BY CapAssumption
    <2>2. queue' \in [Gen -> Seq(Message)] /\ \A h \in Gen : Len(queue'[h]) <= Cap
      BY <1>11, <2>1 DEF Kill, TypeOK
    <2> QED
      BY <1>11, <2>2 DEF Kill, TypeOK, manager, calls, history
  <1>12. ASSUME NEW g \in Gen, WriterEnds(g) \/ EngineExits(g) PROVE TypeOK'
    BY <1>12 DEF WriterEnds, EngineExits, TypeOK, manager, calls, history
  <1>13. ASSUME NEW g \in Gen, EngineCrashes(g) PROVE TypeOK'
    BY <1>13 DEF EngineCrashes, Fault, TypeOK, manager, calls
  <1>14. ASSUME NEW g \in Gen, Answer(g) \/ Timeout(g) PROVE TypeOK'
    BY <1>14 DEF Answer, Timeout, TypeOK, manager, calls, history
  <1>15. ASSUME NEW g \in Gen, StreamError(g) PROVE TypeOK'
    <2>1. [status EXCEPT !.gen = g, !.running = FALSE] \in Status
      BY <1>0 DEF Status, TypeOK
    <2>2. status' \in Status
      BY <1>0, <1>15, <2>1, UpdateStatusKeepsType DEF StreamError
    <2> QED
      BY <1>15, <2>2 DEF StreamError, Fault, TypeOK, calls, Event
  <1>16. ASSUME NEW g \in Gen, Terminated(g) PROVE TypeOK'
    <2>1. [gen |-> g, running |-> FALSE, pid |-> 0] \in Status
      BY <1>0 DEF Status
    <2>2. status' \in Status
      BY <1>0, <1>16, <2>1, UpdateStatusKeepsType DEF Terminated
    <2> QED
      BY <1>16, <2>2 DEF Terminated, TypeOK, calls, history, Event
  <1>17. ASSUME NEW g \in Gen, Compare(g) \/ ClearSender(g) PROVE TypeOK'
    <2>1. PICK e \in Event : reader' = [reader EXCEPT ![g].at = e]
      BY <1>17 DEF Compare, ClearSender, AfterEvent, Event
    <2>2. reader' \in [Gen -> [at : Event, last : BOOLEAN]]
      BY <2>1 DEF TypeOK
    <2>3. tx' \in GenOrNone
      BY <1>0, <1>17 DEF Compare, ClearSender, TypeOK, manager
    <2> QED
      BY <1>17, <2>2, <2>3 DEF Compare, ClearSender, TypeOK, manager, calls, history
  <1>18. CASE UNCHANGED vars
    BY <1>18 DEF vars, manager, calls, engine, history, TypeOK
  <1> QED
    BY <1>1, <1>2, <1>3, <1>4, <1>5, <1>6, <1>7, <1>8, <1>9, <1>10, <1>11, <1>12,
       <1>13, <1>14, <1>15, <1>16, <1>17, <1>18 DEF Next, Call, WriterTask, ReaderTask

\* Type correctness of the engine manager.
THEOREM LifecycleTypeCorrect == Spec => []TypeOK
  BY InitTypeOK, NextTypeOK, PTL DEF Spec

\* The strengthening that makes StatusFollowsNewest inductive: generations are
\* given out in order, and no reader is ahead of the status.
GenerationsInOrder ==
    /\ status.gen < next
    /\ \A c \in Callers : gen[c] < next
    /\ \A g \in Gen : reader[g].at # "none" => g <= status.gen

\* Every step keeps the order of generations.
LEMMA NextInOrder == TypeOK /\ GenerationsInOrder /\ [Next]_vars => GenerationsInOrder'
  <1> SUFFICES ASSUME TypeOK, GenerationsInOrder, [Next]_vars PROVE GenerationsInOrder'
    OBVIOUS
  <1>0. /\ status.gen \in Nat /\ next \in Nat
        /\ \A c \in Callers : gen[c] \in Nat
        /\ \A g \in Gen : g \in Nat /\ g # 0
    BY BoundAssumption DEF TypeOK, Status, Gen, GenOrNone
  <1>1. ASSUME status' = status, gen' = gen, next' = next,
               \A g \in Gen : reader'[g].at # "none" => reader[g].at # "none"
        PROVE  GenerationsInOrder'
    BY <1>1 DEF GenerationsInOrder
  <1>2. ASSUME NEW c \in Callers,
               Restart(c) \/ Replace(c) \/ Start(c) \/ SpawnFails(c) \/ Store(c) \/ Probe(c)
        PROVE  GenerationsInOrder'
    BY <1>1, <1>2 DEF Restart, Replace, Start, SpawnFails, Store, Probe, manager, engine, history
  <1>3. ASSUME NEW c \in Callers, Spawn(c) PROVE GenerationsInOrder'
    BY <1>0, <1>3 DEF Spawn, GenerationsInOrder, TypeOK
  <1>4. ASSUME NEW c \in Callers, Publish(c) PROVE GenerationsInOrder'
    <2>1. status'.gen = IF gen[c] < status.gen THEN status.gen ELSE gen[c]
      BY <1>4 DEF Publish, UpdateStatus
    <2>2. status'.gen \in Nat /\ status.gen <= status'.gen /\ gen[c] <= status'.gen /\ status'.gen < next
      BY <1>0, <2>1 DEF GenerationsInOrder
    <2>3. \A g \in Gen : reader'[g].at # "none" => g = gen[c] \/ reader[g].at # "none"
      BY <1>4 DEF Publish, TypeOK
    <2> QED
      BY <1>0, <1>4, <2>2, <2>3 DEF Publish, GenerationsInOrder
  <1>5. ASSUME NEW k \in Clients, CloneSender(k) \/ SendRequest(k) PROVE GenerationsInOrder'
    BY <1>1, <1>5 DEF CloneSender, SendRequest, manager, calls, engine
  <1>6. ASSUME NEW g \in Gen,
               Write(g) \/ Kill(g) \/ WriterEnds(g) \/ EngineExits(g) \/ EngineCrashes(g)
                 \/ Answer(g) \/ Timeout(g)
        PROVE  GenerationsInOrder'
    BY <1>1, <1>6 DEF Write, Kill, WriterEnds, EngineExits, EngineCrashes, Answer, Timeout, manager, calls
  <1>7. ASSUME NEW g \in Gen, Compare(g) \/ ClearSender(g) PROVE GenerationsInOrder'
    BY <1>1, <1>7 DEF Compare, ClearSender, manager, calls, TypeOK
  <1>8. ASSUME NEW g \in Gen, StreamError(g) \/ Terminated(g) PROVE GenerationsInOrder'
    <2>1. g <= status.gen
      BY <1>8 DEF StreamError, Terminated, GenerationsInOrder
    <2>2. status'.gen = status.gen
      <3>1. status' = status \/ (status'.gen = g /\ ~(g < status.gen))
        <4>1. CASE StreamError(g)
          <5>1. [status EXCEPT !.gen = g, !.running = FALSE].gen = g
            BY DEF TypeOK, Status
          <5> QED
            BY <4>1, <5>1 DEF StreamError, UpdateStatus
        <4>2. CASE Terminated(g)
          BY <4>2 DEF Terminated, UpdateStatus
        <4> QED
          BY <1>8, <4>1, <4>2
      <3> QED
        BY <1>0, <2>1, <3>1
    <2>3. \A h \in Gen : reader'[h].at # "none" => reader[h].at # "none"
      BY <1>8 DEF StreamError, Terminated, TypeOK
    <2> QED
      BY <1>8, <2>2, <2>3 DEF StreamError, Terminated, GenerationsInOrder, calls
  <1>9. CASE UNCHANGED vars
    BY <1>9 DEF vars, manager, calls, engine, GenerationsInOrder
  <1> QED
    BY <1>2, <1>3, <1>4, <1>5, <1>6, <1>7, <1>8, <1>9 DEF Next, Call, WriterTask, ReaderTask

\* A step that touches neither the status nor the readers, and neither revives
\* a process nor forgets a fault, keeps the status true.
LEMMA StatusFramed ==
    ASSUME TypeOK, StatusFollowsNewest, status' = status,
           \A g \in Gen : /\ reader'[g].at # "none" => reader[g].at # "none"
                          /\ reader[g].at = "on" => reader'[g].at = "on"
                          /\ child[g] = "dead" => child'[g] = "dead",
           faulty \subseteq faulty'
    PROVE  StatusFollowsNewest'
  <1>1. status.gen # 0 => status.gen \in Gen
    BY BoundAssumption DEF TypeOK, Status, Gen, GenOrNone
  <1> QED
    BY <1>1 DEF StatusFollowsNewest

\* Every step keeps the status true: events of older generations are ignored,
\* and an event of the newest one tells the truth about it.
LEMMA NextStatus ==
    TypeOK /\ GenerationsInOrder /\ StatusFollowsNewest /\ [Next]_vars => StatusFollowsNewest'
  <1> SUFFICES ASSUME TypeOK, GenerationsInOrder, StatusFollowsNewest, [Next]_vars
               PROVE  StatusFollowsNewest'
    OBVIOUS
  <1>0. /\ status.gen \in Nat /\ next \in Nat /\ (status.gen # 0 => status.gen \in Gen)
        /\ \A c \in Callers : gen[c] \in Nat /\ (gen[c] # 0 => gen[c] \in Gen)
        /\ \A g \in Gen : g \in Nat /\ g # 0
    BY BoundAssumption DEF TypeOK, Status, Gen, GenOrNone
  <1>1. ASSUME NEW c \in Callers,
               Restart(c) \/ Replace(c) \/ Start(c) \/ SpawnFails(c) \/ Store(c) \/ Probe(c)
        PROVE  StatusFollowsNewest'
    BY <1>1, StatusFramed DEF Restart, Replace, Start, SpawnFails, Store, Probe, manager, engine, history
  <1>2. ASSUME NEW c \in Callers, Spawn(c) PROVE StatusFollowsNewest'
    <2>1. status.gen # next
      BY <1>0 DEF GenerationsInOrder
    <2>2. status.gen # 0 => child'[status.gen] = child[status.gen]
      BY <1>0, <1>2, <2>1 DEF Spawn, TypeOK
    <2> QED
      BY <1>2, <2>2 DEF Spawn, StatusFollowsNewest, history
  <1>3. ASSUME NEW c \in Callers, Publish(c) PROVE StatusFollowsNewest'
    <2>1. \A g \in Gen : /\ reader'[g].at # "none" => g = gen[c] \/ reader[g].at # "none"
                         /\ g # gen[c] => reader'[g] = reader[g]
                         /\ g = gen[c] => reader'[g].at = "on"
      BY <1>3 DEF Publish, TypeOK
    <2>2. CASE gen[c] < status.gen
      <3>1. status' = status
        BY <1>3, <2>2 DEF Publish, UpdateStatus
      <3>2. \A g \in Gen : reader'[g].at # "none" => g <= status.gen
        BY <1>0, <2>1, <2>2 DEF GenerationsInOrder
      <3> QED
        BY <1>0, <1>3, <2>1, <3>1, <3>2 DEF Publish, StatusFollowsNewest, history
    <2>3. CASE ~(gen[c] < status.gen)
      <3>1. status' = [gen |-> gen[c], running |-> TRUE, pid |-> gen[c]]
        BY <1>3, <2>3 DEF Publish, UpdateStatus
      <3>2. \A g \in Gen : reader'[g].at # "none" => g <= gen[c]
        BY <1>0, <2>1, <2>3 DEF GenerationsInOrder
      <3> QED
        BY <1>0, <2>1, <3>1, <3>2 DEF StatusFollowsNewest
    <2> QED
      BY <2>2, <2>3
  <1>4. ASSUME NEW k \in Clients, CloneSender(k) \/ SendRequest(k) PROVE StatusFollowsNewest'
    BY <1>4, StatusFramed DEF CloneSender, SendRequest, manager, engine, history
  <1>5. ASSUME NEW g \in Gen,
               Write(g) \/ WriterEnds(g) \/ Answer(g) \/ Timeout(g)
        PROVE  StatusFollowsNewest'
    BY <1>5, StatusFramed DEF Write, WriterEnds, Answer, Timeout, manager, history
  <1>6. ASSUME NEW g \in Gen, Kill(g) \/ EngineExits(g) PROVE StatusFollowsNewest'
    <2>1. \A h \in Gen : child[h] = "dead" => child'[h] = "dead"
      BY <1>6 DEF Kill, EngineExits, TypeOK
    <2> QED
      BY <1>6, <2>1, StatusFramed DEF Kill, EngineExits, manager, history
  <1>7. ASSUME NEW g \in Gen, EngineCrashes(g) PROVE StatusFollowsNewest'
    <2>1. \A h \in Gen : child[h] = "dead" => child'[h] = "dead"
      BY <1>7 DEF EngineCrashes, TypeOK
    <2> QED
      BY <1>7, <2>1, StatusFramed DEF EngineCrashes, Fault, manager
  <1>8. ASSUME NEW g \in Gen, Compare(g) \/ ClearSender(g) PROVE StatusFollowsNewest'
    <2>1. \A h \in Gen : /\ reader'[h].at # "none" => reader[h].at # "none"
                         /\ reader[h].at = "on" => reader'[h].at = "on"
      BY <1>8 DEF Compare, ClearSender, TypeOK
    <2> QED
      BY <1>8, <2>1, StatusFramed DEF Compare, ClearSender, manager, history
  <1>9. ASSUME NEW g \in Gen, StreamError(g) PROVE StatusFollowsNewest'
    <2>1. g <= status.gen /\ status.gen # 0
      BY <1>0, <1>9 DEF StreamError, GenerationsInOrder
    <2>2. \A h \in Gen : /\ reader'[h].at # "none" => reader[h].at # "none"
                         /\ h # g => reader'[h] = reader[h]
      BY <1>9 DEF StreamError, TypeOK
    <2>3. CASE g < status.gen
      <3>1. status' = status /\ status.gen # g
        BY <1>0, <1>9, <2>3 DEF StreamError, UpdateStatus
      <3>2. child' = child /\ faulty \subseteq faulty'
        BY <1>9 DEF StreamError, Fault
      <3> QED
        BY <1>0, <2>1, <2>2, <3>1, <3>2 DEF StatusFollowsNewest
    <2>4. CASE g = status.gen
      <3>1. status'.gen = g /\ ~status'.running
        BY <1>0, <1>9, <2>4 DEF StreamError, UpdateStatus, TypeOK, Status
      <3>2. g \in faulty'
        BY <1>9 DEF StreamError, Fault
      <3> QED
        BY <2>1, <2>2, <2>4, <3>1, <3>2 DEF StatusFollowsNewest
    <2> QED
      BY <1>0, <2>1, <2>3, <2>4
  <1>10. ASSUME NEW g \in Gen, Terminated(g) PROVE StatusFollowsNewest'
    <2>1. g <= status.gen /\ status.gen # 0
      BY <1>0, <1>10 DEF Terminated, GenerationsInOrder
    <2>2. \A h \in Gen : /\ reader'[h].at # "none" => reader[h].at # "none"
                         /\ h # g => reader'[h] = reader[h]
      BY <1>10 DEF Terminated, TypeOK
    <2>3. child' = child /\ faulty' = faulty /\ child[g] = "dead"
      BY <1>10 DEF Terminated, history
    <2>4. CASE g < status.gen
      <3>1. status' = status /\ status.gen # g
        BY <1>0, <1>10, <2>4 DEF Terminated, UpdateStatus
      <3> QED
        BY <1>0, <2>1, <2>2, <2>3, <3>1 DEF StatusFollowsNewest
    <2>5. CASE g = status.gen
      <3>1. status'.gen = g /\ ~status'.running
        BY <1>0, <1>10, <2>5 DEF Terminated, UpdateStatus
      <3> QED
        BY <2>1, <2>2, <2>3, <2>5, <3>1 DEF StatusFollowsNewest
    <2> QED
      BY <1>0, <2>1, <2>4, <2>5
  <1>11. CASE UNCHANGED vars
    BY <1>11 DEF vars, manager, engine, history, StatusFollowsNewest
  <1> QED
    BY <1>1, <1>2, <1>3, <1>4, <1>5, <1>6, <1>7, <1>8, <1>9, <1>10, <1>11
       DEF Next, Call, WriterTask, ReaderTask

\* The status record never lies about the newest engine, however many calls,
\* clients and engines there are and however their steps interleave.
THEOREM StatusIsTrue == Spec => []StatusFollowsNewest
  <1>1. Init => GenerationsInOrder /\ StatusFollowsNewest
    BY DEF Init, GenerationsInOrder, StatusFollowsNewest
  <1> QED
    BY <1>1, InitTypeOK, NextTypeOK, NextInOrder, NextStatus, PTL DEF Spec
=============================================================================
