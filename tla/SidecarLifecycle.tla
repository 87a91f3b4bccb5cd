-------------------------- MODULE SidecarLifecycle --------------------------
(***************************************************************************)
(* The desktop shell's engine manager (src-tauri/src/sidecar.rs).  Each    *)
(* start of the Python engine is a generation with its own process, its    *)
(* own bounded command queue and two tasks: the writer feeds the queue to  *)
(* the process's stdin and holds the process handle, the reader applies    *)
(* the process's events.  The manager shared by all of them is one slot    *)
(* for the current sender (tx) and one status record, each behind a lock   *)
(* of its own; a step of this module holds at most one of them.            *)
(*                                                                         *)
(* Generations count from 1; 0 stands for None.  Message texts are left    *)
(* out.  A process that loses its stdin ends by itself (the engine's main  *)
(* loop leaves at end of input).                                           *)
(***************************************************************************)
EXTENDS Naturals, Sequences, FiniteSets

CONSTANTS
    Callers,    \* concurrent calls of start_python_sidecar / restart
    Setup,      \* the call the application makes while it starts
    Clients,    \* concurrent calls of send_command
    Cap,        \* capacity of a command queue (64 in the code)
    MaxGen,     \* bound: engines started
    MaxFaults   \* bound: failed spawns, crashes and stream errors of engines

ASSUME SetupAssumption == Setup \in Callers
ASSUME CapAssumption == Cap \in Nat \ {0}
ASSUME BoundAssumption == MaxGen \in Nat \ {0} /\ MaxFaults \in Nat

Gen == 1..MaxGen
GenOrNone == 0..MaxGen

VARIABLES
    tx,         \* manager.tx: the generation whose sender is current
    status,     \* manager.status
    next,       \* manager.next_generation
    pc, gen,    \* the calls: where each is, and the engine it started
    held,       \* the senders cloned by send_command
    queue,      \* the command queues
    child,      \* the processes
    writer,     \* the stdin tasks
    reader,     \* the event tasks; last: the event is Terminated
    probe,      \* the capability handshake of each engine
    faults,     \* bound
    faulty      \* history: engines that crashed or whose stream failed

manager == <<tx, status, next>>
calls == <<pc, gen>>
engine == <<queue, child, writer, reader, probe>>
history == <<faults, faulty>>
vars == <<manager, calls, held, engine, history>>

Message == {"request", "capabilities", "stop"}
Event == {"none", "on", "compare", "clear", "off"}
Status == [gen : GenOrNone, running : BOOLEAN, pid : GenOrNone]

\* The lifecycle's own type invariant.
TypeOK ==
    /\ tx \in GenOrNone /\ status \in Status /\ next \in 1..(MaxGen + 1)
    /\ pc \in [Callers -> {"idle", "start", "replace", "spawn", "store", "publish", "probe"}]
    /\ gen \in [Callers -> GenOrNone]
    /\ held \in [Clients -> GenOrNone]
    /\ queue \in [Gen -> Seq(Message)] /\ \A g \in Gen : Len(queue[g]) <= Cap
    /\ child \in [Gen -> {"none", "alive", "dead"}]
    /\ writer \in [Gen -> {"none", "on", "off"}]
    /\ reader \in [Gen -> [at : Event, last : BOOLEAN]]
    /\ probe \in [Gen -> {"none", "asked", "answered", "flagged"}]
    /\ faults \in 0..MaxFaults /\ faulty \subseteq Gen

Init ==
    /\ tx = 0 /\ next = 1
    /\ status = [gen |-> 0, running |-> FALSE, pid |-> 0]
    /\ pc = [c \in Callers |-> IF c = Setup THEN "start" ELSE "idle"]
    /\ gen = [c \in Callers |-> 0] /\ held = [c \in Clients |-> 0]
    /\ queue = [g \in Gen |-> <<>>] /\ child = [g \in Gen |-> "none"]
    /\ writer = [g \in Gen |-> "none"]
    /\ reader = [g \in Gen |-> [at |-> "none", last |-> FALSE]]
    /\ probe = [g \in Gen |-> "none"]
    /\ faults = 0 /\ faulty = {}

Goto(c, label) == pc' = [pc EXCEPT ![c] = label]

-----------------------------------------------------------------------------
(* The manager                                                             *)

\* MUTANT of UpdateStatus: the generation is not compared.
UpdateStatus_AnyGeneration(g, s) == status' = s

\* update_status: an update of an older generation is ignored.
UpdateStatus(g, s) == status' = IF g < status.gen THEN status ELSE s

\* MUTANT of CanSend: the queue takes any number of messages.
CanSend_Unbounded(g) == writer[g] # "off"

\* try_send: a full queue, or one whose writer is gone, refuses the message.
CanSend(g) == Len(queue[g]) < Cap /\ writer[g] # "off"
TrySend(g, m) ==
    queue' = IF CanSend(g) THEN [queue EXCEPT ![g] = Append(@, m)] ELSE queue

\* stop_current_sidecar: the sender is taken; Stop is sent if it fits.
StopCurrent ==
    IF tx = 0 THEN UNCHANGED <<tx, queue>> ELSE tx' = 0 /\ TrySend(tx, "stop")

-----------------------------------------------------------------------------
(* start_python_sidecar and restart_python_sidecar                         *)

\* Bound: a restart that begins can spawn.
SpawnsLeft == next + Cardinality({c \in Callers : pc[c] \in {"start", "replace", "spawn"}}) <= MaxGen

Restart(c) ==
    /\ pc[c] = "idle" /\ SpawnsLeft
    /\ StopCurrent
    /\ Goto(c, "replace")
    /\ UNCHANGED <<status, next, gen, held, child, writer, reader, probe, history>>

\* replace_existing: stopped once more.
Replace(c) ==
    /\ pc[c] = "replace"
    /\ StopCurrent
    /\ Goto(c, "spawn")
    /\ UNCHANGED <<status, next, gen, held, child, writer, reader, probe, history>>

\* The first start returns when there is an engine.
Start(c) ==
    /\ pc[c] = "start"
    /\ Goto(c, IF tx # 0 THEN "idle" ELSE "spawn")
    /\ UNCHANGED <<manager, gen, held, engine, history>>

Spawn(c) ==
    /\ pc[c] = "spawn" /\ next <= MaxGen
    /\ child' = [child EXCEPT ![next] = "alive"]
    /\ gen' = [gen EXCEPT ![c] = next] /\ next' = next + 1
    /\ Goto(c, "store")
    /\ UNCHANGED <<tx, status, held, queue, writer, reader, probe, history>>

SpawnFails(c) ==
    /\ pc[c] = "spawn" /\ faults < MaxFaults
    /\ faults' = faults + 1
    /\ Goto(c, "idle")
    /\ UNCHANGED <<manager, gen, held, engine, faulty>>

\* The new sender replaces whatever is in the slot, without a Stop.
Store(c) ==
    /\ pc[c] = "store"
    /\ tx' = gen[c]
    /\ Goto(c, "publish")
    /\ UNCHANGED <<status, next, gen, held, engine, history>>

\* The status names the new engine and its two tasks start.
Publish(c) ==
    LET g == gen[c] IN
    /\ pc[c] = "publish"
    /\ UpdateStatus(g, [gen |-> g, running |-> TRUE, pid |-> g])
    /\ writer' = [writer EXCEPT ![g] = "on"]
    /\ reader' = [reader EXCEPT ![g].at = "on"]
    /\ Goto(c, "probe")
    /\ UNCHANGED <<tx, next, gen, held, queue, child, probe, history>>

\* The handshake goes to the sender that is current now.
Probe(c) ==
    /\ pc[c] = "probe"
    /\ IF tx = 0 THEN UNCHANGED queue ELSE TrySend(tx, "capabilities")
    /\ Goto(c, "idle")
    /\ UNCHANGED <<manager, gen, held, child, writer, reader, probe, history>>

-----------------------------------------------------------------------------
(* send_command                                                            *)

CloneSender(k) ==
    /\ held[k] = 0 /\ tx # 0
    /\ held' = [held EXCEPT ![k] = tx]
    /\ UNCHANGED <<manager, calls, engine, history>>

SendRequest(k) ==
    /\ held[k] # 0
    /\ TrySend(held[k], "request")
    /\ held' = [held EXCEPT ![k] = 0]
    /\ UNCHANGED <<manager, calls, child, writer, reader, probe, history>>

-----------------------------------------------------------------------------
(* The writer task of engine g                                             *)

\* MUTANT of Closed: a task keeps a sender of its own queue.
Closed_LeakedSender(g) == FALSE

\* No sender of g's queue is left.
Closed(g) == tx # g /\ \A k \in Clients : held[k] # g

\* A failing write only changes the status text.
Write(g) ==
    /\ writer[g] = "on" /\ queue[g] # <<>> /\ Head(queue[g]) # "stop"
    /\ queue' = [queue EXCEPT ![g] = Tail(@)]
    /\ probe' = IF Head(queue[g]) = "capabilities" /\ child[g] = "alive" /\ probe[g] = "none"
                THEN [probe EXCEPT ![g] = "asked"] ELSE probe
    /\ UNCHANGED <<manager, calls, held, child, writer, reader, history>>

\* kill and tree_kill; what is queued behind Stop is dropped with the queue.
Kill(g) ==
    /\ writer[g] = "on" /\ queue[g] # <<>> /\ Head(queue[g]) = "stop"
    /\ child' = [child EXCEPT ![g] = "dead"]
    /\ writer' = [writer EXCEPT ![g] = "off"]
    /\ queue' = [queue EXCEPT ![g] = <<>>]
    /\ UNCHANGED <<manager, calls, held, reader, probe, history>>

\* Every sender is gone and the queue is drained: recv returns None and the
\* process handle is dropped with the task, which closes stdin.
WriterEnds(g) ==
    /\ writer[g] = "on" /\ queue[g] = <<>> /\ Closed(g)
    /\ writer' = [writer EXCEPT ![g] = "off"]
    /\ UNCHANGED <<manager, calls, held, queue, child, reader, probe, history>>

-----------------------------------------------------------------------------
(* The engine process                                                      *)

\* End of input: the engine's main loop ends (signalos_ipc_server.main).
EngineExits(g) ==
    /\ child[g] = "alive" /\ writer[g] = "off"
    /\ child' = [child EXCEPT ![g] = "dead"]
    /\ UNCHANGED <<manager, calls, held, queue, writer, reader, probe, history>>

Fault(g) == faults < MaxFaults /\ faults' = faults + 1 /\ faulty' = faulty \cup {g}

EngineCrashes(g) ==
    /\ child[g] = "alive" /\ Fault(g)
    /\ child' = [child EXCEPT ![g] = "dead"]
    /\ UNCHANGED <<manager, calls, held, queue, writer, reader, probe>>

-----------------------------------------------------------------------------
(* The reader task of engine g                                             *)

\* The handshake response: handle_handshake_response only changes texts.
Answer(g) ==
    /\ reader[g].at = "on" /\ child[g] = "alive" /\ probe[g] = "asked"
    /\ probe' = [probe EXCEPT ![g] = "answered"]
    /\ UNCHANGED <<manager, calls, held, queue, child, writer, reader, history>>

\* MUTANT of Timeout: only an engine that was asked is flagged.
Timeout_OnlyAsked(g) ==
    /\ reader[g].at # "none" /\ probe[g] = "asked"
    /\ probe' = [probe EXCEPT ![g] = "flagged"]
    /\ UNCHANGED <<manager, calls, held, queue, child, writer, reader, history>>

\* The handshake guard: no answer within HANDSHAKE_TIMEOUT_SECS.
Timeout(g) ==
    /\ reader[g].at # "none" /\ probe[g] \in {"none", "asked"}
    /\ probe' = [probe EXCEPT ![g] = "flagged"]
    /\ UNCHANGED <<manager, calls, held, queue, child, writer, reader, history>>

\* CommandEvent::Error: the stream failed, the process may still run.
StreamError(g) ==
    /\ reader[g].at = "on" /\ Fault(g)
    /\ UpdateStatus(g, [status EXCEPT !.gen = g, !.running = FALSE])
    /\ reader' = [reader EXCEPT ![g] = [at |-> "compare", last |-> FALSE]]
    /\ UNCHANGED <<tx, next, calls, held, queue, child, writer, probe>>

\* CommandEvent::Terminated
Terminated(g) ==
    /\ reader[g].at = "on" /\ child[g] = "dead"
    /\ UpdateStatus(g, [gen |-> g, running |-> FALSE, pid |-> 0])
    /\ reader' = [reader EXCEPT ![g] = [at |-> "compare", last |-> TRUE]]
    /\ UNCHANGED <<tx, next, calls, held, queue, child, writer, probe, history>>

AfterEvent(g) == IF reader[g].last THEN "off" ELSE "on"

\* clear_sender_if_generation compares under the status lock ...
Compare(g) ==
    /\ reader[g].at = "compare"
    /\ reader' = [reader EXCEPT ![g].at = IF status.gen = g THEN "clear" ELSE AfterEvent(g)]
    /\ UNCHANGED <<manager, calls, held, queue, child, writer, probe, history>>

\* ... and clears under the sender's lock.
ClearSender(g) ==
    /\ reader[g].at = "clear"
    /\ tx' = 0
    /\ reader' = [reader EXCEPT ![g].at = AfterEvent(g)]
    /\ UNCHANGED <<status, next, calls, held, queue, child, writer, probe, history>>

-----------------------------------------------------------------------------
Call(c) ==
    \/ Replace(c) \/ Start(c) \/ Spawn(c) \/ SpawnFails(c)
    \/ Store(c) \/ Publish(c) \/ Probe(c)

WriterTask(g) == Write(g) \/ Kill(g) \/ WriterEnds(g)
ReaderTask(g) == Terminated(g) \/ Compare(g) \/ ClearSender(g)

Next ==
    \/ \E c \in Callers : Restart(c) \/ Call(c)
    \/ \E k \in Clients : CloneSender(k) \/ SendRequest(k)
    \/ \E g \in Gen :
          \/ WriterTask(g) \/ ReaderTask(g)
          \/ EngineExits(g) \/ EngineCrashes(g) \/ Answer(g) \/ Timeout(g) \/ StreamError(g)

Spec == Init /\ [][Next]_vars

\* The async runtime runs every task that is ready, an engine notices the end
\* of its input, the handshake timer fires.  Nobody has to restart or to send.
Fairness ==
    /\ \A c \in Callers : WF_vars(Call(c))
    /\ \A k \in Clients : WF_vars(SendRequest(k))
    /\ \A g \in Gen : /\ WF_vars(WriterTask(g)) /\ WF_vars(ReaderTask(g))
                      /\ WF_vars(EngineExits(g)) /\ WF_vars(Timeout(g))

FairSpec == Spec /\ Fairness

-----------------------------------------------------------------------------
(* Properties                                                              *)

\* However starts, restarts and the events of several engines interleave, the
\* status follows the newest published engine: it says running only while that
\* engine's reader still waits for its exit, and stopped only after that engine
\* ended or failed; late events of a replaced engine change nothing
\* (update_status).
StatusFollowsNewest ==
    status.gen # 0 =>
        /\ \A g \in Gen : reader[g].at # "none" => g <= status.gen
        /\ status.running => reader[status.gen].at = "on"
        /\ ~status.running => child[status.gen] = "dead" \/ status.gen \in faulty

\* An engine that is no longer the current one is not left behind: its process
\* ends, even when Stop did not fit into its queue or its sender was replaced
\* without a Stop (stop_current_sidecar, the writer task).
ReplacedEnginesEnd ==
    \A g \in Gen : (reader[g].at # "none" /\ [](tx # g)) ~> child[g] = "dead"

\* Every engine that was put into service is judged: it answers the handshake
\* or is flagged, also when its handshake was lost or went to another engine
\* (the handshake-timeout guard).
NeverBlind ==
    \A g \in Gen : reader[g].at # "none" ~> probe[g] \in {"answered", "flagged"}

\* "A restartable runtime": when every call has returned and nothing failed, the
\* engine that was started last can be sent commands (restart_python_sidecar).
RestartConnects ==
    (\A c \in Callers : pc[c] = "idle") /\ next > 1 /\ faults = 0 => tx # 0
=============================================================================
