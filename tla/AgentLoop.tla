----------------------------- MODULE AgentLoop -----------------------------
(***************************************************************************)
(* One governed agent run (product/agent_loop.py): provider turns, tool    *)
(* calls under governance, a ledger, a conversation and a state file that  *)
(* survive a crash, and a resume that continues from them.                 *)
(*                                                                         *)
(* A conversation is the number of its tool answers, of those that report  *)
(* success, and of the calls still unanswered.  Provider and model may do  *)
(* anything; ledger and sandbox may fail; the process may die between any  *)
(* two steps.                                                              *)
(***************************************************************************)
EXTENDS Integers

CONSTANTS
    Limit,        \* tool_call_limit
    PerTurn,      \* bound: well-formed tool calls in one provider turn
    MaxReprompts, MaxContinues,
    StallWindow, RepeatLimit,
    Kinds,        \* kinds of run: [tools, work, seat]
    MaxFaults,    \* bound: faults of the surroundings
    MaxResumes    \* bound: resumes

Kind == [tools : BOOLEAN, work : BOOLEAN, seat : BOOLEAN]

ASSUME LoopAssumption ==
    /\ Limit \in Nat \ {0} /\ PerTurn \in Nat \ {0}
    /\ MaxReprompts \in Nat /\ MaxContinues \in Nat
    /\ StallWindow \in Nat \ {0} /\ RepeatLimit \in Nat \ {0}
    /\ Kinds \subseteq Kind /\ MaxFaults \in Nat /\ MaxResumes \in Nat

VARIABLES
    kind,       \* adapter and mode of the present AgentLoop object
    mode,       \* step of the loop; "off": no loop runs
    next,       \* where the loop goes once its state is published
    made,       \* tool_calls_made
    talk,       \* messages
    call,       \* the tool call being dispatched and how it went so far
    retries,    \* reprompts_used, continues_used
    streak,     \* _no_progress_streak, _repeat_cmd_streak; a command was run
    session,    \* the seat's container runs
    result,     \* status of the LoopResult, "raised", "killed"
    saved,      \* state.json
    conv,       \* conversation.jsonl
    rows,       \* ledger rows that say completed
    tampered,   \* changes a blocking rule forbids that are in the workspace
    cancel,     \* cancel_check()
    faults, resumes,
    executed,   \* history: dispatched calls
    lost,       \* history: loops that ended without publishing their count
    dropped,    \* history: charges a resume without tools struck from the count
    excused     \* history: forbidden changes that a fault left in place

memory == <<kind, next, made, talk, call, retries, streak>>
disk == <<saved, conv, rows, tampered>>
history == <<executed, lost, dropped, excused>>
env == <<cancel, faults, resumes>>
vars == <<memory, mode, session, result, disk, history, env>>

Ends == {"completed", "max_tokens", "stalled_no_tool", "budget_exhausted",
         "stalled_no_progress", "error", "cancelled", "text_only"}
Statuses == Ends \cup {"none", "running"}
Modes == {"off", "turn", "calls", "command", "audit", "text", "publish", "teardown"}
Tools == {"read", "write", "command"}
NoCall == [tool |-> "read", went |-> "ok"]
NewStreak == [idle |-> 0, repeat |-> 0, ran |-> FALSE]
NoTalk == [answers |-> 0, oks |-> 0, open |-> 0]
Absent == [answers |-> -1, oks |-> 0, open |-> 0]

\* The loop's type invariant: a count never passes the limit and a streak never
\* passes the length at which the seat is stopped.
Talk == [answers : Nat, oks : Nat, open : 0..PerTurn]
TypeOK ==
    /\ kind \in Kind /\ mode \in Modes /\ next \in {"turn", "text"} \cup Ends
    /\ made \in 0..Limit /\ talk \in Talk
    /\ call \in [tool : Tools, went : {"ok", "denied", "skipped", "error", "sandbox"}]
    /\ retries \in [reprompts : 0..MaxReprompts, continues : 0..MaxContinues]
    /\ streak \in [idle : 0..StallWindow, repeat : 0..RepeatLimit, ran : BOOLEAN]
    /\ session \in BOOLEAN /\ result \in Statuses \cup {"raised", "killed"}
    /\ saved \in [status : Statuses, made : 0..Limit] /\ conv \in Talk \cup {Absent}
    /\ rows \in Nat /\ tampered \in Nat /\ cancel \in BOOLEAN
    /\ faults \in 0..MaxFaults /\ resumes \in 0..MaxResumes
    /\ executed \in Nat /\ lost \in Nat /\ dropped \in Nat /\ excused \in Nat

Init ==
    /\ kind \in Kinds /\ mode = "off" /\ next = "turn"
    /\ made = 0 /\ talk = NoTalk /\ call = NoCall
    /\ retries = [reprompts |-> 0, continues |-> 0]
    /\ streak = NewStreak
    /\ session = FALSE /\ result = "none"
    /\ saved = [status |-> "none", made |-> 0] /\ conv = Absent
    /\ rows = 0 /\ tampered = 0 /\ cancel = FALSE
    /\ faults = 0 /\ resumes = 0
    /\ executed = 0 /\ lost = 0 /\ dropped = 0 /\ excused = 0

Fault == faults < MaxFaults /\ faults' = faults + 1

-----------------------------------------------------------------------------
(* Publishing state, ending, failing                                       *)

\* _persist_state replaces state.json, then conversation.jsonl.
\* MUTANT of StateFile: the count of the turn before is written.
StateFile_Stale(status) == [status |-> status, made |-> saved.made]
StateFile(status) == [status |-> status, made |-> made]
Persist(status, then) ==
    /\ saved' = StateFile(status)
    /\ mode' = "publish" /\ next' = then

Publish ==
    /\ mode = "publish"
    /\ conv' = talk
    /\ mode' = IF next \in Ends THEN "teardown" ELSE next
    /\ UNCHANGED <<memory, session, result, saved, rows, tampered, history, env>>

\* The finally clause of _run_tool_loop: a container that cannot be shown to be
\* gone turns the result, but not the state file, into an error.
Teardown ==
    /\ mode = "teardown" /\ mode' = "off"
    /\ \/ session' = FALSE /\ UNCHANGED faults
       \/ session /\ Fault /\ UNCHANGED session
    /\ result' = IF session' THEN "error" ELSE next
    /\ UNCHANGED <<memory, disk, history, cancel, resumes>>

\* An exception leaves the loop: the container is removed, nothing is saved.
Raise ==
    /\ mode' = "off" /\ result' = "raised"
    /\ session' \in {FALSE, session}
    /\ lost' = lost + 1

Crash ==
    /\ mode # "off" /\ Fault
    /\ mode' = "off" /\ result' = "killed" /\ lost' = lost + 1
    /\ excused' = tampered
    /\ UNCHANGED <<memory, session, disk, executed, dropped, cancel, resumes>>

CancelRequest ==
    /\ ~cancel /\ mode # "off" /\ cancel' = TRUE
    /\ UNCHANGED <<memory, mode, session, result, disk, history, faults, resumes>>

-----------------------------------------------------------------------------
(* run and resume                                                          *)

\* A fresh AgentLoop object.
Enter(m, t) ==
    /\ made' = m /\ talk' = t /\ call' = NoCall
    /\ retries' = [reprompts |-> 0, continues |-> 0]
    /\ streak' = NewStreak
    /\ session' = FALSE /\ result' = "none"

Run ==
    /\ mode = "off" /\ saved.status = "none"
    /\ Enter(0, NoTalk)
    /\ saved' = [status |-> "running", made |-> 0]
    /\ mode' = "publish" /\ next' = IF kind.tools THEN "turn" ELSE "text"
    /\ UNCHANGED <<kind, conv, rows, tampered, history, env>>

Terminal == {"completed", "text_only", "cancelled"}

\* The unfinished run continues as a conversation; a terminal one is returned as
\* it is.  The adapter is that of the resume request: with tool calls the saved
\* count goes on, without them _run_text_only writes a count of 0 beside the
\* whole conversation.  The cancel flag may have died with the process.
Resume ==
    /\ mode = "off" /\ saved.status \notin Terminal \cup {"none"} /\ conv # Absent
    /\ resumes < MaxResumes /\ resumes' = resumes + 1
    /\ \E tools \in BOOLEAN :
         /\ kind' = [tools |-> tools, work |-> FALSE, seat |-> FALSE]
         /\ Enter(IF tools THEN saved.made ELSE 0, conv)
         /\ saved' = [status |-> "running", made |-> made']
         /\ mode' = "publish" /\ next' = IF tools THEN "turn" ELSE "text"
         /\ dropped' = dropped + (saved.made - made')
    /\ cancel' \in {FALSE, cancel}
    /\ UNCHANGED <<conv, rows, tampered, executed, lost, excused, faults>>

\* Nothing to resume, or the enforcement state cannot be loaded.
Refused ==
    /\ mode = "off" /\ result # "error"
    /\ \/ saved.status # "none" /\ conv = Absent /\ UNCHANGED faults
       \/ saved.status \notin Terminal /\ Fault
    /\ result' = "error"
    /\ UNCHANGED <<memory, mode, session, disk, history, cancel, resumes>>

-----------------------------------------------------------------------------
(* One provider turn                                                       *)

AtTurn == mode = "turn"
Free == AtTurn /\ ~cancel /\ made < Limit

Cancelled ==
    /\ AtTurn /\ cancel
    /\ Persist("cancelled", "cancelled")
    /\ UNCHANGED <<kind, made, talk, call, retries, streak, session, result, conv, rows, tampered, history, env>>

Exhausted ==
    /\ AtTurn /\ ~cancel /\ made >= Limit
    /\ Persist("budget_exhausted", "budget_exhausted")
    /\ UNCHANGED <<kind, made, talk, call, retries, streak, session, result, conv, rows, tampered, history, env>>

ProviderFails ==
    /\ Free /\ Fault
    /\ Persist("error", "error")
    /\ UNCHANGED <<kind, made, talk, call, retries, streak, session, result, conv, rows, tampered, history, cancel, resumes>>

\* MUTANT of Continued: the continuation is not counted.
Continued_Uncounted == retries
Continued == [retries EXCEPT !.continues = @ + 1]

Truncated ==
    /\ Free
    /\ IF retries.continues < MaxContinues
       THEN /\ retries' = Continued
            /\ Persist("running", "turn")
       ELSE Persist("max_tokens", "max_tokens") /\ UNCHANGED retries
    /\ UNCHANGED <<kind, made, talk, call, streak, session, result, conv, rows, tampered, history, env>>

\* No well-formed tool call: a run that is expected to work and has not called
\* a tool yet is asked again.
Narrates ==
    /\ Free
    /\ LET idle == kind.work /\ made = 0 IN
       \/ /\ idle /\ retries.reprompts < MaxReprompts
          /\ retries' = [retries EXCEPT !.reprompts = @ + 1]
          /\ Persist("running", "turn")
       \/ /\ idle /\ retries.reprompts = MaxReprompts
          /\ Persist("stalled_no_tool", "stalled_no_tool") /\ UNCHANGED retries
       \/ ~idle /\ Persist("completed", "completed") /\ UNCHANGED retries
    /\ UNCHANGED <<kind, made, talk, call, streak, session, result, conv, rows, tampered, history, env>>

CallsTools ==
    /\ Free
    /\ \E n \in 1..PerTurn : talk' = [talk EXCEPT !.open = n]
    /\ mode' = "calls"
    /\ UNCHANGED <<kind, next, made, call, retries, streak, session, result, disk, history, env>>

\* _run_text_only: an error is returned but not saved.
TextAnswer ==
    /\ mode = "text"
    /\ \/ /\ saved' = [status |-> "text_only", made |-> 0]
          /\ mode' = "publish" /\ next' = "text_only"
          /\ UNCHANGED <<result, faults>>
       \/ /\ Fault /\ mode' = "off" /\ result' = "error" /\ UNCHANGED <<saved, next>>
    /\ UNCHANGED <<kind, made, talk, call, retries, streak, session, conv, rows, tampered, history, cancel, resumes>>

-----------------------------------------------------------------------------
(* Tool calls                                                              *)

AtCall == mode = "calls" /\ talk.open > 0

TurnDone ==
    /\ mode = "calls" /\ talk.open = 0
    /\ Persist("running", "turn")
    /\ UNCHANGED <<kind, made, talk, call, retries, streak, session, result, conv, rows, tampered, history, env>>

\* The budget ends in the middle of a turn: the rest stays unanswered.
\* MUTANT of Spent: the budget is only looked at between turns.
Spent_BetweenTurns == FALSE
Spent == made >= Limit

ExhaustedInTurn ==
    /\ AtCall /\ Spent
    /\ Persist("budget_exhausted", "budget_exhausted")
    /\ UNCHANGED <<kind, made, talk, call, retries, streak, session, result, conv, rows, tampered, history, env>>

Dispatch ==
    /\ AtCall /\ ~Spent
    /\ made' = made + 1 /\ executed' = executed + 1

\* _check_governance denies, a write finds its content present, a tool answers
\* or raises: reads, writes and edits.
DispatchFile ==
    /\ Dispatch
    /\ call' \in [tool : Tools, went : {"denied"}]
           \cup [tool : {"write"}, went : {"ok", "skipped", "error"}]
           \cup [tool : {"read"}, went : {"ok", "error"}]
    /\ mode' = "audit"
    /\ UNCHANGED <<kind, next, talk, retries, streak, session, result, disk, lost, dropped, excused, env>>

\* The container is booted on the first command.  A sandbox that fails under the
\* command ends the call before its writes are judged.
DispatchCommand ==
    /\ Dispatch
    /\ \/ /\ session' = TRUE /\ mode' = "command"
          /\ call' = [tool |-> "command", went |-> "ok"]
          /\ tampered' \in {tampered, tampered + 1}
          /\ UNCHANGED <<faults, excused>>
       \/ /\ Fault /\ call' = [tool |-> "command", went |-> "sandbox"] /\ mode' = "audit"
          /\ tampered' \in {tampered, tampered + 1} /\ excused' = tampered'
          /\ UNCHANGED session
    /\ UNCHANGED <<kind, next, talk, retries, streak, result, saved, conv, rows, lost, dropped, cancel, resumes>>

\* MUTANT of Enforced: the writes of a command that was killed are not looked at.
Enforced_NotAfterTimeout(timedOut) == ~timedOut
Enforced(timedOut) == TRUE

\* _enforce_command_writes: each change against the snapshot before the command
\* gets a ledger row and is then judged; one that a rule in block mode forbids is
\* undone as far as that is possible, and the command denied.  Rules in warn or
\* off mode let the change through: it is not counted as tampering.
EnforceWrites ==
    /\ mode = "command" /\ mode' = "audit"
    /\ \E timedOut \in BOOLEAN :
       IF tampered > excused /\ Enforced(timedOut)
       THEN \/ /\ tampered' = excused /\ call' = [call EXCEPT !.went = "denied"]
               /\ UNCHANGED <<faults, excused>>
            \/ /\ Fault /\ excused' = tampered /\ UNCHANGED tampered
               /\ call' \in {[call EXCEPT !.went = "denied"], [call EXCEPT !.went = "error"]}
       ELSE /\ call' \in {[call EXCEPT !.went = "ok"], [call EXCEPT !.went = "error"]}
            /\ UNCHANGED <<tampered, faults, excused>>
    /\ UNCHANGED <<kind, next, made, talk, retries, streak, session, result, saved, conv, rows, executed, lost, dropped, cancel, resumes>>

\* _record_build_progress: a call that changed or found nothing is counted, and
\* so is the same command again.
Streaks(productive, again) ==
    [idle |-> IF productive THEN 0 ELSE streak.idle + 1,
     repeat |-> IF productive THEN 0
                ELSE IF call.tool # "command" THEN streak.repeat
                ELSE IF again THEN streak.repeat + 1 ELSE 0,
     ran |-> streak.ran \/ call.tool = "command"]
\* MUTANT of Stalls: one call too many.
Stalls_OneMore(s) == s.idle > StallWindow \/ s.repeat > RepeatLimit
Stalls(s) == s.idle >= StallWindow \/ s.repeat >= RepeatLimit

Answer(ok) ==
    /\ talk' = [answers |-> talk.answers + 1, oks |-> talk.oks + (IF ok THEN 1 ELSE 0),
                open |-> talk.open - 1]
    /\ call' = NoCall
    /\ IF kind.seat
       THEN \E productive, again \in BOOLEAN :
               /\ call.tool = "write" /\ call.went # "ok" => ~productive
               /\ again => streak.ran
               /\ streak' = Streaks(productive, again)
       ELSE UNCHANGED streak
    /\ IF kind.seat /\ Stalls(streak') THEN Persist("stalled_no_progress", "stalled_no_progress")
       ELSE mode' = "calls" /\ UNCHANGED <<saved, next>>

\* The ledger row of the call; what was not recorded is never answered as done.
\* MUTANT of AnsweredOk: a missing row is only logged.
AnsweredOk_Anyway(recorded) == TRUE
AnsweredOk(recorded) == recorded

Audit ==
    /\ mode = "audit" /\ call.went # "sandbox"
    /\ \/ /\ rows' = rows + (IF call.went = "ok" THEN 1 ELSE 0)
          /\ Answer(call.went = "ok" /\ AnsweredOk(TRUE))
          /\ UNCHANGED <<session, result, lost, faults>>
       \/ /\ Fault /\ call.went = "ok"
          /\ Answer(AnsweredOk(FALSE))
          /\ UNCHANGED <<rows, session, result, lost>>
       \/ /\ Fault /\ Raise
          /\ UNCHANGED <<rows, talk, call, streak, saved, next>>
    /\ UNCHANGED <<kind, made, retries, conv, tampered, executed, dropped, excused, cancel, resumes>>

\* The required sandbox is not there: the loop ends in the middle of the turn.
NoSandbox ==
    /\ mode = "audit" /\ call.went = "sandbox"
    /\ \/ Persist("error", "error") /\ UNCHANGED <<session, result, lost, faults>>
       \/ Fault /\ Raise /\ UNCHANGED <<saved, next>>
    /\ UNCHANGED <<kind, made, talk, call, retries, streak, conv, rows, tampered, executed, dropped, excused, cancel, resumes>>

-----------------------------------------------------------------------------
Step ==
    \/ Publish \/ Teardown
    \/ Cancelled \/ Exhausted \/ ProviderFails \/ Truncated \/ Narrates \/ CallsTools \/ TextAnswer
    \/ TurnDone \/ ExhaustedInTurn \/ DispatchFile \/ DispatchCommand \/ EnforceWrites
    \/ Audit \/ NoSandbox

Next == Step \/ Run \/ Resume \/ Refused \/ Crash \/ CancelRequest

Spec == Init /\ [][Next]_vars

\* A running loop keeps going: provider calls and commands have time limits.
FairSpec == Spec /\ WF_vars(Step)

-----------------------------------------------------------------------------
(* Properties                                                              *)

\* The budget survives crashes and resumes: beyond the limit at most one turn is
\* dispatched for every loop that died before it could save its count
\* (tool_calls_made in state.json), and what resumes without tools struck from it.
BudgetHolds == executed <= Limit + dropped + PerTurn * lost

\* A crash between the two files of _persist_state, or at any other point, hides
\* no call from the budget: every answer a resumed conversation shows the model
\* was charged to the count it resumes with, or to one that a resume without
\* tools has struck.
SavedTalkIsCharged == conv.answers <= saved.made + dropped

\* No un-audited call is surfaced as success, in memory or in what a resume
\* shows the model (the audit-append rule of _dispatch_tool).
SuccessIsAudited == talk.oks <= rows /\ conv.oks <= rows

\* Whenever no command is being judged, every forbidden change that is still in
\* the workspace was left there by a fault of its own: a crash, a lost sandbox, an
\* unwritable ledger or a failed revert before or inside the judgement of that
\* command (_enforce_command_writes).  Later commands are judged all the same.
ProtectedRestored == mode # "command" => tampered <= excused

\* Every run and every resume comes to an end, whatever the model answers.
LoopEnds == mode # "off" ~> mode = "off"
=============================================================================
