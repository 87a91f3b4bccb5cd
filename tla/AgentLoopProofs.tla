-------------------------- MODULE AgentLoopProofs --------------------------
(***************************************************************************)
(* The agent loop, for every budget, every number of calls in a turn and   *)
(* any number of faults and resumes: types, the tool-call budget, the      *)
(* charge of saved conversations, the ledger and the protected files.      *)
(***************************************************************************)
EXTENDS AgentLoop, TLAPS

\* The loop takes another provider turn unless it is cancelled or ended.
Alive == mode \in {"turn", "calls", "command", "audit"} \/ (mode = "publish" /\ next = "turn")

\* What holds of the control state: a call that was dispatched is still open, a
\* loop that goes on is below its stall limits, a text run never counts.
Shape ==
    /\ mode \in {"command", "audit"} => talk.open > 0
    /\ Alive => streak.idle < StallWindow /\ streak.repeat < RepeatLimit
    /\ mode = "teardown" => next \in Ends
    /\ mode = "text" \/ (mode = "publish" /\ next = "text") => ~kind.tools
    /\ ~kind.tools => ~Alive /\ made = 0 /\ saved.made = 0

\* Answers are charged when the call is dispatched, before they exist; a resume
\* without tools strikes charges, never answers.
Charged ==
    /\ mode # "off" => talk.answers <= made + dropped
    /\ mode \in {"command", "audit"} => talk.answers < made + dropped
    /\ talk.oks <= talk.answers
    /\ conv # Absent => conv.oks <= conv.answers
    /\ conv.answers <= saved.made + dropped

\* The count in memory is ahead of the one on disk by the calls of one turn.
Ahead ==
    /\ mode # "off" => saved.made <= made
    /\ mode \in {"turn", "publish", "teardown", "text"} => made = saved.made
    /\ mode = "calls" => made + talk.open <= saved.made + PerTurn
    /\ mode \in {"command", "audit"} => made + talk.open <= saved.made + PerTurn + 1
    /\ saved.status = "none" => saved.made = 0

Counted == IF mode = "off" THEN saved.made ELSE made
Metered == executed <= Counted + dropped + PerTurn * lost

LoopInv == TypeOK /\ Shape /\ Charged /\ Ahead

\* The statuses and answers of the loop, one by one.
LEMMA StatusFacts ==
    /\ Ends \subseteq Statuses /\ "running" \in Statuses /\ "none" \notin Ends /\ "turn" \notin Ends /\ "text" \notin Ends
    /\ NoTalk \in Talk /\ NoTalk.answers = 0 /\ NoTalk.oks = 0 /\ NoTalk.open = 0
    /\ Absent \notin Talk /\ Absent.answers = -1 /\ Absent.oks = 0
  <1>1. 0 \in Nat /\ 0 \in 0..PerTurn /\ -1 \notin Nat
    BY LoopAssumption
  <1> QED
    BY <1>1 DEF Ends, Statuses, NoTalk, Absent, Talk

\* Numbers of a well-typed loop.
LEMMA Numbers ==
    ASSUME TypeOK
    PROVE  /\ made \in Int /\ 0 <= made /\ made <= Limit /\ Limit \in Int /\ PerTurn \in Int
           /\ talk.answers \in Int /\ talk.oks \in Int /\ talk.open \in Int /\ 0 <= talk.open
           /\ 0 <= talk.answers /\ 0 <= talk.oks
           /\ saved.made \in Int /\ 0 <= saved.made /\ saved.made <= Limit
           /\ conv.answers \in Int /\ conv.oks \in Int /\ dropped \in Int /\ 0 <= dropped
  <1>1. made \in 0..Limit /\ talk \in Talk /\ saved \in [status : Statuses, made : 0..Limit] /\ conv \in Talk \cup {Absent} /\ dropped \in Nat
    BY DEF TypeOK
  <1>2. conv.answers \in Int /\ conv.oks \in Int
    <2>1. CASE conv = Absent
      BY <2>1, StatusFacts
    <2>2. CASE conv \in Talk
      BY <2>2, LoopAssumption DEF Talk
    <2> QED
      BY <1>1, <2>1, <2>2
  <1> QED
    BY <1>1, <1>2, LoopAssumption DEF Talk

LEMMA InitLoopInv == Init => LoopInv
  <1> SUFFICES ASSUME Init PROVE LoopInv
    OBVIOUS
  <1>1. TypeOK
    <2>0. /\ kind \in Kinds /\ made = 0 /\ talk = NoTalk /\ conv = Absent /\ call = NoCall /\ streak = NewStreak
          /\ retries = [reprompts |-> 0, continues |-> 0] /\ saved = [status |-> "none", made |-> 0]
          /\ faults = 0 /\ resumes = 0 /\ rows = 0 /\ executed = 0 /\ lost = 0 /\ dropped = 0 /\ tampered = 0 /\ excused = 0
      BY DEF Init
    <2>1. kind \in Kind /\ made \in 0..Limit /\ talk \in Talk /\ conv \in Talk \cup {Absent}
      BY <2>0, LoopAssumption, StatusFacts
    <2>2. /\ call \in [tool : Tools, went : {"ok", "denied", "skipped", "error", "sandbox"}]
          /\ retries \in [reprompts : 0..MaxReprompts, continues : 0..MaxContinues]
          /\ streak \in [idle : 0..StallWindow, repeat : 0..RepeatLimit, ran : BOOLEAN]
          /\ saved \in [status : Statuses, made : 0..Limit]
      BY <2>0, LoopAssumption DEF NoCall, NewStreak, Tools, Statuses
    <2>3. /\ faults \in 0..MaxFaults /\ resumes \in 0..MaxResumes /\ rows \in Nat /\ executed \in Nat /\ lost \in Nat
          /\ dropped \in Nat /\ tampered \in Nat /\ excused \in Nat
      BY <2>0, LoopAssumption
    <2> QED
      BY <2>1, <2>2, <2>3 DEF Init, TypeOK, Modes, Statuses
  <1>2. /\ mode = "off" /\ made = 0 /\ talk = NoTalk /\ conv = Absent
        /\ saved = [status |-> "none", made |-> 0] /\ dropped = 0
    BY DEF Init
  <1>3. saved.made = 0 /\ talk.answers = 0 /\ talk.oks = 0 /\ conv.answers = -1
    BY <1>2, StatusFacts
  <1> QED
    BY <1>1, <1>2, <1>3 DEF LoopInv, Shape, Charged, Ahead, Alive

-----------------------------------------------------------------------------
(* The loop writes its state                                               *)

\* Saving the present count, whatever comes next, keeps the bookkeeping.
LEMMA PersistKeeps ==
    ASSUME LoopInv, mode \in {"turn", "calls", "audit"},
           NEW status \in Statuses \ {"none"}, NEW then \in Ends \cup {"turn"}, Persist(status, then),
           UNCHANGED <<kind, made, talk, streak, conv, dropped>>
    PROVE  /\ saved' \in [status : Statuses, made : 0..Limit]
           /\ mode' = "publish" /\ next' \in {"turn", "text"} \cup Ends
           /\ Shape' /\ Charged' /\ Ahead'
  <1>1. TypeOK /\ Shape /\ Charged /\ Ahead
    BY DEF LoopInv
  <1>2. saved' = [status |-> status, made |-> made] /\ mode' = "publish" /\ next' = then
    BY DEF Persist, StateFile
  <1>3. saved'.made = made /\ saved'.status = status /\ saved' \in [status : Statuses, made : 0..Limit]
    BY <1>1, <1>2 DEF TypeOK
  <1>4. Alive /\ kind.tools /\ then # "text"
    BY <1>1, StatusFacts DEF Alive, Shape
  <1>5. Shape'
    BY <1>1, <1>2, <1>4 DEF Shape, Alive
  <1>6. saved.made <= made /\ talk.answers <= made + dropped /\ conv.answers <= made + dropped
    BY <1>1, Numbers DEF Charged, Ahead
  <1>7. Charged'
    BY <1>1, <1>2, <1>3, <1>6 DEF Charged
  <1>8. Ahead'
    BY <1>2, <1>3, <1>6 DEF Ahead
  <1> QED
    BY <1>2, <1>3, <1>5, <1>7, <1>8

\* What a step does that only saves and counts a retry.
LEMMA SavingStep ==
    ASSUME LoopInv, mode \in {"turn", "calls", "audit"},
           NEW status \in Statuses \ {"none"}, NEW then \in Ends \cup {"turn"}, Persist(status, then),
           UNCHANGED <<kind, made, talk, call, streak, session, result, conv, rows, tampered,
                       executed, lost, dropped, excused, cancel, resumes>>,
           retries' \in [reprompts : 0..MaxReprompts, continues : 0..MaxContinues],
           faults' \in 0..MaxFaults
    PROVE  LoopInv'
  <1>1. TypeOK
    BY DEF LoopInv
  <1>2. /\ saved' \in [status : Statuses, made : 0..Limit]
        /\ mode' = "publish" /\ next' \in {"turn", "text"} \cup Ends
        /\ Shape' /\ Charged' /\ Ahead'
    BY PersistKeeps
  <1>3. TypeOK'
    BY <1>1, <1>2 DEF TypeOK, Modes
  <1> QED
    BY <1>2, <1>3 DEF LoopInv

\* A fault keeps the fault counter within its bound.
LEMMA FaultBound ==
    ASSUME TypeOK, Fault
    PROVE  faults' \in 0..MaxFaults
  <1>1. faults \in 0..MaxFaults /\ faults < MaxFaults /\ faults' = faults + 1 /\ MaxFaults \in Nat
    BY LoopAssumption DEF TypeOK, Fault
  <1> QED
    BY <1>1

-----------------------------------------------------------------------------
(* One lemma per kind of step                                              *)

LEMMA PublishKeeps == LoopInv /\ Publish => LoopInv'
  <1> SUFFICES ASSUME LoopInv, Publish PROVE LoopInv'
    OBVIOUS
  <1>1. TypeOK /\ Shape /\ Charged /\ Ahead
    BY DEF LoopInv
  <1>2. /\ mode = "publish" /\ conv' = talk /\ mode' = IF next \in Ends THEN "teardown" ELSE next
        /\ UNCHANGED <<kind, next, made, talk, call, retries, streak, session, result, saved, rows, tampered,
                       executed, lost, dropped, excused, cancel, faults, resumes>>
    BY DEF Publish, memory, history, env
  <1>3. mode' \in {"teardown", "turn", "text"} /\ (mode' = "teardown" => next \in Ends) /\ (mode' = "turn" => next = "turn")
        /\ (mode' = "text" => next = "text")
    BY <1>1, <1>2, StatusFacts DEF TypeOK
  <1>4. TypeOK'
    BY <1>1, <1>2, <1>3 DEF TypeOK, Modes
  <1>5. Shape'
    BY <1>1, <1>2, <1>3, StatusFacts DEF Shape, Alive
  <1>6. Charged'
    BY <1>1, <1>2, <1>3, Numbers DEF Charged, Ahead
  <1>7. Ahead'
    BY <1>1, <1>2, <1>3 DEF Ahead
  <1> QED
    BY <1>4, <1>5, <1>6, <1>7 DEF LoopInv

\* A loop that ends in any way leaves the bookkeeping as it was.
LEMMA EndKeeps ==
    ASSUME LoopInv, mode # "off", mode' = "off",
           UNCHANGED <<kind, next, made, talk, streak, saved, conv, dropped>>
    PROVE  Shape' /\ Charged' /\ Ahead'
  <1>1. Shape /\ Charged /\ Ahead
    BY DEF LoopInv
  <1> QED
    BY <1>1 DEF Shape, Alive, Charged, Ahead

LEMMA TeardownKeeps == LoopInv /\ Teardown => LoopInv'
  <1> SUFFICES ASSUME LoopInv, Teardown PROVE LoopInv'
    OBVIOUS
  <1>1. TypeOK /\ Shape
    BY DEF LoopInv
  <1>2. /\ mode = "teardown" /\ mode' = "off" /\ session' \in BOOLEAN
        /\ UNCHANGED <<kind, next, made, talk, call, retries, streak, saved, conv, rows, tampered,
                       executed, lost, dropped, excused, cancel, resumes>>
    BY <1>1 DEF Teardown, memory, disk, history, TypeOK
  <1>3. result' \in Statuses
    <2>1. result' \in {"error", next} /\ next \in Ends
      BY <1>1, <1>2 DEF Teardown, Shape
    <2> QED
      BY <2>1, StatusFacts DEF Ends, Statuses
  <1>4. faults' \in 0..MaxFaults
    BY <1>1, FaultBound DEF Teardown, TypeOK
  <1>5. TypeOK'
    BY <1>1, <1>2, <1>3, <1>4 DEF TypeOK, Modes
  <1> QED
    BY <1>2, <1>5, EndKeeps DEF LoopInv

LEMMA CrashKeeps == LoopInv /\ Crash => LoopInv'
  <1> SUFFICES ASSUME LoopInv, Crash PROVE LoopInv'
    OBVIOUS
  <1>1. TypeOK
    BY DEF LoopInv
  <1>2. /\ mode # "off" /\ mode' = "off" /\ result' = "killed" /\ lost' = lost + 1
        /\ UNCHANGED <<kind, next, made, talk, call, retries, streak, session, saved, conv, rows, tampered,
                       executed, dropped, cancel, resumes>>
    BY DEF Crash, memory, disk
  <1>3. faults' \in 0..MaxFaults /\ lost' \in Nat
    BY <1>1, <1>2, FaultBound DEF Crash, TypeOK
  <1>4. excused' \in Nat
    BY <1>1 DEF Crash, TypeOK
  <1>5. TypeOK'
    BY <1>1, <1>2, <1>3, <1>4 DEF TypeOK, Modes
  <1> QED
    BY <1>2, <1>5, EndKeeps DEF LoopInv

LEMMA CancelKeeps == LoopInv /\ CancelRequest => LoopInv'
  <1> SUFFICES ASSUME LoopInv, CancelRequest PROVE LoopInv'
    OBVIOUS
  <1>1. /\ cancel' = TRUE
        /\ UNCHANGED <<kind, next, made, talk, call, retries, streak, mode, session, result, saved, conv, rows, tampered,
                       executed, lost, dropped, excused, faults, resumes>>
    BY DEF CancelRequest, memory, disk, history
  <1>2. TypeOK'
    BY <1>1 DEF LoopInv, TypeOK
  <1>3. Shape' /\ Charged' /\ Ahead'
    BY <1>1 DEF LoopInv, Shape, Alive, Charged, Ahead
  <1> QED
    BY <1>2, <1>3 DEF LoopInv

\* A fresh object with a saved conversation and its count.
LEMMA EnterKeeps ==
    ASSUME LoopInv, NEW m \in 0..Limit, NEW t \in Talk, Enter(m, t), NEW tools \in BOOLEAN,
           dropped' \in Nat, t.answers <= m + dropped', t.oks <= t.answers, conv.answers <= m + dropped',
           kind'.tools = tools, ~tools => m = 0,
           saved' = [status |-> "running", made |-> m], mode' = "publish",
           next' = IF tools THEN "turn" ELSE "text", conv' = conv
    PROVE  Shape' /\ Charged' /\ Ahead'
  <1>1. TypeOK /\ Shape /\ Charged /\ Ahead
    BY DEF LoopInv
  <1>2. /\ made' = m /\ talk' = t /\ saved'.made = m /\ saved'.status = "running"
        /\ streak'.idle = 0 /\ streak'.repeat = 0
    BY DEF Enter, NewStreak
  <1>3. 0 < StallWindow /\ 0 < RepeatLimit
    BY LoopAssumption
  <1>4. next' \in {"turn", "text"} /\ (next' = "turn" <=> tools)
    OBVIOUS
  <1>5. Shape'
    BY <1>2, <1>3, <1>4 DEF Shape, Alive
  <1>6. Charged'
    BY <1>1, <1>2 DEF Charged
  <1>7. Ahead'
    <2>1. m \in Int
      BY LoopAssumption
    <2> QED
      BY <1>2, <2>1 DEF Ahead
  <1> QED
    BY <1>5, <1>6, <1>7

\* The types of a fresh object.
LEMMA EnterTypes ==
    ASSUME TypeOK, NEW m \in 0..Limit, NEW t \in Talk, Enter(m, t),
           kind' \in Kind, saved' = [status |-> "running", made |-> m], mode' = "publish",
           next' \in {"turn", "text"}, cancel' \in BOOLEAN, resumes' \in 0..MaxResumes, dropped' \in Nat,
           UNCHANGED <<conv, rows, tampered, executed, lost, excused, faults>>
    PROVE  TypeOK'
  <1>1. /\ made' \in 0..Limit /\ talk' \in Talk /\ session' \in BOOLEAN /\ result' \in Statuses
        /\ call' = NoCall /\ retries' = [reprompts |-> 0, continues |-> 0] /\ streak' = NewStreak
    BY DEF Enter, Statuses
  <1>2. /\ call' \in [tool : Tools, went : {"ok", "denied", "skipped", "error", "sandbox"}]
        /\ retries' \in [reprompts : 0..MaxReprompts, continues : 0..MaxContinues]
        /\ streak' \in [idle : 0..StallWindow, repeat : 0..RepeatLimit, ran : BOOLEAN]
    BY <1>1, LoopAssumption DEF NoCall, NewStreak, Tools
  <1>3. saved' \in [status : Statuses, made : 0..Limit]
    BY DEF Statuses
  <1> QED
    BY <1>1, <1>2, <1>3 DEF TypeOK, Modes

LEMMA RunKeeps == LoopInv /\ Run => LoopInv'
  <1> SUFFICES ASSUME LoopInv, Run PROVE LoopInv'
    OBVIOUS
  <1>1. TypeOK /\ Charged /\ Ahead
    BY DEF LoopInv
  <1>2. /\ saved.status = "none" /\ Enter(0, NoTalk) /\ saved' = [status |-> "running", made |-> 0]
        /\ mode' = "publish" /\ next' = IF kind.tools THEN "turn" ELSE "text"
        /\ UNCHANGED <<kind, conv, rows, tampered, executed, lost, dropped, excused, cancel, faults, resumes>>
    BY DEF Run, history, env
  <1>3. /\ 0 \in 0..Limit /\ NoTalk \in Talk /\ NoTalk.oks <= NoTalk.answers
        /\ dropped' \in Nat /\ NoTalk.answers <= 0 + dropped'
    BY <1>1, <1>2, LoopAssumption, StatusFacts DEF TypeOK
  <1>4. conv.answers <= 0 + dropped'
    BY <1>1, <1>2 DEF Charged, Ahead
  <1>5. /\ kind' \in Kind /\ cancel' \in BOOLEAN /\ resumes' \in 0..MaxResumes
        /\ kind'.tools = kind.tools /\ kind.tools \in BOOLEAN
    BY <1>1, <1>2 DEF TypeOK, Kind
  <1>6. TypeOK'
    <2>1. next' \in {"turn", "text"}
      BY <1>2
    <2> QED
      BY <1>1, <1>2, <1>3, <1>5, <2>1, EnterTypes
  <1>7. Shape' /\ Charged' /\ Ahead'
    BY <1>2, <1>3, <1>4, <1>5, EnterKeeps
  <1> QED
    BY <1>6, <1>7 DEF LoopInv

\* What the saved conversation shows stays charged: the charges a resume without
\* tools strikes from the count are the ones that dropped gains.
LEMMA ResumeKeeps == LoopInv /\ Resume => LoopInv'
  <1> SUFFICES ASSUME LoopInv, Resume PROVE LoopInv'
    OBVIOUS
  <1>1. TypeOK /\ Shape /\ Charged
    BY DEF LoopInv
  <1>2. /\ conv # Absent /\ resumes < MaxResumes /\ resumes' = resumes + 1
        /\ UNCHANGED <<conv, rows, tampered, executed, lost, excused, faults>>
    BY DEF Resume
  <1>3. PICK tools \in BOOLEAN :
             /\ kind' = [tools |-> tools, work |-> FALSE, seat |-> FALSE]
             /\ Enter(IF tools THEN saved.made ELSE 0, conv)
             /\ saved' = [status |-> "running", made |-> made']
             /\ mode' = "publish" /\ next' = IF tools THEN "turn" ELSE "text"
             /\ dropped' = dropped + (saved.made - made')
    BY DEF Resume
  <1> DEFINE m == IF tools THEN saved.made ELSE 0
  <1>4. cancel' \in BOOLEAN
    BY <1>1 DEF Resume, TypeOK
  <1>5. resumes' \in 0..MaxResumes
    BY <1>1, <1>2, LoopAssumption DEF TypeOK
  <1>6. kind' \in Kind /\ kind'.tools = tools /\ next' \in {"turn", "text"}
    BY <1>3 DEF Kind
  <1>7. /\ m \in 0..Limit /\ m <= saved.made /\ (~tools => m = 0) /\ made' = m
        /\ Enter(m, conv) /\ saved' = [status |-> "running", made |-> m]
    <2>1. saved.made \in 0..Limit /\ 0 \in 0..Limit
      BY <1>1, LoopAssumption DEF TypeOK
    <2>2. made' = m
      BY <1>3 DEF Enter
    <2> QED
      BY <1>1, <1>3, <2>1, <2>2, Numbers
  <1> HIDE DEF m
  <1>8. dropped' \in Nat /\ conv.answers <= m + dropped'
    <2>1. m \in Int /\ dropped \in Nat /\ dropped' = dropped + (saved.made - m)
      BY <1>1, <1>3, <1>7, LoopAssumption DEF TypeOK
    <2>2. conv.answers <= saved.made + dropped
      BY <1>1 DEF Charged
    <2> QED
      BY <1>1, <1>7, <2>1, <2>2, Numbers
  <1>9. conv \in Talk /\ conv.oks <= conv.answers
    BY <1>1, <1>2 DEF TypeOK, Charged
  <1>10. TypeOK'
    BY <1>1, <1>2, <1>3, <1>4, <1>5, <1>6, <1>7, <1>8, <1>9, EnterTypes
  <1>11. Shape' /\ Charged' /\ Ahead'
    BY <1>2, <1>3, <1>6, <1>7, <1>8, <1>9, EnterKeeps
  <1> QED
    BY <1>10, <1>11 DEF LoopInv

LEMMA RefusedKeeps == LoopInv /\ Refused => LoopInv'
  <1> SUFFICES ASSUME LoopInv, Refused PROVE LoopInv'
    OBVIOUS
  <1>1. TypeOK
    BY DEF LoopInv
  <1>2. /\ result' = "error"
        /\ UNCHANGED <<kind, next, made, talk, call, retries, streak, mode, session, saved, conv, rows, tampered,
                       executed, lost, dropped, excused, cancel, resumes>>
    BY DEF Refused, memory, disk, history
  <1>3. faults' \in 0..MaxFaults
    BY <1>1, FaultBound DEF Refused, TypeOK
  <1>4. TypeOK'
    BY <1>1, <1>2, <1>3 DEF TypeOK, Statuses, Ends
  <1>5. Shape' /\ Charged' /\ Ahead'
    BY <1>2 DEF LoopInv, Shape, Alive, Charged, Ahead
  <1> QED
    BY <1>4, <1>5 DEF LoopInv

\* The steps that only save the state: a cancel, an exhausted budget, a failing
\* provider, a truncated answer, a narration, the end of a turn.
LEMMA SavingKeeps ==
    ASSUME LoopInv, Cancelled \/ Exhausted \/ ProviderFails \/ Truncated \/ Narrates \/ TurnDone \/ ExhaustedInTurn
    PROVE  LoopInv'
  <1>1. TypeOK
    BY DEF LoopInv
  <1>2. mode \in {"turn", "calls", "audit"}
    BY DEF Cancelled, Exhausted, ProviderFails, Truncated, Narrates, TurnDone, ExhaustedInTurn, AtTurn, Free, AtCall
  <1>3. UNCHANGED <<kind, made, talk, call, streak, session, result, conv, rows, tampered,
                    executed, lost, dropped, excused, cancel, resumes>>
    BY DEF Cancelled, Exhausted, ProviderFails, Truncated, Narrates, TurnDone, ExhaustedInTurn, history, env
  <1>4. faults' \in 0..MaxFaults
    <2>1. UNCHANGED faults \/ Fault
      BY DEF Cancelled, Exhausted, ProviderFails, Truncated, Narrates, TurnDone, ExhaustedInTurn, env
    <2> QED
      BY <1>1, <2>1, FaultBound DEF TypeOK
  <1>5. retries' \in [reprompts : 0..MaxReprompts, continues : 0..MaxContinues]
    <2>1. \/ UNCHANGED retries
          \/ retries.continues < MaxContinues /\ retries' = [retries EXCEPT !.continues = @ + 1]
          \/ retries.reprompts < MaxReprompts /\ retries' = [retries EXCEPT !.reprompts = @ + 1]
      BY DEF Cancelled, Exhausted, ProviderFails, Truncated, Continued, Narrates, TurnDone, ExhaustedInTurn
    <2>2. retries \in [reprompts : 0..MaxReprompts, continues : 0..MaxContinues]
      BY <1>1 DEF TypeOK
    <2>3. CASE retries.continues < MaxContinues /\ retries' = [retries EXCEPT !.continues = @ + 1]
      <3>1. retries.continues + 1 \in 0..MaxContinues
        BY <2>2, <2>3, LoopAssumption
      <3> QED
        BY <2>2, <2>3, <3>1
    <2>4. CASE retries.reprompts < MaxReprompts /\ retries' = [retries EXCEPT !.reprompts = @ + 1]
      <3>1. retries.reprompts + 1 \in 0..MaxReprompts
        BY <2>2, <2>4, LoopAssumption
      <3> QED
        BY <2>2, <2>4, <3>1
    <2> QED
      BY <2>1, <2>2, <2>3, <2>4
  <1>6. PICK status \in Statuses \ {"none"}, then \in Ends \cup {"turn"} : Persist(status, then)
    <2>1. \/ Persist("cancelled", "cancelled") \/ Persist("budget_exhausted", "budget_exhausted")
          \/ Persist("error", "error") \/ Persist("running", "turn") \/ Persist("max_tokens", "max_tokens")
          \/ Persist("stalled_no_tool", "stalled_no_tool") \/ Persist("completed", "completed")
      BY DEF Cancelled, Exhausted, ProviderFails, Truncated, Narrates, TurnDone, ExhaustedInTurn
    <2> QED
      BY <2>1 DEF Ends, Statuses
  <1> QED
    BY <1>2, <1>3, <1>4, <1>5, <1>6, SavingStep

LEMMA CallsKeep == LoopInv /\ CallsTools => LoopInv'
  <1> SUFFICES ASSUME LoopInv, CallsTools PROVE LoopInv'
    OBVIOUS
  <1>1. TypeOK /\ Shape /\ Charged /\ Ahead
    BY DEF LoopInv
  <1>2. PICK n \in 1..PerTurn : talk' = [talk EXCEPT !.open = n]
    BY DEF CallsTools
  <1>3. /\ mode = "turn" /\ mode' = "calls"
        /\ UNCHANGED <<kind, next, made, call, retries, streak, session, result, saved, conv, rows, tampered,
                       executed, lost, dropped, excused, cancel, faults, resumes>>
    BY DEF CallsTools, Free, AtTurn, disk, history, env
  <1>4. /\ talk' \in Talk /\ talk'.answers = talk.answers /\ talk'.oks = talk.oks
        /\ talk'.open = n /\ n \in Int /\ n <= PerTurn
    BY <1>1, <1>2, LoopAssumption DEF TypeOK, Talk
  <1>5. TypeOK'
    BY <1>1, <1>3, <1>4 DEF TypeOK, Modes
  <1>6. Shape'
    BY <1>1, <1>3, <1>4 DEF Shape, Alive
  <1>7. Charged'
    BY <1>1, <1>3, <1>4 DEF Charged
  <1>8. Ahead'
    <2>1. made = saved.made /\ made + n <= saved.made + PerTurn
      BY <1>1, <1>3, <1>4, Numbers DEF Ahead
    <2> QED
      BY <1>1, <1>3, <1>4, <2>1, Numbers DEF Ahead
  <1> QED
    BY <1>5, <1>6, <1>7, <1>8 DEF LoopInv

LEMMA TextKeeps == LoopInv /\ TextAnswer => LoopInv'
  <1> SUFFICES ASSUME LoopInv, TextAnswer PROVE LoopInv'
    OBVIOUS
  <1>1. TypeOK /\ Shape /\ Charged /\ Ahead
    BY DEF LoopInv
  <1>2. /\ mode = "text" /\ ~kind.tools /\ made = 0 /\ saved.made = 0
        /\ UNCHANGED <<kind, made, talk, call, retries, streak, session, conv, rows, tampered,
                       executed, lost, dropped, excused, cancel, resumes>>
    BY <1>1 DEF TextAnswer, Shape, history
  <1>3. CASE /\ saved' = [status |-> "text_only", made |-> 0]
             /\ mode' = "publish" /\ next' = "text_only"
             /\ UNCHANGED <<result, faults>>
    <2>1. saved'.made = 0 /\ saved'.status = "text_only" /\ saved' \in [status : Statuses, made : 0..Limit]
      BY <1>3, LoopAssumption DEF Statuses, Ends
    <2>2. TypeOK'
      BY <1>1, <1>2, <1>3, <2>1 DEF TypeOK, Modes, Ends
    <2>3. Shape'
      BY <1>1, <1>2, <1>3, <2>1 DEF Shape, Alive
    <2>4. Charged'
      BY <1>1, <1>2, <1>3, <2>1 DEF Charged
    <2>5. Ahead'
      BY <1>1, <1>2, <1>3, <2>1 DEF Ahead
    <2> QED
      BY <2>2, <2>3, <2>4, <2>5 DEF LoopInv
  <1>4. CASE Fault /\ mode' = "off" /\ result' = "error" /\ UNCHANGED <<saved, next>>
    <2>1. faults' \in 0..MaxFaults
      BY <1>1, <1>4, FaultBound
    <2>2. TypeOK'
      BY <1>1, <1>2, <1>4, <2>1 DEF TypeOK, Modes, Statuses, Ends
    <2> QED
      BY <1>2, <1>4, <2>2, EndKeeps DEF LoopInv
  <1> QED
    BY <1>3, <1>4 DEF TextAnswer

-----------------------------------------------------------------------------
(* Tool calls                                                              *)

\* A dispatch charges one call within the budget.
LEMMA DispatchKeeps ==
    ASSUME LoopInv, Dispatch, mode' \in {"command", "audit"},
           UNCHANGED <<kind, next, talk, streak, saved, conv, dropped>>
    PROVE  made' \in 0..Limit /\ executed' \in Nat /\ Shape' /\ Charged' /\ Ahead'
  <1>1. TypeOK /\ Shape /\ Charged /\ Ahead
    BY DEF LoopInv
  <1>2. mode = "calls" /\ talk.open > 0 /\ made < Limit /\ made' = made + 1 /\ executed' = executed + 1
    BY <1>1, Numbers DEF Dispatch, AtCall, Spent
  <1>3. made' \in 0..Limit /\ executed' \in Nat
    BY <1>1, <1>2, Numbers DEF TypeOK
  <1>4. Alive /\ kind.tools
    BY <1>1, <1>2 DEF Alive, Shape
  <1>5. Shape'
    BY <1>1, <1>2, <1>4 DEF Shape, Alive
  <1>6. Charged'
    <2>1. talk.answers < made' + dropped /\ talk.answers <= made' + dropped
      BY <1>1, <1>2, Numbers DEF Charged
    <2> QED
      BY <1>1, <2>1 DEF Charged
  <1>7. Ahead'
    <2>1. saved.made <= made' /\ made' + talk.open <= saved.made + PerTurn + 1
      BY <1>1, <1>2, Numbers DEF Ahead
    <2> QED
      BY <1>1, <2>1 DEF Ahead
  <1> QED
    BY <1>3, <1>5, <1>6, <1>7

LEMMA DispatchFileKeeps == LoopInv /\ DispatchFile => LoopInv'
  <1> SUFFICES ASSUME LoopInv, DispatchFile PROVE LoopInv'
    OBVIOUS
  <1>1. TypeOK
    BY DEF LoopInv
  <1>2. /\ Dispatch /\ mode' = "audit"
        /\ UNCHANGED <<kind, next, talk, retries, streak, session, result, saved, conv, rows, tampered,
                       lost, dropped, excused, cancel, faults, resumes>>
    BY DEF DispatchFile, disk, env
  <1>3. call' \in [tool : Tools, went : {"ok", "denied", "skipped", "error", "sandbox"}]
    BY DEF DispatchFile, Tools
  <1>4. made' \in 0..Limit /\ executed' \in Nat /\ Shape' /\ Charged' /\ Ahead'
    BY <1>2, DispatchKeeps
  <1>5. TypeOK'
    BY <1>1, <1>2, <1>3, <1>4 DEF TypeOK, Modes
  <1> QED
    BY <1>4, <1>5 DEF LoopInv

LEMMA DispatchCommandKeeps == LoopInv /\ DispatchCommand => LoopInv'
  <1> SUFFICES ASSUME LoopInv, DispatchCommand PROVE LoopInv'
    OBVIOUS
  <1>1. TypeOK
    BY DEF LoopInv
  <1>2. /\ Dispatch /\ mode' \in {"command", "audit"}
        /\ UNCHANGED <<kind, next, talk, retries, streak, result, saved, conv, rows, lost, dropped, cancel, resumes>>
    BY DEF DispatchCommand
  <1>3. call' \in [tool : Tools, went : {"ok", "denied", "skipped", "error", "sandbox"}]
    <2>1. call' \in {[tool |-> "command", went |-> "ok"], [tool |-> "command", went |-> "sandbox"]}
      BY DEF DispatchCommand
    <2> QED
      BY <2>1 DEF Tools
  <1>4. session' \in BOOLEAN /\ tampered' \in Nat
    <2>1. session' \in {TRUE, session}
      BY DEF DispatchCommand
    <2>2. tampered' \in {tampered, tampered + 1}
      BY DEF DispatchCommand
    <2>3. session' \in BOOLEAN
      BY <1>1, <2>1, Zenon DEF TypeOK
    <2>4. tampered \in Nat
      BY <1>1 DEF TypeOK
    <2> QED
      BY <2>2, <2>3, <2>4
  <1>5. excused' \in Nat
    BY <1>1, <1>4 DEF DispatchCommand, TypeOK
  <1>6. faults' \in 0..MaxFaults
    <2>1. UNCHANGED faults \/ Fault
      BY DEF DispatchCommand
    <2> QED
      BY <1>1, <2>1, FaultBound DEF TypeOK
  <1>7. made' \in 0..Limit /\ executed' \in Nat /\ Shape' /\ Charged' /\ Ahead'
    BY <1>2, DispatchKeeps
  <1>8. TypeOK'
    BY <1>1, <1>2, <1>3, <1>4, <1>5, <1>6, <1>7 DEF TypeOK, Modes
  <1> QED
    BY <1>7, <1>8 DEF LoopInv

LEMMA EnforceKeeps == LoopInv /\ EnforceWrites => LoopInv'
  <1> SUFFICES ASSUME LoopInv, EnforceWrites PROVE LoopInv'
    OBVIOUS
  <1>1. TypeOK /\ Shape /\ Charged /\ Ahead
    BY DEF LoopInv
  <1>2. /\ mode = "command" /\ mode' = "audit"
        /\ UNCHANGED <<kind, next, made, talk, retries, streak, session, result, saved, conv, rows,
                       executed, lost, dropped, cancel, resumes>>
    BY DEF EnforceWrites
  <1>3. \E w \in {"ok", "denied", "error"} : call' = [call EXCEPT !.went = w]
    BY DEF EnforceWrites
  <1>4. call' \in [tool : Tools, went : {"ok", "denied", "skipped", "error", "sandbox"}]
    BY <1>1, <1>3 DEF TypeOK
  <1>5. tampered' \in Nat /\ excused' \in Nat
    BY <1>1 DEF EnforceWrites, TypeOK
  <1>6. faults' \in 0..MaxFaults
    <2>1. UNCHANGED faults \/ Fault
      BY DEF EnforceWrites
    <2> QED
      BY <1>1, <2>1, FaultBound DEF TypeOK
  <1>7. TypeOK'
    BY <1>1, <1>2, <1>4, <1>5, <1>6 DEF TypeOK, Modes
  <1>8. Shape'
    BY <1>1, <1>2 DEF Shape, Alive
  <1>9. Charged' /\ Ahead'
    BY <1>1, <1>2 DEF Charged, Ahead
  <1> QED
    BY <1>7, <1>8, <1>9 DEF LoopInv

\* The streaks of a seat that went on stay within their limits.
LEMMA StreaksType ==
    ASSUME TypeOK, streak.idle < StallWindow, streak.repeat < RepeatLimit,
           NEW productive \in BOOLEAN, NEW again \in BOOLEAN
    PROVE  Streaks(productive, again) \in [idle : 0..StallWindow, repeat : 0..RepeatLimit, ran : BOOLEAN]
  <1>1. streak \in [idle : 0..StallWindow, repeat : 0..RepeatLimit, ran : BOOLEAN]
    BY DEF TypeOK
  <1>2. /\ 0 \in 0..StallWindow /\ 0 \in 0..RepeatLimit /\ streak.repeat \in 0..RepeatLimit
        /\ streak.idle + 1 \in 0..StallWindow /\ streak.repeat + 1 \in 0..RepeatLimit
    BY <1>1, LoopAssumption
  <1>3. (streak.ran \/ call.tool = "command") \in BOOLEAN
    BY <1>1
  <1> QED
    BY <1>2, <1>3 DEF Streaks

\* Answering a dispatched call.
LEMMA AnswerKeeps ==
    ASSUME LoopInv, mode = "audit", NEW ok \in BOOLEAN, Answer(ok), UNCHANGED <<kind, made, conv, dropped>>
    PROVE  /\ talk' \in Talk /\ streak' \in [idle : 0..StallWindow, repeat : 0..RepeatLimit, ran : BOOLEAN]
           /\ saved' \in [status : Statuses, made : 0..Limit] /\ mode' \in Modes
           /\ next' \in {"turn", "text"} \cup Ends
           /\ Shape' /\ Charged' /\ Ahead'
  <1>1. TypeOK /\ Shape /\ Charged /\ Ahead
    BY DEF LoopInv
  <1>2. /\ talk'.answers = talk.answers + 1 /\ talk'.open = talk.open - 1
        /\ talk'.oks \in {talk.oks, talk.oks + 1}
        /\ talk' = [answers |-> talk'.answers, oks |-> talk'.oks, open |-> talk'.open]
    BY <1>1, Numbers DEF Answer
  <1>3. /\ talk.open > 0 /\ talk.answers < made + dropped /\ talk.oks <= talk.answers
        /\ made + talk.open <= saved.made + PerTurn + 1 /\ saved.made <= made /\ conv.answers <= saved.made + dropped
        /\ Alive /\ kind.tools
    BY <1>1 DEF Shape, Charged, Ahead, Alive
  <1>4. /\ talk'.answers <= made + dropped /\ talk'.oks <= talk'.answers /\ made + talk'.open <= saved.made + PerTurn
        /\ conv.answers <= made + dropped
    BY <1>1, <1>2, <1>3, Numbers
  <1>5. talk' \in Talk
    <2>1. talk.open <= PerTurn
      BY <1>1, LoopAssumption DEF TypeOK, Talk
    <2>2. talk'.answers \in Nat /\ talk'.oks \in Nat /\ talk'.open \in 0..PerTurn
      BY <1>1, <1>2, <1>3, <1>4, <2>1, Numbers
    <2> QED
      BY <1>2, <2>2 DEF Talk
  <1>6. streak.idle < StallWindow /\ streak.repeat < RepeatLimit
    BY <1>1, <1>3 DEF Shape
  <1>7. streak' \in [idle : 0..StallWindow, repeat : 0..RepeatLimit, ran : BOOLEAN]
    <2>1. CASE kind.seat
      <3>1. PICK productive, again \in BOOLEAN : streak' = Streaks(productive, again)
        BY <2>1 DEF Answer
      <3> QED
        BY <1>1, <1>6, <3>1, StreaksType
    <2>2. CASE ~kind.seat
      <3>1. streak' = streak
        BY <2>2 DEF Answer
      <3> QED
        BY <1>1, <3>1 DEF TypeOK
    <2> QED
      BY <2>1, <2>2
  <1>8. CASE kind.seat /\ Stalls(streak')
    <2>1. Persist("stalled_no_progress", "stalled_no_progress")
      BY <1>8 DEF Answer
    <2>2. /\ mode' = "publish" /\ next' = "stalled_no_progress" /\ next' \in Ends
          /\ saved' = [status |-> "stalled_no_progress", made |-> made]
      BY <2>1 DEF Persist, StateFile, Ends
    <2>3. /\ saved'.made = made /\ saved'.status = "stalled_no_progress"
          /\ saved' \in [status : Statuses, made : 0..Limit]
      BY <1>1, <2>2 DEF TypeOK, Statuses, Ends
    <2>4. Shape'
      BY <1>3, <2>2 DEF Shape, Alive
    <2>5. Charged'
      BY <1>1, <1>4, <2>2, <2>3 DEF Charged
    <2>6. Ahead'
      <3>1. made <= made
        BY <1>1, Numbers
      <3> QED
        BY <2>2, <2>3, <3>1 DEF Ahead
    <2> QED
      BY <1>5, <1>7, <2>2, <2>3, <2>4, <2>5, <2>6 DEF Modes
  <1>9. CASE ~(kind.seat /\ Stalls(streak'))
    <2>1. mode' = "calls" /\ saved' = saved /\ next' = next
      BY <1>9 DEF Answer
    <2>2. streak'.idle < StallWindow /\ streak'.repeat < RepeatLimit
      <3>1. CASE kind.seat
        <4>1. ~(streak'.idle >= StallWindow) /\ ~(streak'.repeat >= RepeatLimit)
          BY <1>9, <3>1 DEF Stalls
        <4>2. /\ streak'.idle \in Int /\ streak'.repeat \in Int
              /\ StallWindow \in Int /\ RepeatLimit \in Int
          BY <1>7, LoopAssumption
        <4> QED
          BY <4>1, <4>2
      <3>2. CASE ~kind.seat
        <4>1. streak' = streak
          BY <3>2 DEF Answer
        <4> QED
          BY <1>6, <4>1
      <3> QED
        BY <3>1, <3>2
    <2>3. Shape'
      BY <1>3, <2>1, <2>2 DEF Shape, Alive
    <2>4. Charged'
      BY <1>1, <1>4, <2>1 DEF Charged
    <2>5. Ahead'
      BY <1>1, <1>3, <1>4, <2>1 DEF Ahead
    <2>6. saved' \in [status : Statuses, made : 0..Limit] /\ next' \in {"turn", "text"} \cup Ends
      BY <1>1, <2>1 DEF TypeOK
    <2> QED
      BY <1>5, <1>7, <2>1, <2>3, <2>4, <2>5, <2>6 DEF Modes
  <1> QED
    BY <1>8, <1>9

\* An exception that leaves the loop.
LEMMA RaiseKeeps ==
    ASSUME LoopInv, mode = "audit", Raise, Fault,
           UNCHANGED <<kind, next, made, talk, call, retries, streak, saved, conv, rows, tampered,
                       executed, dropped, excused, cancel, resumes>>
    PROVE  LoopInv'
  <1>1. TypeOK
    BY DEF LoopInv
  <1>2. mode' = "off" /\ result' = "raised" /\ lost' = lost + 1
    BY DEF Raise
  <1>3. session' \in BOOLEAN
    BY <1>1 DEF Raise, TypeOK
  <1>4. faults' \in 0..MaxFaults /\ lost' \in Nat
    BY <1>1, <1>2, FaultBound DEF TypeOK
  <1>5. TypeOK'
    BY <1>1, <1>2, <1>3, <1>4 DEF TypeOK, Modes
  <1> QED
    BY <1>2, <1>5, EndKeeps DEF LoopInv

LEMMA AuditKeeps == LoopInv /\ Audit => LoopInv'
  <1> SUFFICES ASSUME LoopInv, Audit PROVE LoopInv'
    OBVIOUS
  <1>1. TypeOK
    BY DEF LoopInv
  <1>2. mode = "audit" /\ UNCHANGED <<kind, made, retries, conv, tampered, executed, dropped, excused, cancel, resumes>>
    BY DEF Audit
  <1>3. ASSUME NEW ok \in BOOLEAN, Answer(ok), UNCHANGED <<session, result, lost>>,
               rows' \in Nat, faults' \in 0..MaxFaults
        PROVE  LoopInv'
    <2>1. /\ talk' \in Talk /\ streak' \in [idle : 0..StallWindow, repeat : 0..RepeatLimit, ran : BOOLEAN]
          /\ saved' \in [status : Statuses, made : 0..Limit] /\ mode' \in Modes
          /\ next' \in {"turn", "text"} \cup Ends
          /\ Shape' /\ Charged' /\ Ahead'
      BY <1>2, <1>3, AnswerKeeps
    <2>2. call' \in [tool : Tools, went : {"ok", "denied", "skipped", "error", "sandbox"}]
      BY <1>3 DEF Answer, NoCall, Tools
    <2>3. TypeOK'
      BY <1>1, <1>2, <1>3, <2>1, <2>2 DEF TypeOK
    <2> QED
      BY <2>1, <2>3 DEF LoopInv
  <1>4. CASE /\ rows' = rows + (IF call.went = "ok" THEN 1 ELSE 0)
             /\ Answer(call.went = "ok" /\ AnsweredOk(TRUE))
             /\ UNCHANGED <<session, result, lost, faults>>
    <2>1. rows' \in Nat /\ faults' \in 0..MaxFaults
      BY <1>1, <1>4 DEF TypeOK
    <2>2. (call.went = "ok" /\ AnsweredOk(TRUE)) \in BOOLEAN
      OBVIOUS
    <2> QED
      BY <1>3, <1>4, <2>1, <2>2
  <1>5. CASE /\ Fault /\ call.went = "ok"
             /\ Answer(AnsweredOk(FALSE))
             /\ UNCHANGED <<rows, session, result, lost>>
    <2>1. rows' \in Nat /\ faults' \in 0..MaxFaults
      BY <1>1, <1>5, FaultBound DEF TypeOK
    <2>2. AnsweredOk(FALSE) \in BOOLEAN
      BY DEF AnsweredOk
    <2> QED
      BY <1>3, <1>5, <2>1, <2>2
  <1>6. CASE Fault /\ Raise /\ UNCHANGED <<rows, talk, call, streak, saved, next>>
    BY <1>2, <1>6, RaiseKeeps
  <1> QED
    BY <1>4, <1>5, <1>6 DEF Audit

LEMMA NoSandboxKeeps == LoopInv /\ NoSandbox => LoopInv'
  <1> SUFFICES ASSUME LoopInv, NoSandbox PROVE LoopInv'
    OBVIOUS
  <1>1. TypeOK
    BY DEF LoopInv
  <1>2. mode = "audit" /\ UNCHANGED <<kind, made, talk, call, retries, streak, conv, rows, tampered,
                                     executed, dropped, excused, cancel, resumes>>
    BY DEF NoSandbox
  <1>3. CASE Persist("error", "error") /\ UNCHANGED <<session, result, lost, faults>>
    <2>1. "error" \in Statuses \ {"none"} /\ "error" \in Ends \cup {"turn"}
      BY DEF Statuses, Ends
    <2>2. retries' \in [reprompts : 0..MaxReprompts, continues : 0..MaxContinues] /\ faults' \in 0..MaxFaults
      BY <1>1, <1>2, <1>3 DEF TypeOK
    <2> QED
      BY <1>2, <1>3, <2>1, <2>2, SavingStep
  <1>4. CASE Fault /\ Raise /\ UNCHANGED <<saved, next>>
    BY <1>2, <1>4, RaiseKeeps
  <1> QED
    BY <1>3, <1>4 DEF NoSandbox

LEMMA NextLoopInv == LoopInv /\ [Next]_vars => LoopInv'
  <1> SUFFICES ASSUME LoopInv, [Next]_vars PROVE LoopInv'
    OBVIOUS
  <1>1. CASE UNCHANGED vars
    <2>1. TypeOK'
      BY <1>1 DEF vars, memory, disk, history, env, LoopInv, TypeOK
    <2>2. Shape' /\ Charged' /\ Ahead'
      BY <1>1 DEF vars, memory, disk, history, LoopInv, Shape, Alive, Charged, Ahead
    <2> QED
      BY <2>1, <2>2 DEF LoopInv
  <1>2. CASE Step
    BY <1>2, PublishKeeps, TeardownKeeps, SavingKeeps, CallsKeep, TextKeeps, DispatchFileKeeps,
       DispatchCommandKeeps, EnforceKeeps, AuditKeeps, NoSandboxKeeps DEF Step
  <1> QED
    BY <1>1, <1>2, RunKeeps, ResumeKeeps, RefusedKeeps, CrashKeeps, CancelKeeps DEF Next

\* The type invariant of the loop: whatever is lost and repeated, no count passes
\* the budget and no streak the length at which the seat is stopped.
THEOREM LoopTypeCorrect == Spec => []TypeOK
  <1>1. LoopInv => TypeOK
    BY DEF LoopInv
  <1> QED
    BY <1>1, InitLoopInv, NextLoopInv, PTL DEF Spec

\* No crash between the two files of a checkpoint, or anywhere else, leaves a
\* conversation whose answers were not charged, to the count beside it or to one
\* that a resume without tools has struck.
THEOREM SavedTalkCharged == Spec => []SavedTalkIsCharged
  <1>1. LoopInv => SavedTalkIsCharged
    BY DEF LoopInv, Charged, SavedTalkIsCharged
  <1> QED
    BY <1>1, InitLoopInv, NextLoopInv, PTL DEF Spec

-----------------------------------------------------------------------------
(* The budget                                                              *)

\* Whatever ends a loop, it is at most one turn ahead of its saved count.
LEMMA OneTurnAhead ==
    ASSUME LoopInv, mode # "off"
    PROVE  made <= saved.made + PerTurn
  <1>1. TypeOK /\ Shape /\ Ahead /\ PerTurn \in Nat
    BY LoopAssumption DEF LoopInv
  <1>2. mode \in {"turn", "publish", "teardown", "text", "calls", "command", "audit"}
    BY <1>1 DEF TypeOK, Modes
  <1> QED
    BY <1>1, <1>2, Numbers DEF Shape, Ahead

\* A loop that dies without saving may repeat one turn.
LEMMA LostKeepsMetered ==
    ASSUME LoopInv, Metered, mode # "off", mode' = "off", lost' = lost + 1, UNCHANGED <<saved, executed, dropped>>
    PROVE  Metered'
  <1>1. lost \in Nat /\ executed \in Nat /\ PerTurn \in Nat /\ saved.made \in Int /\ made \in Int /\ dropped \in Int
    BY LoopAssumption, Numbers DEF LoopInv, TypeOK
  <1>2. PerTurn * (lost + 1) = PerTurn * lost + PerTurn /\ PerTurn * lost \in Int
    BY <1>1
  <1>3. executed <= made + dropped + PerTurn * lost /\ made <= saved.made + PerTurn
    BY OneTurnAhead DEF Metered, Counted
  <1>4. executed <= saved.made + dropped + PerTurn * (lost + 1)
    BY <1>1, <1>2, <1>3
  <1> QED
    BY <1>4 DEF Metered, Counted

\* A running loop that dispatches nothing.
LEMMA SameMetered ==
    ASSUME Metered, mode # "off", mode' # "off", UNCHANGED <<made, executed, lost, dropped>>
    PROVE  Metered'
  BY DEF Metered, Counted

\* A loop that ends with its count saved.
LEMMA SavedMetered ==
    ASSUME LoopInv, Metered, mode \in {"teardown", "text"}, mode' = "off", UNCHANGED <<saved, executed, lost, dropped>>
    PROVE  Metered'
  <1>1. made = saved.made
    BY DEF LoopInv, Ahead
  <1> QED
    BY <1>1 DEF Metered, Counted

LEMMA NextMetered == LoopInv /\ Metered /\ [Next]_vars => Metered'
  <1> SUFFICES ASSUME LoopInv, Metered, [Next]_vars PROVE Metered'
    OBVIOUS
  <1>0. TypeOK /\ Shape /\ Ahead
    BY DEF LoopInv
  <1>1. CASE Publish
    <2>1. mode = "publish" /\ mode' # "off" /\ UNCHANGED <<made, executed, lost, dropped>>
      BY <1>0, <1>1 DEF Publish, memory, history, TypeOK, Ends
    <2> QED
      BY <2>1, SameMetered
  <1>2. CASE Teardown
    <2>1. mode = "teardown" /\ mode' = "off" /\ UNCHANGED <<saved, executed, lost, dropped>>
      BY <1>2 DEF Teardown, disk, history
    <2> QED
      BY <2>1, SavedMetered
  <1>3. CASE Cancelled \/ Exhausted \/ ProviderFails \/ Truncated \/ Narrates \/ TurnDone \/ ExhaustedInTurn
    <2>1. mode \in {"turn", "calls"} /\ mode' = "publish"
      BY <1>3 DEF Cancelled, Exhausted, ProviderFails, Truncated, Narrates, TurnDone, ExhaustedInTurn,
                  AtTurn, Free, AtCall, Persist
    <2>2. UNCHANGED <<made, executed, lost, dropped>>
      BY <1>3 DEF Cancelled, Exhausted, ProviderFails, Truncated, Narrates, TurnDone, ExhaustedInTurn, history
    <2> QED
      BY <2>1, <2>2, SameMetered
  <1>4. CASE CallsTools
    <2>1. mode = "turn" /\ mode' = "calls" /\ UNCHANGED <<made, executed, lost, dropped>>
      BY <1>4 DEF CallsTools, Free, AtTurn, history
    <2> QED
      BY <2>1, SameMetered
  <1>5. CASE TextAnswer
    <2>1. mode = "text" /\ UNCHANGED <<made, executed, lost, dropped>>
      BY <1>5 DEF TextAnswer, history
    <2>2. mode' = "publish" \/ (mode' = "off" /\ saved' = saved)
      BY <1>5 DEF TextAnswer
    <2> QED
      BY <2>1, <2>2, SameMetered, SavedMetered
  <1>6. CASE DispatchFile \/ DispatchCommand
    <2>1. /\ mode = "calls" /\ mode' \in {"command", "audit"} /\ made' = made + 1 /\ executed' = executed + 1
          /\ lost' = lost /\ dropped' = dropped
      BY <1>6 DEF DispatchFile, DispatchCommand, Dispatch, AtCall
    <2>2. executed <= made + dropped + PerTurn * lost
      BY <2>1 DEF Metered, Counted
    <2>3. executed \in Nat /\ made \in Int /\ dropped \in Int /\ PerTurn * lost \in Int
      BY <1>0, LoopAssumption, Numbers DEF TypeOK
    <2>4. executed' <= made' + dropped + PerTurn * lost
      BY <2>1, <2>2, <2>3
    <2> QED
      BY <2>1, <2>4 DEF Metered, Counted
  <1>7. CASE EnforceWrites
    <2>1. mode = "command" /\ mode' = "audit" /\ UNCHANGED <<made, executed, lost, dropped>>
      BY <1>7 DEF EnforceWrites
    <2> QED
      BY <2>1, SameMetered
  <1>8. CASE Audit \/ NoSandbox
    <2>1. mode = "audit" /\ UNCHANGED <<made, executed, dropped>>
      BY <1>8 DEF Audit, NoSandbox
    <2>2. CASE Raise /\ UNCHANGED saved
      BY <2>1, <2>2, LostKeepsMetered DEF Raise
    <2>3. CASE lost' = lost /\ mode' \in {"calls", "publish"}
      BY <2>1, <2>3, SameMetered
    <2> QED
      BY <1>8, <2>2, <2>3 DEF Audit, NoSandbox, Answer, Persist
  <1>9. CASE Crash
    <2>1. mode # "off" /\ mode' = "off" /\ lost' = lost + 1 /\ UNCHANGED <<saved, executed, dropped>>
      BY <1>9 DEF Crash, disk
    <2> QED
      BY <2>1, LostKeepsMetered
  <1>10. CASE Run \/ Resume
    <2>1. mode = "off" /\ mode' = "publish" /\ UNCHANGED <<executed, lost>>
      BY <1>10 DEF Run, Resume, history
    <2>2. made' + dropped' = saved.made + dropped
      <3>1. CASE Run
        BY <1>0, <3>1, Numbers DEF Run, Enter, Ahead, history
      <3>2. CASE Resume
        <4>1. made' \in {saved.made, 0} /\ dropped' = dropped + (saved.made - made')
          BY <3>2 DEF Resume, Enter
        <4> QED
          BY <1>0, <4>1, Numbers
      <3> QED
        BY <1>10, <3>1, <3>2
    <2> QED
      BY <2>1, <2>2 DEF Metered, Counted
  <1>11. CASE Refused \/ CancelRequest \/ UNCHANGED vars
    <2>1. UNCHANGED <<mode, made, saved, executed, lost, dropped>>
      BY <1>11 DEF Refused, CancelRequest, vars, memory, disk, history
    <2> QED
      BY <2>1 DEF Metered, Counted
  <1> QED
    BY <1>1, <1>2, <1>3, <1>4, <1>5, <1>6, <1>7, <1>8, <1>9, <1>10, <1>11 DEF Next, Step

\* The tool-call budget for every limit, every number of calls in a turn and any
\* number of crashes and resumes, with or without tools.
THEOREM BudgetSurvives == Spec => []BudgetHolds
  <1>1. Init => Metered
    <2> SUFFICES ASSUME Init PROVE Metered
      OBVIOUS
    <2>1. mode = "off" /\ saved = [status |-> "none", made |-> 0] /\ executed = 0 /\ lost = 0 /\ dropped = 0
      BY DEF Init
    <2>2. saved.made = 0 /\ PerTurn * 0 = 0
      BY <2>1, LoopAssumption
    <2> QED
      BY <2>1, <2>2 DEF Metered, Counted
  <1>2. LoopInv /\ Metered => BudgetHolds
    <2> SUFFICES ASSUME LoopInv, Metered PROVE BudgetHolds
      OBVIOUS
    <2>1. TypeOK /\ PerTurn * lost \in Int /\ executed \in Nat
      BY LoopAssumption DEF LoopInv, TypeOK
    <2>2. Counted \in Int /\ Counted <= Limit /\ Limit \in Int /\ dropped \in Int
      BY <2>1, Numbers DEF Counted
    <2> QED
      BY <2>1, <2>2 DEF Metered, BudgetHolds
  <1> QED
    BY <1>1, <1>2, InitLoopInv, NextLoopInv, NextMetered, PTL DEF Spec

-----------------------------------------------------------------------------
(* The ledger and the protected files                                      *)

LEMMA NextAudited == LoopInv /\ SuccessIsAudited /\ [Next]_vars => SuccessIsAudited'
  <1> SUFFICES ASSUME LoopInv, SuccessIsAudited, [Next]_vars PROVE SuccessIsAudited'
    OBVIOUS
  <1>0. TypeOK
    BY DEF LoopInv
  <1>1. CASE Publish
    <2>1. conv' = talk /\ UNCHANGED <<talk, rows>>
      BY <1>1 DEF Publish, memory
    <2> QED
      BY <2>1 DEF SuccessIsAudited
  <1>2. CASE Run \/ Resume
    <2>1. talk' \in {NoTalk, conv} /\ UNCHANGED <<conv, rows>>
      BY <1>2 DEF Run, Resume, Enter
    <2>2. 0 <= rows
      BY <1>0 DEF TypeOK
    <2> QED
      BY <2>1, <2>2, StatusFacts DEF SuccessIsAudited
  <1>3. CASE CallsTools
    <2>1. talk'.oks = talk.oks /\ UNCHANGED <<conv, rows>>
      BY <1>0, <1>3 DEF CallsTools, disk, TypeOK, Talk
    <2> QED
      BY <2>1 DEF SuccessIsAudited
  <1>4. CASE Audit
    <2>1. rows \in Nat /\ talk.oks \in Int /\ conv.oks \in Int /\ talk.oks <= rows /\ conv.oks <= rows /\ conv' = conv
      BY <1>0, <1>4, Numbers DEF TypeOK, SuccessIsAudited, Audit
    <2>2. CASE /\ rows' = rows + (IF call.went = "ok" THEN 1 ELSE 0)
               /\ Answer(call.went = "ok" /\ AnsweredOk(TRUE))
      <3>1. talk'.oks = talk.oks + (IF call.went = "ok" THEN 1 ELSE 0)
        BY <2>2 DEF Answer, AnsweredOk
      <3> QED
        BY <2>1, <2>2, <3>1 DEF SuccessIsAudited
    <2>3. CASE Answer(AnsweredOk(FALSE)) /\ rows' = rows
      <3>1. talk'.oks = talk.oks
        BY <2>1, <2>3 DEF Answer, AnsweredOk
      <3> QED
        BY <2>1, <2>3, <3>1 DEF SuccessIsAudited
    <2>4. CASE UNCHANGED <<rows, talk>>
      BY <2>1, <2>4 DEF SuccessIsAudited
    <2> QED
      BY <1>4, <2>2, <2>3, <2>4 DEF Audit
  <1>5. CASE \/ Teardown \/ Cancelled \/ Exhausted \/ ProviderFails \/ Truncated \/ Narrates \/ TurnDone
             \/ ExhaustedInTurn \/ TextAnswer \/ DispatchFile \/ DispatchCommand \/ EnforceWrites \/ NoSandbox
             \/ Refused \/ Crash \/ CancelRequest \/ UNCHANGED vars
    <2>1. UNCHANGED <<talk, conv, rows>>
      BY <1>5 DEF Teardown, Cancelled, Exhausted, ProviderFails, Truncated, Narrates, TurnDone,
                  ExhaustedInTurn, TextAnswer, DispatchFile, DispatchCommand, EnforceWrites, NoSandbox,
                  Refused, Crash, CancelRequest, vars, memory, disk
    <2> QED
      BY <2>1 DEF SuccessIsAudited
  <1> QED
    BY <1>1, <1>2, <1>3, <1>4, <1>5 DEF Next, Step

\* However often the ledger fails and the loop dies: what the model is told was
\* done has its row.
THEOREM SuccessAudited == Spec => []SuccessIsAudited
  <1>1. Init => SuccessIsAudited
    <2> SUFFICES ASSUME Init PROVE SuccessIsAudited
      OBVIOUS
    <2>1. talk = NoTalk /\ conv = Absent /\ rows = 0
      BY DEF Init
    <2> QED
      BY <2>1, StatusFacts DEF SuccessIsAudited
  <1> QED
    BY <1>1, InitLoopInv, NextLoopInv, NextAudited, PTL DEF Spec

LEMMA NextProtected == LoopInv /\ ProtectedRestored /\ [Next]_vars => ProtectedRestored'
  <1> SUFFICES ASSUME LoopInv, ProtectedRestored, [Next]_vars PROVE ProtectedRestored'
    OBVIOUS
  <1>0. TypeOK
    BY DEF LoopInv
  <1>1. CASE DispatchCommand
    <2>1. mode' = "command" \/ (excused' = tampered' /\ tampered' \in Nat)
      BY <1>0, <1>1 DEF DispatchCommand, TypeOK
    <2> QED
      BY <2>1 DEF ProtectedRestored
  <1>2. CASE EnforceWrites
    <2>1. \/ tampered' = excused /\ excused' = excused
          \/ tampered' = tampered /\ excused' = tampered
          \/ ~(tampered > excused) /\ UNCHANGED <<tampered, excused>>
      BY <1>2 DEF EnforceWrites, Enforced
    <2>2. tampered \in Nat /\ excused \in Nat
      BY <1>0 DEF TypeOK
    <2> QED
      BY <2>1, <2>2 DEF ProtectedRestored
  <1>3. CASE Crash
    <2>1. excused' = tampered /\ tampered' = tampered /\ tampered \in Nat
      BY <1>0, <1>3 DEF Crash, disk, TypeOK
    <2> QED
      BY <2>1 DEF ProtectedRestored
  <1>4. CASE CancelRequest \/ Refused \/ UNCHANGED vars
    <2>1. UNCHANGED <<mode, tampered, excused>>
      BY <1>4 DEF CancelRequest, Refused, vars, disk, history
    <2> QED
      BY <2>1 DEF ProtectedRestored
  <1>5. CASE \/ Publish \/ Teardown \/ Cancelled \/ Exhausted \/ ProviderFails \/ Truncated \/ Narrates \/ TurnDone
             \/ ExhaustedInTurn \/ CallsTools \/ TextAnswer \/ DispatchFile \/ Audit \/ NoSandbox \/ Run \/ Resume
    <2>1. UNCHANGED <<tampered, excused>>
      BY <1>5 DEF Publish, Teardown, Cancelled, Exhausted, ProviderFails, Truncated, Narrates, TurnDone,
                  ExhaustedInTurn, CallsTools, TextAnswer, DispatchFile, Audit, NoSandbox, Run, Resume,
                  disk, history
    <2>2. mode # "command"
      BY <1>5 DEF Publish, Teardown, Cancelled, Exhausted, ProviderFails, Truncated, Narrates, TurnDone,
                  ExhaustedInTurn, CallsTools, TextAnswer, DispatchFile, Dispatch, Audit, NoSandbox, Run, Resume,
                  AtTurn, Free, AtCall
    <2> QED
      BY <2>1, <2>2 DEF ProtectedRestored
  <1> QED
    BY <1>1, <1>2, <1>3, <1>4, <1>5 DEF Next, Step

\* A forbidden change that stays was left by a fault before or inside its own
\* judgement, for any number of commands, faults and resumes.
THEOREM ProtectedFilesRestored == Spec => []ProtectedRestored
  <1>1. Init => ProtectedRestored
    <2> SUFFICES ASSUME Init PROVE ProtectedRestored
      OBVIOUS
    <2>1. tampered = 0 /\ excused = 0
      BY DEF Init
    <2> QED
      BY <2>1 DEF ProtectedRestored
  <1> QED
    BY <1>1, InitLoopInv, NextLoopInv, NextProtected, PTL DEF Spec
=============================================================================
