------------------------------ MODULE AgentRun ------------------------------
(***************************************************************************)
(* One agent session and the run loop that works on it: AgentExecutor        *)
(* (oxide-agent-core/src/agent/executor), AgentRunner (agent/runner), its    *)
(* hooks and its loop detector.  The model answers whatever it likes; user   *)
(* messages reach the run through the session's runtime context inbox; a     *)
(* cancel, the soft time limit and the hard timeout may strike at any await. *)
(*                                                                          *)
(* A message is its number.  An answer is abstracted to the set of messages  *)
(* that were in the session's memory when the model wrote it.  What a tool   *)
(* batch does to the history is modelled in AgentHistory; here only its      *)
(* effect on the todo list remains.                                         *)
(***************************************************************************)
EXTENDS Naturals, Sequences

CONSTANTS
    Messages,           \* numbers of the user's messages
    Tokens,             \* cancellation tokens, numbered as they are created
    MaxIterations,      \* AgentRunnerConfig::max_iterations
    ContinuationLimit,  \* AgentRunnerConfig::continuation_limit
    MaxMalformed,       \* MAX_STRUCTURED_OUTPUT_RETRIES
    MaxRePrompts,       \* DEFAULT_MAX_RE_PROMPTS
    Drafts,             \* whether long text may come with a todo update
    SlowProgress        \* whether the progress channel may be full

ASSUME MessagesAssumption == Messages \subseteq Nat \ {0}
ASSUME TokensAssumption == Tokens \subseteq Nat
ASSUME LimitsAssumption ==
    /\ {MaxIterations, ContinuationLimit, MaxMalformed, MaxRePrompts} \subseteq Nat
    /\ MaxMalformed > 0
ASSUME SwitchesAssumption == {Drafts, SlowProgress} \subseteq BOOLEAN

VARIABLES
    status,         \* AgentSession::status
    awaiting,       \* pending_user_input is Some
    saved,          \* last_task is Some
    todos,          \* memory.todos
    inbox,          \* RuntimeContextInbox
    known,          \* messages in memory, in order
    token,          \* session.cancellation_token
    cancelled,      \* tokens that were cancelled
    pc,             \* where the run stands ("idle": no run)
    iteration,
    continuations,  \* RunState::continuation_count
    malformed,      \* RunState::structured_output_failures
    rePrompts,      \* LoopDetectionService::re_prompt_count
    draft,          \* {messages known to pending_final_draft}, {} if None
    drained,        \* drained from the inbox, not yet in memory
    arc,            \* the run's todos_arc
    batch,          \* the tool calls being executed
    late,           \* elapsed_secs has reached the time limit
    result,         \* how the run ended
    answer          \* messages known to the final answer

session == <<status, awaiting, saved, todos, known, token>>
counters == <<continuations, malformed, rePrompts, draft>>
agentVars == <<status, awaiting, saved, todos, inbox, known, token, cancelled,
               pc, iteration, continuations, malformed, rePrompts, draft,
               drained, arc, batch, late, result, answer>>

TodoState == {"none", "open", "blocked", "done"}
Batches == {"none", "other", "mixed", "todos", "todos_long"}

AgentTypeOK ==
    /\ status \in {"idle", "processing", "completed", "timed_out", "error"}
    /\ {awaiting, saved, late} \subseteq BOOLEAN
    /\ {todos, arc} \subseteq TodoState
    /\ {inbox, known, drained} \subseteq Seq(Messages)
    /\ token \in Tokens
    /\ cancelled \subseteq Tokens
    /\ pc \in {"idle", "loop", "drained", "sample", "tools", "saving", "returning"}
    /\ iteration \in 0..MaxIterations
    /\ continuations \in Nat
    /\ malformed \in 0..MaxMalformed
    /\ rePrompts \in 0..MaxRePrompts
    /\ draft \subseteq SUBSET Messages
    /\ batch \in Batches
    /\ result \in {"none", "completed", "report", "waiting", "failed",
                   "cancelled", "timed_out"}
    /\ answer \subseteq Messages

AgentInit ==
    /\ status = "idle" /\ awaiting = FALSE /\ saved = FALSE
    /\ todos = "none" /\ arc = "none"
    /\ inbox = <<>> /\ known = <<>> /\ drained = <<>>
    /\ token = 0 /\ cancelled = {}
    /\ pc = "idle" /\ iteration = 0
    /\ continuations = 0 /\ malformed = 0 /\ rePrompts = 0
    /\ draft = {} /\ batch = "none" /\ late = FALSE
    /\ result = "none" /\ answer = {}

Elements(s) == {s[k] : k \in DOMAIN s}
IsCancelled == token \in cancelled

-----------------------------------------------------------------------------
(* AgentExecutor: the start and the end of a run.                            *)

\* RunState::new, LoopDetectionService::reset, prepare_execution's new
\* todos_arc, start_task.
StartTask(t) ==
    /\ pc = "idle"
    /\ status' = "processing" /\ awaiting' = FALSE
    /\ token' = t
    /\ pc' = "loop" /\ iteration' = 0
    /\ continuations' = 0 /\ malformed' = 0 /\ rePrompts' = 0
    /\ draft' = {} /\ drained' = <<>>
    /\ arc' = todos'
    /\ batch' = "none" /\ late' = FALSE /\ result' = "none" /\ answer' = {}
    /\ UNCHANGED cancelled

\* ExecutionRequest::NewTask: todos are cleared, the input becomes a user task.
NewTask(m, t) ==
    /\ todos' = "none"
    /\ saved' = TRUE
    /\ known' = Append(known, m)
    /\ StartTask(t)
    /\ UNCHANGED inbox

\* ExecutionRequest::ContinueRuntimeContext and ResumeUserInput: the messages
\* ms join the inbox and the saved task goes on.
CanContinue == saved
CanResume == saved /\ awaiting
Continue(ms, t) ==
    /\ inbox' = inbox \o ms
    /\ UNCHANGED <<todos, saved, known>>
    /\ StartTask(t)

\* run_with_timeout has returned: how the run ended.
Finish(r) ==
    /\ pc' = "returning"
    /\ result' = r
    /\ batch' = "none"
    /\ drained' = <<>>

StatusAfter(r) ==
    CASE r \in {"completed", "report", "waiting"} -> "completed"
      [] r = "timed_out" -> "timed_out"
      [] OTHER -> "error"

\* apply_execution_transition; the RunState and the run's todos_arc are dropped.
ApplyTransition ==
    /\ pc = "returning"
    /\ pc' = "idle"
    /\ status' = StatusAfter(result)
    /\ awaiting' = (result = "waiting")
    /\ todos' = IF result = "cancelled" THEN "none" ELSE todos
    /\ iteration' = 0 /\ malformed' = 0 /\ rePrompts' = 0
    /\ draft' = {} /\ arc' = "none" /\ late' = FALSE /\ answer' = {}
    /\ UNCHANGED <<saved, inbox, known, token, cancelled, continuations,
                   drained, batch, result>>

\* AgentExecutor::reset; the inbox is emptied, the token stays.
ResetSession ==
    /\ pc = "idle"
    /\ status' = "idle" /\ awaiting' = FALSE /\ saved' = FALSE
    /\ todos' = "none" /\ known' = <<>> /\ inbox' = <<>>
    /\ UNCHANGED <<token, pc, iteration, counters, drained, arc, batch, late,
                   result, answer>>

-----------------------------------------------------------------------------
(* run_loop.                                                                *)

NextIterationUncounted ==  \* mutant: no iteration limit
    /\ pc' = "loop"
    /\ UNCHANGED iteration
NextIteration ==
    /\ pc' = "loop"
    /\ iteration' = iteration + 1

\* The checks at the head of an iteration that end the run.
LoopEnds ==
    /\ pc = "loop"
    /\ \/ iteration = MaxIterations /\ Finish("failed")
       \/ iteration < MaxIterations /\ IsCancelled /\ Finish("cancelled")
       \/ iteration < MaxIterations /\ ~IsCancelled /\ late /\ Finish("report")
    /\ UNCHANGED <<session, inbox, cancelled, iteration, counters, arc, late, answer>>

\* apply_pending_runtime_context up to the send of its event, or straight on.
LoopDrains ==
    /\ pc = "loop" /\ iteration < MaxIterations /\ ~IsCancelled /\ ~late
    /\ IF inbox = <<>>
       THEN /\ pc' = "sample"
            /\ UNCHANGED <<inbox, drained, continuations>>
       ELSE /\ pc' = "drained"
            /\ drained' = inbox
            /\ inbox' = <<>>
            /\ continuations' = continuations + 1
    /\ UNCHANGED <<session, cancelled, iteration, malformed, rePrompts, draft,
                   arc, batch, late, result, answer>>

\* ... and the rest: the drained messages are added to memory in order.
ApplyContext ==
    /\ pc = "drained"
    /\ pc' = "sample"
    /\ known' = known \o drained
    /\ drained' = <<>>
    /\ UNCHANGED <<status, awaiting, saved, todos, inbox, token, cancelled,
                   iteration, counters, arc, batch, late, result, answer>>

\* await_until_cancelled wins against the loop check or the LLM call.
SampleCancelled ==
    /\ pc = "sample" /\ IsCancelled
    /\ Finish("cancelled")
    /\ UNCHANGED <<session, inbox, cancelled, iteration, counters, arc, late, answer>>

\* call_llm_with_tools gave up, or a tool route or catalog is missing.
SampleFails ==
    /\ pc = "sample"
    /\ Finish("failed")
    /\ UNCHANGED <<session, inbox, cancelled, iteration, counters, arc, late, answer>>

\* A loop detector fired (periodic check, tool calls or content): the model is
\* told so and asked again, or, once MaxRePrompts is used up, the run's token
\* is cancelled and the run fails.
LoopDetected ==
    /\ pc = "sample"
    /\ \E parsed \in BOOLEAN : malformed' = IF parsed THEN 0 ELSE malformed
    /\ IF rePrompts < MaxRePrompts
       THEN /\ rePrompts' = rePrompts + 1
            /\ NextIteration
            /\ UNCHANGED <<cancelled, result, batch, drained>>
       ELSE /\ cancelled' = cancelled \cup {token}
            /\ Finish("failed")
            /\ UNCHANGED <<rePrompts, iteration>>
    /\ UNCHANGED <<session, inbox, continuations, draft, arc, late, answer>>

\* handle_structured_output_error.
GivesUp(n) == n >= MaxMalformed
MalformedReply ==
    /\ pc = "sample"
    /\ malformed' = malformed + 1
    /\ IF GivesUp(malformed')
       THEN Finish("failed") /\ UNCHANGED <<iteration, continuations>>
       ELSE /\ NextIteration
            /\ continuations' = continuations + 1
            /\ UNCHANGED <<result, batch, drained>>
    /\ UNCHANGED <<session, inbox, cancelled, rePrompts, draft, arc, late, answer>>

\* handle_waiting_for_user_input.
AskUser ==
    /\ pc = "sample"
    /\ malformed' = 0
    /\ IF IsCancelled
       THEN Finish("cancelled") /\ UNCHANGED todos
       ELSE Finish("waiting") /\ todos' = arc
    /\ UNCHANGED <<status, awaiting, saved, known, token, inbox, cancelled,
                   iteration, continuations, rePrompts, draft, arc, late, answer>>

\* A reply with tool calls; native calls leave the malformed count alone.
CallTools ==
    /\ pc = "sample"
    /\ \E native \in BOOLEAN : malformed' = IF native THEN malformed ELSE 0
    /\ \E b \in Batches \ {"none"} : (b = "todos_long" => Drafts) /\ batch' = b
    /\ pc' = "tools"
    /\ UNCHANGED <<session, inbox, cancelled, iteration, continuations,
                   rePrompts, draft, drained, arc, late, result, answer>>

\* execute_tools_with_runtime returns: write_todos has set the run's todos (or
\* was blocked, cancelled or timed out), the long text beside the update that
\* completes them becomes the draft.
ToolsReturn ==
    /\ pc = "tools"
    /\ arc' \in IF batch = "other" THEN {arc} ELSE TodoState
    /\ draft' = IF batch = "todos_long" /\ arc' = "done" THEN {Elements(known)} ELSE draft
    /\ batch' = "none"
    /\ NextIteration
    /\ UNCHANGED <<session, inbox, cancelled, continuations, malformed,
                   rePrompts, drained, late, result, answer>>

\* The runtime failed (a before-tool hook's error, a broken batch).
ToolsFail ==
    /\ pc = "tools"
    /\ Finish("failed")
    /\ UNCHANGED <<session, inbox, cancelled, iteration, counters, arc, late, answer>>

-----------------------------------------------------------------------------
(* handle_final_response.                                                   *)

\* PendingFinalDraft::final_response_decision: a short answer is replaced by
\* the draft, a longer addendum is joined to it, a full answer replaces it.
Sizes == {"short", "addendum", "full"}
Coverage(size) ==
    IF draft = {} \/ size = "full" THEN Elements(known)
    ELSE (UNION draft) \cup (IF size = "short" THEN {} ELSE Elements(known))

\* CompletionCheckHook.
Forces == continuations < ContinuationLimit /\ todos' = "open"

NoPending == TRUE  \* mutant: has_pending_runtime_context is not asked
InboxEmpty == inbox = <<>>

StaleTodos == todos  \* mutant: sync_todos_from_arc is forgotten
SyncedTodos == arc

CancelUnseen == FALSE  \* mutant: the token is not asked
CancelSeen == IsCancelled

FinalReply ==
    /\ pc = "sample"
    /\ malformed' = 0
    /\ \/ /\ CancelSeen
          /\ Finish("cancelled")
          /\ UNCHANGED <<todos, iteration, continuations, draft, answer>>
       \/ /\ ~CancelSeen
          /\ todos' = SyncedTodos
          /\ IF ~Forces /\ InboxEmpty
             THEN /\ \E size \in Sizes : answer' = Coverage(size)
                  /\ draft' = {}
                  /\ pc' = "saving"
                  /\ result' = "completed"
                  /\ UNCHANGED <<iteration, continuations>>
             ELSE /\ continuations' = continuations + 1
                  /\ NextIteration
                  /\ UNCHANGED <<draft, result, answer>>
          /\ UNCHANGED <<batch, drained>>
    /\ UNCHANGED <<status, awaiting, saved, known, token, inbox, cancelled,
                   rePrompts, arc, late>>

\* The last events are sent and the run returns its answer.
FinalSent ==
    /\ pc = "saving"
    /\ Finish("completed")
    /\ UNCHANGED <<session, inbox, cancelled, iteration, counters, arc, late, answer>>

-----------------------------------------------------------------------------
\* The time limit is reached while a run is under way ...
TimePasses ==
    /\ pc # "idle" /\ ~late
    /\ late' = TRUE
    /\ UNCHANGED <<session, inbox, cancelled, pc, iteration, counters, drained,
                   arc, batch, result, answer>>

\* ... and tokio's timeout drops the run at the await where it stands.
HardTimeout ==
    /\ late
    /\ pc \in {"sample", "tools"} \/ (SlowProgress /\ pc \in {"drained", "saving"})
    /\ Finish("timed_out")
    /\ UNCHANGED <<session, inbox, cancelled, iteration, counters, arc, late, answer>>

RunStep ==
    \/ LoopEnds \/ LoopDrains \/ ApplyContext \/ SampleCancelled \/ SampleFails
    \/ LoopDetected \/ MalformedReply \/ AskUser \/ CallTools \/ ToolsReturn
    \/ ToolsFail \/ FinalReply \/ FinalSent \/ HardTimeout
=============================================================================
