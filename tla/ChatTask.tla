------------------------------ MODULE ChatTask ------------------------------
(***************************************************************************)
(* A Telegram chat on top of one agent session                               *)
(* (oxide-agent-transport-telegram/src/bot/agent_handlers): every message    *)
(* is routed by its own task (dispatch_preprocessed_agent_text) into the     *)
(* running run's inbox, into the follow-ups of an answer about to be sent,   *)
(* or into a flow of its own (run_task_execution), which waits for the       *)
(* executor's lock, runs, and delivers.  Messages, cancels, runs and         *)
(* deliveries interleave at every await.                                    *)
(***************************************************************************)
EXTENDS AgentRun

CONSTANTS
    Overlap,  \* whether a flow may start while another is still under way
    NoFlow    \* the executor's lock is free

ASSUME OverlapAssumption == Overlap \in BOOLEAN /\ NoFlow \notin Messages

VARIABLES
    stage,      \* where the task handling a message stands
    mode,       \* how its flow will start the run
    handle,     \* the token execution_handles gave it
    followed,   \* the follow-ups its restart carries
    reply,      \* what its run returned
    phase,      \* COMPLETED_RESPONSE_DELIVERY: phase ("none": no entry)
    followups,  \* ... and pending_followups
    current,    \* the registry entry's cancellation_token
    holder,     \* flow holding the executor's write lock
    button,     \* the "reset" button under a loop notice
    accepted,   \* history: messages handed to the session
    owed,       \* history: messages accepted when the final answer was fixed
    pressed,    \* history: flows whose run was under way at a cancel
    erased      \* history: messages a reset took out of the session

chatVars == <<stage, mode, handle, followed, reply, phase, followups, current,
              holder, button, accepted, owed, pressed, erased>>
resetVars == <<button, erased>>
vars == <<agentVars, chatVars>>

NoReply == [kind |-> "none", covers |-> {}, owes |-> {}]
Stages == {"free", "push", "followup", "start", "decided", "marked", "waiting",
           "running", "returned", "finalizing", "restarting", "delivering", "done"}
Quiet == {"free", "push", "followup", "start", "done"}

TypeOK ==
    /\ AgentTypeOK
    /\ stage \in [Messages -> Stages]
    /\ mode \in [Messages -> {"none", "task", "continue", "resume"}]
    /\ handle \in [Messages -> Tokens]
    /\ followed \in [Messages -> Seq(Messages)]
    /\ \A m \in Messages : reply[m].covers \cup reply[m].owes \subseteq Messages
    /\ phase \in {"none", "executing", "finalizing", "sending"}
    /\ followups \in Seq(Messages)
    /\ current \in Tokens
    /\ holder \in Messages \cup {NoFlow}
    /\ button \in {"none", "shown", "pressed"}
    /\ accepted \cup owed \cup pressed \cup erased \subseteq Messages

Init ==
    /\ AgentInit
    /\ stage = [m \in Messages |-> "free"]
    /\ mode = [m \in Messages |-> "none"]
    /\ handle = [m \in Messages |-> 0]
    /\ followed = [m \in Messages |-> <<>>]
    /\ reply = [m \in Messages |-> NoReply]
    /\ phase = "none" /\ followups = <<>>
    /\ current = 0 /\ holder = NoFlow
    /\ button = "none"
    /\ accepted = {} /\ owed = {} /\ pressed = {} /\ erased = {}

Goto(m, s) == stage' = [stage EXCEPT ![m] = s]

-----------------------------------------------------------------------------
(* Routing (dispatch_preprocessed_agent_text).                              *)

\* SESSION_REGISTRY.is_running: somebody holds the lock.
Arrive(m) ==
    /\ stage[m] = "free" /\ \A n \in Messages : n < m => stage[n] # "free"
    /\ Goto(m, IF holder # NoFlow THEN "push" ELSE "followup")
    /\ UNCHANGED <<agentVars, mode, handle, followed, reply, phase, followups,
                   current, holder, accepted, owed, pressed, resetVars>>

\* enqueue_runtime_context, whatever has become of the run meanwhile.
Push(m) ==
    /\ stage[m] = "push"
    /\ inbox' = Append(inbox, m)
    /\ accepted' = accepted \cup {m}
    /\ Goto(m, "done")
    /\ UNCHANGED <<session, cancelled, pc, iteration, counters, drained, arc,
                   batch, late, result, answer, mode, handle, followed, reply,
                   phase, followups, current, holder, owed, pressed, resetVars>>

\* queue_followup_during_completed_response_delivery.
QueueFollowup(m) ==
    /\ stage[m] = "followup"
    /\ IF phase = "finalizing"
       THEN followups' = Append(followups, m) /\ Goto(m, "done")
       ELSE UNCHANGED followups /\ Goto(m, "start")
    /\ UNCHANGED <<agentVars, mode, handle, followed, reply, phase, current,
                   holder, accepted, owed, pressed, resetVars>>

\* should_resume_pending_input and resolve_agent_input_intent read the session
\* under the lock, and the token is renewed.  The classifier may say anything.
Intents ==
    CASE awaiting /\ saved -> {"resume"}
      [] ~saved -> {"task"}
      [] saved /\ ~awaiting /\ status \in {"error", "timed_out"} -> {"continue"}
      [] OTHER -> {"task", "continue"}
Decide(m) ==
    /\ stage[m] = "start" /\ holder = NoFlow
    /\ ~Overlap => \A n \in Messages \ {m} : stage[n] \in Quiet
    /\ \E i \in Intents : mode' = [mode EXCEPT ![m] = i]
    /\ current' = current + 1
    /\ Goto(m, "decided")
    /\ UNCHANGED <<agentVars, handle, followed, reply, phase, followups,
                   holder, accepted, owed, pressed, resetVars>>

-----------------------------------------------------------------------------
(* run_task_execution.                                                      *)

\* mark_completed_response_execution_started replaces the chat's entry.
MarkStarted(m) ==
    /\ stage[m] = "decided"
    /\ phase' = "executing" /\ followups' = <<>>
    /\ Goto(m, "marked")
    /\ UNCHANGED <<agentVars, mode, handle, followed, reply, current, holder,
                   accepted, owed, pressed, resetVars>>

\* execution_handles, before the lock is awaited.
TakeHandles(m) ==
    /\ stage[m] \in {"marked", "restarting"}
    /\ handle' = [handle EXCEPT ![m] = current]
    /\ Goto(m, "waiting")
    /\ UNCHANGED <<agentVars, mode, followed, reply, phase, followups, current,
                   holder, accepted, owed, pressed, resetVars>>

\* execute_agent_task, execute_agent_task_continuation and
\* execute_user_input_resume take the lock and start the run.
Carried(m) == IF followed[m] # <<>> THEN followed[m] ELSE <<m>>
Acquire(m) ==
    /\ stage[m] = "waiting" /\ holder = NoFlow
    /\ \/ mode[m] = "task" /\ NewTask(m, handle[m])
       \/ mode[m] = "continue" /\ CanContinue /\ Continue(Carried(m), handle[m])
       \/ mode[m] = "resume" /\ CanResume /\ Continue(<<m>>, handle[m])
    /\ holder' = m
    /\ accepted' = accepted \cup Elements(Carried(m))
    /\ pressed' = pressed \ {m}
    /\ Goto(m, "running")
    /\ UNCHANGED <<mode, handle, followed, reply, phase, followups, current, owed,
                   resetVars>>

\* resolve_execution_request finds no saved task or no question to answer.  A
\* continuation has put its messages in the inbox by then.
Refuses(m) ==
    \/ mode[m] = "continue" /\ ~CanContinue
    \/ mode[m] = "resume" /\ ~CanResume
Refused(m) ==
    /\ stage[m] = "waiting" /\ holder = NoFlow /\ Refuses(m)
    /\ LET queued == IF mode[m] = "continue" THEN Carried(m) ELSE <<>>
       IN  inbox' = inbox \o queued /\ accepted' = accepted \cup Elements(queued)
    /\ token' = handle[m]
    /\ reply' = [reply EXCEPT ![m] = [NoReply EXCEPT !.kind = "refused"]]
    /\ Goto(m, "delivering")
    /\ UNCHANGED <<status, awaiting, saved, todos, known, cancelled, pc,
                   iteration, counters, drained, arc, batch, late, result,
                   answer, mode, handle, followed, phase, followups, current,
                   holder, owed, pressed, resetVars>>

\* The run's outcome is stored in the session and the lock is released.
Release(m) ==
    /\ stage[m] = "running" /\ holder = m
    /\ ApplyTransition
    /\ holder' = NoFlow
    /\ reply' = [reply EXCEPT ![m] =
         [kind |-> result, covers |-> answer, owes |-> owed]]
    /\ owed' = {}
    /\ Goto(m, "returned")
    /\ UNCHANGED <<mode, handle, followed, phase, followups, current, accepted,
                   pressed, resetVars>>

\* begin_completed_response_finalization.
BeginFinalization(m) ==
    /\ stage[m] = "returned"
    /\ IF reply[m].kind \in {"completed", "report"}
       THEN phase' = "finalizing" /\ Goto(m, "finalizing")
       ELSE UNCHANGED phase /\ Goto(m, "delivering")
    /\ UNCHANGED <<agentVars, mode, handle, followed, reply, followups, current,
                   holder, accepted, owed, pressed, resetVars>>

\* prepare_completed_response_delivery: deliver, or run again with follow-ups.
DropFollowups == <<>>  \* mutant: the follow-ups are not handed on
TakenFollowups == followups
PrepareDelivery(m) ==
    /\ stage[m] = "finalizing"
    /\ IF phase = "finalizing" /\ followups # <<>>
       THEN /\ phase' = "executing"
            /\ followed' = [followed EXCEPT ![m] = TakenFollowups]
            /\ mode' = [mode EXCEPT ![m] = "continue"]
            /\ followups' = <<>>
            /\ Goto(m, "restarting")
       ELSE /\ phase' = IF phase = "finalizing" THEN "sending" ELSE phase
            /\ Goto(m, "delivering")
            /\ UNCHANGED <<followed, mode, followups>>
    /\ UNCHANGED <<agentVars, handle, reply, current, holder, accepted, owed, pressed, resetVars>>

\* deliver_task_result and clear_completed_response_delivery_state.
Deliver(m) ==
    /\ stage[m] = "delivering"
    /\ phase' = "none" /\ followups' = <<>>
    /\ Goto(m, "done")
    /\ mode' = [mode EXCEPT ![m] = "none"]
    /\ handle' = [handle EXCEPT ![m] = 0]
    /\ followed' = [followed EXCEPT ![m] = <<>>]
    /\ UNCHANGED <<agentVars, reply, current, holder, accepted, owed, pressed, resetVars>>

-----------------------------------------------------------------------------
\* SESSION_REGISTRY.cancel: the registry's token is cancelled without the lock.
CancelCurrent ==
    /\ cancelled' = cancelled \cup {current}
    /\ pressed' = IF pc \in {"idle", "saving", "returning"}
                  THEN pressed ELSE pressed \cup {holder}
    /\ UNCHANGED <<session, inbox, pc, iteration, counters, drained, arc, batch,
                   late, result, answer, stage, mode, handle, followed, reply,
                   phase, followups, current, holder, accepted, owed, erased>>

\* The user cancels, whether a task is running or not (cancel_agent_task).
Cancel ==
    /\ current \notin cancelled
    /\ CancelCurrent
    /\ UNCHANGED button

\* handle_loop_reset: cancel whatever runs, then, 50 ms later, reset the session
\* unless somebody holds the lock (ResetSessionOutcome::Busy).
PressReset ==
    /\ button = "shown" /\ button' = "pressed"
    /\ CancelCurrent

ResetNow ==
    /\ button = "pressed" /\ button' = "shown"
    /\ IF holder = NoFlow
       THEN /\ ResetSession
            /\ erased' = erased \cup Elements(known \o inbox)
            /\ accepted' = {}
       ELSE UNCHANGED <<session, inbox, pc, iteration, counters, drained, arc,
                        batch, late, result, answer, erased, accepted>>
    /\ UNCHANGED <<cancelled, stage, mode, handle, followed, reply, phase,
                   followups, current, holder, owed, pressed>>

\* The run moves on; a halted loop's notice shows the button
\* (notify_loop_detected).
Run ==
    /\ RunStep
    /\ owed' = IF pc' = "saving" THEN accepted ELSE owed
    /\ button' = IF button = "none" /\ LoopDetected /\ pc' = "returning"
                 THEN "shown" ELSE button
    /\ UNCHANGED <<stage, mode, handle, followed, reply, phase, followups,
                   current, holder, accepted, pressed, erased>>

Clock == TimePasses /\ UNCHANGED chatVars

FlowStep(m) ==
    \/ Push(m) \/ QueueFollowup(m) \/ Decide(m) \/ MarkStarted(m)
    \/ TakeHandles(m) \/ Acquire(m) \/ Refused(m) \/ Release(m)
    \/ BeginFinalization(m) \/ PrepareDelivery(m) \/ Deliver(m)

Next ==
    \/ \E m \in Messages : Arrive(m) \/ FlowStep(m)
    \/ Run \/ Cancel \/ PressReset \/ ResetNow \/ Clock

Spec == Init /\ [][Next]_vars

\* Every spawned task is scheduled, the lock is fair, and a run moves on: the
\* model and the tools answer or fail, or the hard timeout strikes.
FairSpec ==
    /\ Spec
    /\ WF_vars(Run)
    /\ \A m \in Messages : WF_vars(FlowStep(m))

-----------------------------------------------------------------------------
(* Properties.                                                              *)

\* No message the chat took is lost: it is in the session's memory or inbox,
\* among the follow-ups, with a flow on its way to a run, was reset with the
\* session, or was refused aloud
\* ("Additional context received", "Update received before final reply").
MessagesKept ==
    \A m \in Messages :
        \/ stage[m] \in (Quiet \cup {"decided", "marked", "waiting"}) \ {"done"}
        \/ m \in Elements(known \o inbox \o drained \o followups)
        \/ \E n \in Messages : stage[n] \in {"restarting", "waiting"}
                               /\ m \in Elements(followed[n])
        \/ m \in erased \/ reply[m].kind = "refused"

\* A final answer was written with every message in view that the session had
\* accepted by the time the answer was fixed (handle_final_response).
AnswerCoversAccepted ==
    \A m \in Messages : reply[m].kind = "completed" =>
        reply[m].owes \subseteq reply[m].covers

\* A run answers for good only when the list its tools wrote is empty, done or
\* blocked on the user, or the continuation limit was reached (CompletionCheckHook, "This
\* deterministic check is MANDATORY to guarantee work completion").
FinalMeansDone ==
    pc \in {"saving", "returning"} /\ result = "completed" =>
        arc # "open" \/ continuations >= ContinuationLimit

\* A run that was under way, its answer not yet fixed, when the user pressed
\* cancel never comes back with an answer, a report or a question.
CancelReachesRun ==
    \A m \in pressed : stage[m] \notin {"free", "running"} =>
        reply[m].kind \notin {"completed", "report", "waiting"}

\* Every message's task ends: the flow is delivered, whatever the model, the
\* user and the clock do.
FlowsEnd ==
    \A m \in Messages : stage[m] # "free" ~> stage[m] = "done"
=============================================================================
