------------------------------ MODULE LifeRuns ------------------------------
(***************************************************************************)
(* The durable queue of one "life" principal (crates/oxide-agent-life and   *)
(* the life routes, executor and poller of the web transport): user inputs  *)
(* are appended as turns and queued; a wake or a poll claims one and starts *)
(* a leased run; an executor task answers it; an owner may cancel the run   *)
(* or wipe the whole state; any task or HTTP handler may disappear between  *)
(* two statements (crash, dropped connection, storage error).               *)
(*                                                                          *)
(* Every transaction that claims, reaps or cancels holds the principal's    *)
(* advisory lock, so each is one action.  The lease owner is left out: the  *)
(* one worker id is a literal ("web-life-worker") shared by every process,  *)
(* and a run id is known to one task only.                                  *)
(***************************************************************************)
EXTENDS Integers, FiniteSets

CONSTANTS
    Inputs,        \* user inputs, numbered in (created_at, input_id) order
    Runs,          \* run ids (RunId::new_v4 draws a fresh one for each claim)
    NoRun,         \* life_turns.run_id IS NULL
    Lease,         \* lease length in clock ticks (LIFE_RUN_LEASE_MILLIS)
    Heartbeat,     \* heartbeat interval in ticks (a third of the lease)
    Timely,        \* whether a live task always heartbeats on time
    WebWakes,      \* whether the submitting transport wakes the runtime
    OwnerCancels,  \* whether the owner uses the cancel route
    LoadFaults,    \* whether loading the memory snapshot may fail
    OwnerWipes     \* whether the owner uses the hard-wipe route

ASSUME InputsAssumption == Inputs \subseteq Int
ASSUME NoRunAssumption == NoRun \notin Runs
ASSUME LeaseAssumption ==
    /\ Lease \in Nat /\ Heartbeat \in Nat
    /\ 0 < Heartbeat /\ Heartbeat < Lease
ASSUME SwitchesAssumption ==
    {Timely, WebWakes, OwnerCancels, LoadFaults, OwnerWipes} \subseteq BOOLEAN

VARIABLES
    input,     \* the user turn and its life_inputs row
    handler,   \* progress of the request that submitted the input
    turnRun,   \* life_turns.run_id of the input's turn
    run,       \* life_runs.status ("free": no row yet; "deleted": wiped)
    lease,     \* ticks until lease_expires_at (0: expired or cleared)
    task,      \* where the task executing the run stands
    polled,    \* a poll has seen queued inputs and spawned a claim
    seen,      \* runs whose conversation the executor's memory starts from
    memory,    \* runs whose conversation is in the memory snapshot row
    answered,  \* runs with an assistant turn
    wiped      \* the principal's rows have been deleted

vars == <<input, handler, turnRun, run, lease, task, polled, seen, memory,
          answered, wiped>>
queueVars == <<input, turnRun, run, lease>>
execVars  == <<task, seen, memory, answered>>

InputStatus == {"unsent", "turn", "queued", "claimed", "consumed", "deleted"}
HandlerPhase == {"idle", "appended", "waking", "unclaimed", "started",
                 "attached", "accepted", "error", "lost"}
RunStatus == {"free", "running", "completed", "failed", "cancelled", "deleted"}
Phase == {"none", "claimed", "owned", "executing", "tripped", "checkpointed",
          "answered", "consumed", "completed", "cancelled",
          "cancel_consumed", "failed", "gone"}

TypeOK ==
    /\ input \in [Inputs -> InputStatus]
    /\ handler \in [Inputs -> HandlerPhase]
    /\ turnRun \in [Inputs -> Runs \cup {NoRun}]
    /\ run \in [Runs -> RunStatus]
    /\ lease \in [Runs -> 0..Lease]
    /\ task \in [Runs -> Phase]
    /\ polled \in BOOLEAN
    /\ seen \in [Runs -> SUBSET Runs]
    /\ memory \subseteq Runs
    /\ answered \subseteq Runs
    /\ wiped \in BOOLEAN

Init ==
    /\ input = [i \in Inputs |-> "unsent"]
    /\ handler = [i \in Inputs |-> "idle"]
    /\ turnRun = [i \in Inputs |-> NoRun]
    /\ run = [r \in Runs |-> "free"]
    /\ lease = [r \in Runs |-> 0]
    /\ task = [r \in Runs |-> "none"]
    /\ polled = FALSE
    /\ seen = [r \in Runs |-> {}]
    /\ memory = {}
    /\ answered = {}
    /\ wiped = FALSE

Running(r) == run[r] = "running"
Live(r) == task[r] \notin {"none", "gone"}
Queued == {i \in Inputs : input[i] = "queued"}
AnyQueued(i) == i \in Queued  \* mutant: ORDER BY dropped
Oldest(i) == i \in Queued /\ \A j \in Queued : i <= j

\* reap_expired_running_runs_in_tx: what a claim leaves of the runs.
ExpiredEarly(r) == Running(r) /\ lease[r] <= 1  \* mutant: off by one
Expired(r) == Running(r) /\ lease[r] = 0
NothingReaped == run                           \* mutant: no reap
AllReaped == [r \in Runs |-> IF Running(r) THEN "failed" ELSE run[r]] \* mutant: lease ignored
ReapedRun == [r \in Runs |-> IF Expired(r) THEN "failed" ELSE run[r]]
ActiveRun == \E r \in Runs : ReapedRun[r] = "running"

\* The common tail of both claim transactions: with no active run left after
\* the reap, input i is claimed, a fresh run is inserted and i's turn linked.
StartRunUnchecked(i, r) ==  \* mutant: running row not looked up
    /\ input[i] = "queued"
    /\ run[r] = "free"
    /\ input' = [input EXCEPT ![i] = "claimed"]
    /\ turnRun' = [turnRun EXCEPT ![i] = r]
    /\ run' = [ReapedRun EXCEPT ![r] = "running"]
    /\ lease' = [lease EXCEPT ![r] = Lease]
StartRun(i, r) ==
    /\ ~ActiveRun
    /\ input[i] = "queued"
    /\ run[r] = "free"
    /\ input' = [input EXCEPT ![i] = "claimed"]
    /\ turnRun' = [turnRun EXCEPT ![i] = r]
    /\ run' = [ReapedRun EXCEPT ![r] = "running"]
    /\ lease' = [lease EXCEPT ![r] = Lease]

\* A claim that finds a run active, or nothing to claim, commits its reap.
ReapOnly ==
    /\ run' = ReapedRun
    /\ UNCHANGED <<input, turnRun, lease>>

-----------------------------------------------------------------------------
(* The submitting request.                                                  *)

\* submit_life_input, first transaction: the turn (with its deliveries).
AppendUserTurn(i) ==
    /\ ~wiped
    /\ input[i] = "unsent"
    /\ input' = [input EXCEPT ![i] = "turn"]
    /\ handler' = [handler EXCEPT ![i] = "appended"]
    /\ UNCHANGED <<turnRun, run, lease, polled, wiped, execVars>>

\* submit_life_input, second transaction: the queue row.  The web route goes
\* on to wake the runtime, another transport leaves the input to the poller.
\* After a wipe the turn's row is gone and the insert is refused.
EnqueueInput(i) ==
    /\ handler[i] = "appended"
    /\ \/ /\ ~wiped
          /\ input' = [input EXCEPT ![i] = "queued"]
          /\ \/ handler' = [handler EXCEPT ![i] = "accepted"]
             \/ WebWakes /\ handler' = [handler EXCEPT ![i] = "waking"]
       \/ /\ wiped
          /\ handler' = [handler EXCEPT ![i] = "error"]
          /\ UNCHANGED input
    /\ UNCHANGED <<turnRun, run, lease, polled, wiped, execVars>>

\* LifeRuntimeHandle::wake claims this very input; the route spawns the worker.
WakeStarts(i, r) ==
    /\ handler[i] = "waking"
    /\ StartRun(i, r)
    /\ handler' = [handler EXCEPT ![i] = "started"]
    /\ task' = [task EXCEPT ![r] = "claimed"]
    /\ UNCHANGED <<polled, seen, memory, answered, wiped>>

\* wake: claim_input_and_start_run returned None.
WakeFindsNoClaim(i) ==
    /\ handler[i] = "waking"
    /\ ActiveRun \/ input[i] # "queued"
    /\ ReapOnly
    /\ handler' = [handler EXCEPT ![i] = "unclaimed"]
    /\ UNCHANGED <<polled, wiped, execVars>>

\* wake: find_active_run, a second and separate read.
WakeAttaches(i) ==
    /\ handler[i] = "unclaimed"
    /\ \/ (\E r \in Runs : Running(r)) /\ handler' = [handler EXCEPT ![i] = "attached"]
       \/ (\A r \in Runs : ~Running(r)) /\ handler' = [handler EXCEPT ![i] = "error"]
    /\ UNCHANGED <<polled, wiped, queueVars, execVars>>

\* The request disappears between two awaits: its process crashed, the client
\* disconnected, or a storage call failed.
HandlerLost(i) ==
    /\ handler[i] \in {"appended", "waking", "unclaimed"}
    /\ handler' = [handler EXCEPT ![i] = "lost"]
    /\ UNCHANGED <<polled, wiped, queueVars, execVars>>

-----------------------------------------------------------------------------
(* The polling worker.                                                      *)

\* run_life_run_loop: the poll query saw the principal and spawned a claim.
Poll ==
    /\ ~polled
    /\ Queued # {}
    /\ polled' = TRUE
    /\ UNCHANGED <<handler, wiped, queueVars, execVars>>

\* process_next_queued_input claims the oldest queued input.
PollStarts(i, r) ==
    /\ polled
    /\ Oldest(i)
    /\ StartRun(i, r)
    /\ polled' = FALSE
    /\ task' = [task EXCEPT ![r] = "claimed"]
    /\ UNCHANGED <<handler, seen, memory, answered, wiped>>

\* process_next_queued_input: NotClaimed.
PollClaimsNothing ==
    /\ polled
    /\ ActiveRun \/ Queued = {}
    /\ ReapOnly
    /\ polled' = FALSE
    /\ UNCHANGED <<handler, wiped, execVars>>

-----------------------------------------------------------------------------
(* execute_claimed_run and execute_life_run for the task of run r.          *)

Goto(r, p) == task' = [task EXCEPT ![r] = p]
InputOf(r) == {i \in Inputs : turnRun[i] = r}

\* The UPDATE of heartbeat_run_lease touches a row.
HeartbeatHolds(r) == Running(r) /\ lease[r] > 0
Extend(r) == lease' = [lease EXCEPT ![r] = Lease]

\* The worker's first heartbeat, or LostLease.
TakeOwnership(r) ==
    /\ task[r] = "claimed"
    /\ \/ HeartbeatHolds(r) /\ Extend(r) /\ Goto(r, "owned")
       \/ ~HeartbeatHolds(r) /\ UNCHANGED lease /\ Goto(r, "gone")
    /\ UNCHANGED <<input, handler, turnRun, run, polled, seen, memory,
                   answered, wiped>>

\* run_started is appended, the executor hydrates the agent memory and starts;
\* when the load fails it goes on with an empty memory.
BeginExecutionEmpty(r) ==  \* mutant: memory not hydrated
    /\ task[r] = "owned"
    /\ Goto(r, "executing")
    /\ UNCHANGED <<handler, polled, wiped, seen, memory, answered, queueVars>>
BeginExecution(r) ==
    /\ task[r] = "owned"
    /\ IF run[r] = "deleted"
       THEN Goto(r, "gone") /\ UNCHANGED seen
       ELSE /\ Goto(r, "executing")
            /\ \/ seen' = [seen EXCEPT ![r] = memory]
               \/ LoadFaults /\ UNCHANGED seen
    /\ UNCHANGED <<handler, polled, wiped, memory, answered, queueVars>>

\* The heartbeat branch of the worker's select; a failed one drops the
\* executing future (LostLease).
HeartbeatRun(r) ==
    /\ task[r] \in {"executing", "tripped", "checkpointed"}
    /\ \/ HeartbeatHolds(r) /\ Extend(r) /\ UNCHANGED task
       \/ ~HeartbeatHolds(r) /\ UNCHANGED lease /\ Goto(r, "gone")
    /\ UNCHANGED <<input, handler, turnRun, run, polled, seen, memory,
                   answered, wiped>>

\* A background memory checkpoint taken while the agent runs.
SnapshotMemory(r) ==
    /\ task[r] \in {"executing", "tripped"}
    /\ memory' = seen[r] \cup {r}
    /\ UNCHANGED <<handler, polled, wiped, queueVars, task, seen, answered>>

\* watch_durable_cancellation sees a run that is terminal or gone.
WatcherTrips(r) ==
    /\ task[r] = "executing"
    /\ ~Running(r)
    /\ Goto(r, "tripped")
    /\ UNCHANGED <<handler, polled, wiped, queueVars, seen, memory, answered>>

\* The agent finished; the final memory checkpoint is forced.
ExecutorCompletes(r) ==
    /\ task[r] \in {"executing", "tripped"}
    /\ memory' = seen[r] \cup {r}
    /\ Goto(r, "checkpointed")
    /\ UNCHANGED <<handler, polled, wiped, queueVars, seen, answered>>

\* The agent failed, reported as Cancelled once the token is cancelled; or its
\* checkpoint failed, it waits for user input, or its answer cannot be stored.
ExecutorFailsSilently(r) ==  \* mutant: every error taken for a cancellation
    /\ task[r] \in {"tripped", "executing", "checkpointed"}
    /\ Goto(r, "cancelled")
    /\ UNCHANGED <<handler, polled, wiped, queueVars, seen, memory, answered>>
ExecutorFails(r) ==
    /\ \/ task[r] = "tripped" /\ Goto(r, "cancelled")
       \/ /\ task[r] \in {"executing", "tripped", "checkpointed"}
          /\ Goto(r, "failed")
    /\ UNCHANGED <<handler, polled, wiped, queueVars, seen, memory, answered>>

\* persist_assistant_turn: refused only when the principal's rows are gone.
PersistAnswerLater(r) ==  \* mutant: the run completes before its answer is stored
    /\ task[r] = "checkpointed"
    /\ Goto(r, "answered")
    /\ UNCHANGED <<handler, polled, wiped, queueVars, seen, memory, answered>>
PersistAnswer(r) ==
    /\ task[r] = "checkpointed"
    /\ ~wiped
    /\ answered' = answered \cup {r}
    /\ Goto(r, "answered")
    /\ UNCHANGED <<handler, polled, wiped, queueVars, seen, memory>>

\* mark_input_consumed on the input the task carries.
ConsumeClaimed(r) ==
    input' = [i \in Inputs |->
                IF i \in InputOf(r) /\ input[i] = "claimed" THEN "consumed"
                ELSE input[i]]

ConsumeInput(r) ==
    /\ \/ task[r] = "answered" /\ Goto(r, "consumed")
       \/ task[r] = "cancelled" /\ Goto(r, "cancel_consumed")
    /\ ConsumeClaimed(r)
    /\ UNCHANGED <<handler, turnRun, run, lease, polled, seen, memory,
                   answered, wiped>>

\* A running run moves to status s and its lease is cleared.
Finish(r, s) ==
    /\ run' = [run EXCEPT ![r] = s]
    /\ lease' = [lease EXCEPT ![r] = 0]

\* complete_run, then the run_completed event.
CompleteRunAnyway(r) ==  \* mutant: status not checked
    /\ task[r] = "consumed"
    /\ Finish(r, "completed") /\ Goto(r, "completed")
    /\ UNCHANGED <<input, handler, turnRun, polled, seen, memory, answered,
                   wiped>>
CompleteRun(r) ==
    /\ task[r] = "consumed"
    /\ \/ Running(r) /\ Finish(r, "completed") /\ Goto(r, "completed")
       \/ ~Running(r) /\ Goto(r, "gone") /\ UNCHANGED <<run, lease>>
    /\ UNCHANGED <<input, handler, turnRun, polled, seen, memory, answered,
                   wiped>>

\* claim_next_queued_input_and_start_run: the same task goes on with the next
\* input, as a run of its own.
ClaimNext(r, i, n) ==
    /\ task[r] = "completed"
    /\ Oldest(i)
    /\ StartRun(i, n)
    /\ task' = [task EXCEPT ![r] = "gone", ![n] = "claimed"]
    /\ UNCHANGED <<handler, polled, seen, memory, answered, wiped>>

StopDraining(r) ==
    /\ task[r] = "completed"
    /\ ActiveRun \/ Queued = {}
    /\ ReapOnly
    /\ Goto(r, "gone")
    /\ UNCHANGED <<handler, polled, wiped, seen, memory, answered>>

\* fail_run after an executor error.
FailRun(r) ==
    /\ task[r] = "failed"
    /\ \/ Running(r) /\ Finish(r, "failed")
       \/ ~Running(r) /\ UNCHANGED <<run, lease>>
    /\ Goto(r, "gone")
    /\ UNCHANGED <<input, handler, turnRun, polled, seen, memory, answered,
                   wiped>>

\* cancel_run: only a running run changes, and its claimed input with it.
CancelTx(r) ==
    \/ Running(r) /\ Finish(r, "cancelled") /\ ConsumeClaimed(r)
    \/ ~Running(r) /\ UNCHANGED <<input, run, lease>>

FinishCancelled(r) ==
    /\ task[r] = "cancel_consumed"
    /\ CancelTx(r)
    /\ Goto(r, "gone")
    /\ UNCHANGED <<handler, turnRun, polled, seen, memory, answered, wiped>>

\* The task disappears: its process crashed, or a storage call it makes
\* outside the executor failed and was propagated.
TaskLost(r) ==
    /\ Live(r)
    /\ Goto(r, "gone")
    /\ UNCHANGED <<handler, polled, wiped, queueVars, seen, memory, answered>>

-----------------------------------------------------------------------------
(* The owner, and time.                                                     *)

OwnerCancel(r) ==
    /\ OwnerCancels
    /\ Running(r)
    /\ CancelTx(r)
    /\ UNCHANGED <<handler, turnRun, polled, wiped, execVars>>

\* privacy_hard_wipe_life_state deletes the memory snapshot and the principal;
\* turns, inputs and runs go with it.  Tasks are not told.
Wipe ==
    /\ OwnerWipes /\ ~wiped
    /\ wiped' = TRUE
    /\ memory' = {}
    /\ input' = [i \in Inputs |->
                   IF input[i] = "unsent" THEN "unsent" ELSE "deleted"]
    /\ run' = [r \in Runs |-> IF run[r] = "free" THEN "free" ELSE "deleted"]
    /\ lease' = [r \in Runs |-> 0]
    /\ answered' = {}
    /\ UNCHANGED <<handler, turnRun, task, polled, seen>>

\* A live task's next heartbeat, or the few statements around its execution,
\* come before the tick.
OnTime(r) ==
    Live(r) /\ Running(r) =>
        IF task[r] \in {"executing", "tripped", "checkpointed"}
        THEN lease[r] > Lease - Heartbeat
        ELSE lease[r] > 1

Tick ==
    /\ \E r \in Runs : lease[r] > 0
    /\ Timely => \A r \in Runs : OnTime(r)
    /\ lease' = [r \in Runs |-> IF lease[r] > 0 THEN lease[r] - 1 ELSE 0]
    /\ UNCHANGED <<input, handler, turnRun, run, polled, wiped, execVars>>

-----------------------------------------------------------------------------
SubmitStep(i) ==
    \/ AppendUserTurn(i) \/ EnqueueInput(i) \/ WakeFindsNoClaim(i)
    \/ WakeAttaches(i) \/ HandlerLost(i)
    \/ \E r \in Runs : WakeStarts(i, r)

PollStep ==
    \/ Poll \/ PollClaimsNothing
    \/ \E i \in Inputs, r \in Runs : PollStarts(i, r)

\* What the executing task does of its own accord, apart from heartbeats and
\* snapshots.
TaskStep(r) ==
    \/ TakeOwnership(r) \/ BeginExecution(r) \/ WatcherTrips(r)
    \/ ExecutorCompletes(r) \/ ExecutorFails(r) \/ PersistAnswer(r)
    \/ ConsumeInput(r) \/ CompleteRun(r) \/ StopDraining(r) \/ FailRun(r)
    \/ FinishCancelled(r)
    \/ \E i \in Inputs, n \in Runs : ClaimNext(r, i, n)

Next ==
    \/ \E i \in Inputs : SubmitStep(i)
    \/ PollStep
    \/ \E r \in Runs : \/ TaskStep(r) \/ HeartbeatRun(r) \/ SnapshotMemory(r)
                       \/ TaskLost(r) \/ OwnerCancel(r)
    \/ Wipe
    \/ Tick

Spec == Init /\ [][Next]_vars

\* The poller polls for ever, every task takes its next step (the executor
\* returns within its own timeout), and the clock advances.  Nothing is asked
\* of the requests: the poller drains the queue without them.  Losing a task,
\* a heartbeat or a request is never required.
Fairness ==
    /\ WF_vars(PollStep)
    /\ WF_vars(Tick)
    /\ \A r \in Runs : WF_vars(TaskStep(r))
FairSpec == Spec /\ Fairness

-----------------------------------------------------------------------------
(* Properties.                                                              *)

Terminal == {"completed", "failed", "cancelled"}

\* A principal never has two running runs, whatever wakes, polls, drains and
\* reaps interleave (the claim transactions of storage/sqlx.rs).
AtMostOneRunning ==
    \A r, s \in Runs : Running(r) /\ Running(s) => r = s

\* A claimed input belongs to exactly one run, which is running or was failed:
\* no completed or cancelled run leaves its input behind, and no input is
\* claimed without a run (claims, complete_run, cancel_run).
ClaimHasItsRun ==
    \A i \in Inputs : input[i] = "claimed" =>
        /\ turnRun[i] # NoRun
        /\ run[turnRun[i]] \in {"running", "failed"}

\* One input, one run: no two inputs are ever carried by the same run
\* (execute_claimed_run, "preserves the one-input-one-run boundary").
OneInputOneRun ==
    \A i, j \in Inputs :
        turnRun[i] = turnRun[j] /\ turnRun[i] # NoRun => i = j

\* A completed run has stored its answer and consumed its input, even when
\* it lost its lease or raced a cancel on the way (execute_claimed_run).
CompletedIsAnswered ==
    \A r \in Runs : run[r] = "completed" =>
        /\ r \in answered
        /\ \A i \in InputOf(r) : input[i] = "consumed"

\* A run that reached a terminal status keeps it: a late complete_run, fail_run,
\* cancel_run or reap of another task or request cannot rewrite the outcome.
OutcomeIsFinal ==
    [][\A r \in Runs : run[r] \in Terminal => run'[r] \in {run[r], "deleted"}]_vars

\* With heartbeats on time, the reaper never fails a run whose task is alive:
\* a failed run has no task left (heartbeat_run_lease against the reap).
LiveTaskKeepsItsRun ==
    \A r \in Runs : run[r] = "failed" => ~Live(r)

\* With heartbeats on time, two executors of one principal overlap only when
\* the owner cancelled (or wiped) the run of one of them.
ExecutorsOverlapOnlyByCancel ==
    \A r, s \in Runs :
        /\ r # s
        /\ task[r] \in {"executing", "checkpointed"}
        /\ task[s] \in {"executing", "checkpointed"}
        => {run[r], run[s]} \cap {"cancelled", "deleted"} # {}

\* With heartbeats on time, an input is consumed only when its run stored an
\* answer or the owner cancelled it.
ConsumedForAReason ==
    \A i \in Inputs : input[i] = "consumed" =>
        turnRun[i] \in answered \/ run[turnRun[i]] = "cancelled"

\* With heartbeats on time, the conversation of every completed run stays in
\* the memory snapshot the next run starts from (forced final checkpoint of
\* execute_life_run), as long as the owner cancelled nothing: a cancelled
\* executor runs on and its late checkpoint may replace the snapshot.
MemoryKeepsCompletedRuns ==
    \A r \in Runs : run[r] = "completed" =>
        r \in memory \/ \E s \in Runs : run[s] \in {"cancelled", "deleted"}

\* Inputs are claimed in queue order: the only claim that overtakes an older
\* queued input is the wake of the very request that submitted the newer one.
ClaimsInOrder ==
    [][\A i, j \in Inputs :
          /\ input[i] = "queued" /\ input'[i] = "claimed"
          /\ input[j] = "queued" /\ j < i
          => handler[i] = "waking" /\ handler'[i] = "started"]_vars

\* A queued input is eventually claimed (or wiped), although tasks die and
\* leave runs behind: "a crashed worker cannot block the queue indefinitely".
QueueDrains ==
    \A i \in Inputs : input[i] = "queued" ~> input[i] # "queued"
=============================================================================
