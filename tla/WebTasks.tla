------------------------------ MODULE WebTasks ------------------------------
(***************************************************************************)
(* The tasks of one web session (crates/oxide-agent-transport-web): the     *)
(* create, resume and cancel routes, the in-memory bookkeeping of           *)
(* WebSessionManager and SessionRegistry, the task that runs the agent and  *)
(* persists its outcome, and a restart of the backend.                      *)
(*                                                                          *)
(* A run is one request that starts the agent, from the route's checks to   *)
(* the end of the tokio task it spawns.  A run's cancellation token is      *)
(* named by the run that renewed it.  Each update of the in-memory maps is  *)
(* one step (their locks guard no I/O); every storage call, every wait for  *)
(* the executor's lock and every spawn is a step of its own.  The lock is   *)
(* fair: a spawned executor task queues for it before a later request does. *)
(***************************************************************************)
EXTENDS Integers, FiniteSets

CONSTANTS
    Tasks,       \* task ids (Uuid::new_v4)
    NoTask,      \* active_task_id IS NULL
    Runs,        \* requests that create or resume a task
    NoRun,       \* the token of a registry entry that no run renewed yet
    Overlap,     \* whether a request may come before the previous one, with
                 \* the session save it leaves in the background, is through,
                 \* or a resume before the run it resumes has settled
    Interleave,  \* whether other writers may come between a load of a task
                 \* record and the save that follows it
    MaxFaults,   \* bound: failed saves and requests dropped half-way
    MaxRestarts  \* bound: restarts of the backend

ASSUME NamesAssumption == NoTask \notin Tasks /\ NoRun \notin Runs
ASSUME BoundsAssumption == MaxFaults \in Nat /\ MaxRestarts \in Nat
ASSUME SwitchesAssumption == {Overlap, Interleave} \subseteq BOOLEAN

VARIABLES
    record,     \* web_tasks.status, seen through the write-front cache
    unflushed,  \* tasks whose first record is in that cache only
    active,     \* web_sessions.active_task_id
    late,       \* tasks whose create left its session save in the background
    meta,       \* WebSessionManager.tasks: the runtime status
    running,    \* WebSessionManager.running_tasks
    token,      \* the registry entry's cancellation token
    installed,  \* the executor session's cancellation token
    cancelled,  \* tokens that were cancelled
    pending,    \* the executor's session holds a PendingUserInput
    phase,      \* where each run stands
    taskOf,     \* the task of each run
    resumed,    \* runs that resume a waiting task
    held,       \* the token a run took with its execution handles
    outcome,    \* what the agent returned to the run
    cancel,     \* progress of the cancel request of each task
    faults, restarts

store   == <<record, unflushed, active, late>>
runtime == <<meta, running, token, cancelled>>
agent   == <<installed, pending>>
request == <<taskOf, resumed>>
bounds  == <<faults, restarts>>
vars == <<store, runtime, agent, request, phase, held, outcome, cancel, bounds>>

ActiveStatus == {"running", "waiting"}
RecordStatus == ActiveStatus \cup {"none", "completed", "failed", "cancelled",
                                   "interrupted"}
MetaStatus == {"none", "running", "completed", "failed", "cancelled"}
Requested == {"checked", "snapshotted", "registered", "recorded"}
InOuter   == {"spawned", "handled", "probing"}
Locking   == {"detached", "executing"}
Persisting == {"returned", "loaded", "saved", "settling"}
Phase == {"none", "done", "lost"} \cup Requested \cup InOuter \cup Locking
             \cup Persisting
Outcome == {"none", "completed", "waiting", "failed", "refused", "cancelled"}
CancelPhase == {"none", "loaded", "saved", "cleared", "signalled", "done", "lost"}

TypeOK ==
    /\ record \in [Tasks -> RecordStatus] /\ unflushed \subseteq Tasks
    /\ active \in Tasks \cup {NoTask} /\ late \subseteq Tasks
    /\ meta \in [Tasks -> MetaStatus] /\ running \subseteq Tasks
    /\ token \in Runs \cup {NoRun} /\ installed \in Runs \cup {NoRun}
    /\ cancelled \subseteq Runs /\ pending \in BOOLEAN
    /\ phase \in [Runs -> Phase] /\ taskOf \in [Runs -> Tasks \cup {NoTask}]
    /\ resumed \subseteq Runs /\ held \in [Runs -> Runs \cup {NoRun}]
    /\ outcome \in [Runs -> Outcome] /\ cancel \in [Tasks -> CancelPhase]
    /\ faults \in 0..MaxFaults /\ restarts \in 0..MaxRestarts

Init ==
    /\ record = [t \in Tasks |-> "none"] /\ unflushed = {}
    /\ active = NoTask /\ late = {}
    /\ meta = [t \in Tasks |-> "none"] /\ running = {}
    /\ token = NoRun /\ installed = NoRun /\ cancelled = {} /\ pending = FALSE
    /\ phase = [r \in Runs |-> "none"] /\ taskOf = [r \in Runs |-> NoTask]
    /\ resumed = {} /\ held = [r \in Runs |-> NoRun]
    /\ outcome = [r \in Runs |-> "none"] /\ cancel = [t \in Tasks |-> "none"]
    /\ faults = 0 /\ restarts = 0

Goto(r, p) == phase' = [phase EXCEPT ![r] = p]
LockFree == \A r \in Runs : phase[r] \notin Locking

\* What the client and the storage are allowed to do.
InFlight ==
    \/ \E r \in Runs : phase[r] \in Requested
    \/ \E t \in Tasks : cancel[t] \notin {"none", "done", "lost"}
    \/ late # {}
MayRequest == Overlap \/ ~InFlight
MayResume(t) ==
    \/ Overlap
    \/ ~InFlight /\ \A s \in Runs : taskOf[s] = t => phase[s] \in {"done", "lost"}
MayLoad ==
    \/ Interleave
    \/ /\ \A r \in Runs : phase[r] # "loaded"
       /\ \A t \in Tasks : cancel[t] # "loaded"

-----------------------------------------------------------------------------
(* api_create_task and api_resume_task.                                     *)

RuntimeBusy == \E t \in running : meta[t] = "running"
RejectsRuntime == RuntimeBusy  \* mutant: the durable record is not asked
Rejects ==
    \/ RuntimeBusy
    \/ active # NoTask /\ record[active] \in ActiveStatus

\* The session is loaded and reject_active_task lets a new task pass.
CheckCreate(r, t) ==
    /\ MayRequest
    /\ phase[r] = "none"
    /\ \A s \in Runs : taskOf[s] # t
    /\ ~Rejects
    /\ Goto(r, "checked")
    /\ taskOf' = [taskOf EXCEPT ![r] = t]
    /\ UNCHANGED <<store, runtime, agent, resumed, held, outcome, cancel, bounds>>

\* The task waits for the user and is the session's active one.
CheckResume(r, t) ==
    /\ MayResume(t)
    /\ phase[r] = "none"
    /\ record[t] = "waiting" /\ active = t
    /\ Goto(r, "checked")
    /\ taskOf' = [taskOf EXCEPT ![r] = t]
    /\ resumed' = resumed \cup {r}
    /\ UNCHANGED <<store, runtime, agent, held, outcome, cancel, bounds>>

\* active_session_memory_snapshot reads the executor, then the pre-run memory
\* snapshot is stored.
SnapshotMemory(r) ==
    /\ phase[r] = "checked" /\ r \notin resumed
    /\ LockFree
    /\ Goto(r, "snapshotted")
    /\ UNCHANGED <<store, runtime, agent, request, held, outcome, cancel, bounds>>

\* register_task_with_id, register_existing_task.
Register(r) ==
    /\ phase[r] = IF r \in resumed THEN "checked" ELSE "snapshotted"
    /\ token' = r
    /\ meta' = [meta EXCEPT ![taskOf[r]] = "running"]
    /\ running' = running \cup {taskOf[r]}
    /\ Goto(r, "registered")
    /\ UNCHANGED <<store, cancelled, agent, request, held, outcome, cancel, bounds>>

\* The first record goes to the write-front cache; the agent is spawned, and
\* the save of the session record.
SpawnCreated(r) ==
    /\ phase[r] = "registered" /\ r \notin resumed
    /\ record' = [record EXCEPT ![taskOf[r]] = "running"]
    /\ unflushed' = unflushed \cup {taskOf[r]}
    /\ late' = late \cup {taskOf[r]}
    /\ Goto(r, "spawned")
    /\ UNCHANGED <<active, runtime, agent, request, held, outcome, cancel, bounds>>

\* A resume saves the task record it loaded, then the session, then spawns.
RecordResumed(r) ==
    /\ phase[r] = "registered" /\ r \in resumed
    /\ MayLoad
    /\ record' = [record EXCEPT ![taskOf[r]] = "running"]
    /\ Goto(r, "recorded")
    /\ UNCHANGED <<unflushed, active, late, runtime, agent, request, held,
                   outcome, cancel, bounds>>

SpawnResumed(r) ==
    /\ phase[r] = "recorded"
    /\ active' = taskOf[r]
    /\ Goto(r, "spawned")
    /\ UNCHANGED <<record, unflushed, late, runtime, agent, request, held,
                   outcome, cancel, bounds>>

\* spawn_session_task_update.
SaveSessionLate(t) ==
    /\ t \in late
    /\ late' = late \ {t}
    /\ active' = t
    /\ UNCHANGED <<record, unflushed, runtime, agent, request, phase, held,
                   outcome, cancel, bounds>>

\* flush_initial_task_with_retry.
FlushInitial(t) ==
    /\ t \in unflushed
    /\ unflushed' = unflushed \ {t}
    /\ UNCHANGED <<record, active, late, runtime, agent, request, phase, held,
                   outcome, cancel, bounds>>

-----------------------------------------------------------------------------
(* spawn_registered_task: the tokio task of a run (InOuter), which a cancel   *)
(* can abort, and the executor task it detaches, which it cannot.            *)

\* registry.execution_handles.
TakeHandles(r) ==
    /\ phase[r] = "spawned"
    /\ Goto(r, "handled")
    /\ held' = [held EXCEPT ![r] = token]
    /\ UNCHANGED <<store, runtime, agent, request, outcome, cancel, bounds>>

\* The token replaces the executor session's, under the executor's lock.
InstallNothing(r) ==  \* mutant: the session keeps its token
    /\ phase[r] = "handled" /\ LockFree
    /\ Goto(r, "probing")
    /\ UNCHANGED <<store, runtime, agent, request, held, outcome, cancel, bounds>>
Install(r) ==
    /\ phase[r] = "handled" /\ LockFree
    /\ installed' = held[r]
    /\ Goto(r, "probing")
    /\ UNCHANGED <<store, runtime, pending, request, held, outcome, cancel, bounds>>

\* The search probe ends and the token is checked.
ProbeEnds(r) ==
    /\ phase[r] = "probing"
    /\ IF held[r] \in cancelled
       THEN Goto(r, "returned") /\ outcome' = [outcome EXCEPT ![r] = "cancelled"]
       ELSE Goto(r, "detached") /\ UNCHANGED outcome
    /\ UNCHANGED <<store, runtime, agent, request, held, cancel, bounds>>

\* The executor task gets the lock; a resume needs a PendingUserInput, and
\* start_task drops it.
Execute(r) ==
    /\ phase[r] = "detached"
    /\ \A s \in Runs : phase[s] # "executing"
    /\ IF r \in resumed /\ ~pending
       THEN Goto(r, "returned") /\ outcome' = [outcome EXCEPT ![r] = "refused"]
       ELSE Goto(r, "executing") /\ UNCHANGED outcome
    /\ pending' = FALSE
    /\ UNCHANGED <<store, runtime, installed, request, held, cancel, bounds>>

\* A cancelled agent fails, unless it had finished anyway.
AgentReturns(r, o) ==
    /\ phase[r] = "executing"
    /\ Goto(r, "returned")
    /\ outcome' = [outcome EXCEPT ![r] = o]
    /\ pending' = (pending \/ o = "waiting")
    /\ UNCHANGED <<store, runtime, installed, request, held, cancel, bounds>>

-----------------------------------------------------------------------------
(* The persist_task functions and the manager's bookkeeping.                 *)

\* update_web_task_unless_cancelled: load, then save.
LoadRecordUnchecked(r) ==  \* mutant: a cancelled record is updated too
    /\ phase[r] = "returned" /\ MayLoad
    /\ Goto(r, "loaded")
    /\ UNCHANGED <<store, runtime, agent, request, held, outcome, cancel, bounds>>
LoadRecord(r) ==
    /\ phase[r] = "returned" /\ MayLoad
    /\ Goto(r, IF record[taskOf[r]] = "cancelled" THEN "settling" ELSE "loaded")
    /\ UNCHANGED <<store, runtime, agent, request, held, outcome, cancel, bounds>>

SaveRecord(r) ==
    /\ phase[r] = "loaded"
    /\ record' = [record EXCEPT ![taskOf[r]] =
                     IF outcome[r] = "refused" THEN "failed" ELSE outcome[r]]
    /\ unflushed' = unflushed \ {taskOf[r]}
    /\ Goto(r, "saved")
    /\ UNCHANGED <<active, late, runtime, agent, request, held, outcome,
                   cancel, bounds>>

\* update_web_session_for_task.
UpdateSession(r) ==
    /\ phase[r] = "saved"
    /\ active' = IF outcome[r] = "waiting" THEN taskOf[r] ELSE NoTask
    /\ Goto(r, "settling")
    /\ UNCHANGED <<record, unflushed, late, runtime, agent, request, held,
                   outcome, cancel, bounds>>

\* WebSessionManager.cancel_task, and the session's current token with it.
SignalCancel(t) ==
    /\ cancelled' = cancelled \cup ({token} \ {NoRun})
    /\ meta' = [meta EXCEPT ![t] = IF @ = "none" THEN @ ELSE "cancelled"]
    /\ running' = running \ {t}
    /\ UNCHANGED token

\* complete_task (a run that waits completes too) or fail_task.
EndTask(t, status) ==
    /\ meta' = [meta EXCEPT ![t] = IF @ \in {"none", "cancelled"} THEN @ ELSE status]
    /\ running' = running \ {t}
    /\ UNCHANGED <<token, cancelled>>

SettleNothing(r) ==  \* mutant: the manager is not told
    /\ phase[r] = "settling"
    /\ Goto(r, "done")
    /\ UNCHANGED <<store, runtime, agent, request, held, outcome, cancel, bounds>>
Settle(r) ==
    /\ phase[r] = "settling"
    /\ CASE outcome[r] = "cancelled" -> SignalCancel(taskOf[r])
         [] outcome[r] \in {"completed", "waiting"} -> EndTask(taskOf[r], "completed")
         [] outcome[r] \in {"failed", "refused"} -> EndTask(taskOf[r], "failed")
    /\ Goto(r, "done")
    /\ UNCHANGED <<store, agent, request, held, outcome, cancel, bounds>>

-----------------------------------------------------------------------------
(* api_cancel_task.                                                          *)

CancelTo(t, p) == cancel' = [cancel EXCEPT ![t] = p]

CancelLoads(t) ==
    /\ MayRequest /\ MayLoad
    /\ cancel[t] \in {"none", "lost"} /\ record[t] \in ActiveStatus
    /\ CancelTo(t, "loaded")
    /\ UNCHANGED <<store, runtime, agent, request, phase, held, outcome, bounds>>

CancelSaves(t) ==
    /\ cancel[t] = "loaded"
    /\ record' = [record EXCEPT ![t] = "cancelled"]
    /\ unflushed' = unflushed \ {t}
    /\ CancelTo(t, "saved")
    /\ UNCHANGED <<active, late, runtime, agent, request, phase, held, outcome, bounds>>

\* save_cancelled_session_task_status.
CancelClearsSession(t) ==
    /\ cancel[t] = "saved"
    /\ active' = IF active = t THEN NoTask ELSE active
    /\ CancelTo(t, "cleared")
    /\ UNCHANGED <<record, unflushed, late, runtime, agent, request, phase,
                   held, outcome, bounds>>

CancelSignals(t) ==
    /\ cancel[t] = "cleared"
    /\ SignalCancel(t)
    /\ CancelTo(t, "signalled")
    /\ UNCHANGED <<store, agent, request, phase, held, outcome, bounds>>

\* abort_task_handle: only the outer task has a handle.
Abortable(r) ==
    \/ phase[r] \in InOuter
    \/ phase[r] \in Persisting /\ outcome[r] = "cancelled"
CancelAborts(t) ==
    /\ cancel[t] = "signalled"
    /\ phase' = [r \in Runs |-> IF taskOf[r] = t /\ Abortable(r) THEN "done"
                                ELSE phase[r]]
    /\ CancelTo(t, "done")
    /\ UNCHANGED <<store, runtime, agent, request, held, outcome, bounds>>

-----------------------------------------------------------------------------
(* Storage errors, dropped requests, and a restart.                          *)

Fault == faults < MaxFaults /\ faults' = faults + 1 /\ UNCHANGED restarts

\* A create or resume ends early: its client left, or a storage call failed.
RequestLost(r) ==
    /\ Fault
    /\ phase[r] \in Requested
    /\ Goto(r, "lost")
    /\ UNCHANGED <<store, runtime, agent, request, held, outcome, cancel>>

\* The same for a cancel; its last two steps wait for no I/O.
CancelLost(t) ==
    /\ Fault
    /\ cancel[t] \in {"loaded", "saved", "cleared"}
    /\ CancelTo(t, "lost")
    /\ UNCHANGED <<store, runtime, agent, request, phase, held, outcome>>

\* The outcome's record or session save fails: logged, and the run goes on.
PersistFails(r) ==
    /\ Fault
    /\ phase[r] \in {"loaded", "saved"}
    /\ Goto(r, "settling")
    /\ UNCHANGED <<store, runtime, agent, request, held, outcome, cancel>>

LateSaveFails(t) ==
    /\ Fault
    /\ t \in late
    /\ late' = late \ {t}
    /\ UNCHANGED <<record, unflushed, active, runtime, agent, request, phase,
                   held, outcome, cancel>>

\* The process starts anew: mark_unfinished_tasks_interrupted updates the
\* running records and the sessions that point to them.
Restart ==
    /\ restarts < MaxRestarts /\ restarts' = restarts + 1
    /\ record' = [t \in Tasks |->
                     CASE t \in unflushed -> "none"
                       [] t \notin unflushed /\ record[t] = "running" -> "interrupted"
                       [] OTHER -> record[t]]
    /\ active' = IF active # NoTask /\ record'[active] = "interrupted" THEN NoTask
                 ELSE active
    /\ unflushed' = {} /\ late' = {}
    /\ meta' = [t \in Tasks |-> "none"] /\ running' = {}
    /\ token' = NoRun /\ installed' = NoRun /\ pending' = FALSE
    /\ phase' = [r \in Runs |-> IF phase[r] \in {"none", "lost"} THEN phase[r]
                                ELSE "done"]
    /\ cancel' = [t \in Tasks |-> IF cancel[t] \in {"none", "done"} THEN cancel[t]
                                  ELSE "lost"]
    /\ UNCHANGED <<cancelled, request, held, outcome, faults>>

-----------------------------------------------------------------------------
RunStep(r) ==
    \/ SnapshotMemory(r) \/ Register(r) \/ SpawnCreated(r) \/ RecordResumed(r)
    \/ SpawnResumed(r) \/ TakeHandles(r) \/ Install(r) \/ ProbeEnds(r) \/ Execute(r)
    \/ \E o \in {"completed", "waiting", "failed"} : AgentReturns(r, o)
    \/ LoadRecord(r) \/ SaveRecord(r) \/ UpdateSession(r) \/ Settle(r)

CancelStep(t) ==
    \/ CancelLoads(t) \/ CancelSaves(t) \/ CancelClearsSession(t)
    \/ CancelSignals(t) \/ CancelAborts(t)

Next ==
    \/ \E r \in Runs, t \in Tasks : CheckCreate(r, t) \/ CheckResume(r, t)
    \/ \E r \in Runs : RunStep(r) \/ RequestLost(r) \/ PersistFails(r)
    \/ \E t \in Tasks : \/ CancelStep(t) \/ SaveSessionLate(t) \/ FlushInitial(t)
                        \/ CancelLost(t) \/ LateSaveFails(t)
    \/ Restart

Spec == Init /\ [][Next]_vars

-----------------------------------------------------------------------------
(* Properties.                                                               *)

\* The check of reject_active_task, made from the runtime maps and from a
\* session record that is saved late, never lets two tasks run at once, through
\* failed saves, lost requests, cancels and restarts; and no task runs beside
\* another running or waiting record as long as none of these happens.  A record
\* whose saves failed is passed over by the next create, and so is a waiting task
\* that the late session save of a cancelled run hides.
Working(t) == \E r \in Runs : taskOf[r] = t /\ phase[r] \notin {"none", "done", "lost"}
Calm == faults = 0 /\ restarts = 0 /\ \A t \in Tasks : cancel[t] = "none"
OneActiveTask ==
    \A t, u \in Tasks :
        /\ record[t] = "running" /\ Working(t)
        /\ \/ record[u] = "running" /\ Working(u)
           \/ record[u] \in ActiveStatus /\ Calm
        => t = u

\* When the cancel route has answered, each run of the task was aborted, or it
\* works with a cancelled token in the executor's session, or it is past the
\* agent: a run is never between the two mechanisms.
CancelStopsTheRun ==
    \A r \in Runs, t \in Tasks :
        taskOf[r] = t /\ cancel[t] = "done" =>
            /\ phase[r] \notin Requested \cup InOuter
            /\ phase[r] \in Locking => installed \in cancelled

\* The outcome of a run that ends after the cancel, a resume, or a restart
\* does not bring a cancelled record back.
CancelIsFinal ==
    [][\A t \in Tasks : record[t] = "cancelled" => record'[t] = "cancelled"]_vars

\* When everything has come to rest and the session still rejects new tasks,
\* the reason is a task the user can cancel (its record is active), a create
\* that was dropped between its registration and its record, or a cancel that
\* was dropped after its record, of a task whose run had gone before: these two
\* only a restart clears.
AtRest ==
    /\ \A r \in Runs : phase[r] \in {"none", "done", "lost"}
    /\ ~InFlight
NeverStuck ==
    AtRest /\ Rejects =>
        \/ \E t \in running \cup ({active} \ {NoTask}) : record[t] \in ActiveStatus
        \/ \E r \in Runs \ resumed : phase[r] = "lost" /\ taskOf[r] \in running
        \/ \E t \in running : cancel[t] = "lost" /\ record[t] = "cancelled"
=============================================================================
