----------------------------- MODULE Delegation -----------------------------
(***************************************************************************)
(* Background sub-agents (agent/providers/delegation.rs): the job store with *)
(* its slots, statuses and wake-ups; the spawn, wait and cancel tools, whose *)
(* calls run concurrently (tool_runtime/runtime.rs); each job's task, with   *)
(* the relay of its progress events; and the parent's flow, which delivers   *)
(* its answer when its progress channel has closed (the Telegram task        *)
(* runner).                                                                  *)
(*                                                                          *)
(* Tasks, prompts, display names and reports are left out; an output is told *)
(* apart by who wrote it.  A cancelled token only makes a run end sooner,    *)
(* and a run may end at any time, so tokens are left out too; "failed"       *)
(* stands for TimedOut as well.                                              *)
(***************************************************************************)
EXTENDS Integers, FiniteSets

CONSTANTS
    NumJobs,   \* bound: sub-agents ever prepared
    MaxJobs,   \* SUB_AGENT_MAX_CONCURRENT_JOBS
    Spawners,  \* spawn_sub_agents calls that may run at the same time
    Waiters,   \* wait_sub_agents calls that may run at the same time
    Browser    \* whether sub-agents have the Browser Live provider

ASSUME SlotsAssumption == NumJobs \in Nat /\ MaxJobs \in Nat \ {0}
ASSUME BrowserAssumption == Browser \in BOOLEAN

VARIABLES
    job,      \* SubAgentJobStore::jobs: status and output
    free,     \* permits left in the semaphore
    task,     \* the background task of a job
    outcome,  \* the status its runner's result maps to
    senders,  \* who holds a sender of the job's progress channel
    relay,    \* its relay task, which holds a sender of the parent's channel
    spawn,    \* spawn calls: tasks wanted, permits held, jobs prepared
    wait,     \* wait calls: ids, and whether notified
    parent    \* "run", "ended": waiting for the progress channel, "delivered"

vars == <<job, free, task, outcome, senders, relay, spawn, wait, parent>>

Jobs == 1..NumJobs  \* numbered as they are prepared
Final == {"completed", "failed", "cancelled"}
Alive == {"run", "relay", "finished"}
NoJob == [status |-> "none", output |-> "none"]
Records == [status : {"none", "running"} \cup Final, output : {"none", "run", "cancel"}]
NoSpawn == [pc |-> "idle", want |-> 0, held |-> 0, prepared |-> {}]
NoWait == [pc |-> "idle", ids |-> {}, woken |-> FALSE]

TypeOK ==
    /\ job \in [Jobs -> Records]
    /\ free \in 0..MaxJobs
    /\ task \in [Jobs -> {"none", "prepared", "dropped", "done"} \cup Alive]
    /\ outcome \in [Jobs -> {"none"} \cup Final]
    /\ senders \in [Jobs -> SUBSET {"own", "catalog", "browser", "tool"}]
    /\ relay \in [Jobs -> {"none", "open", "closed"}]
    /\ spawn \in [Spawners -> [pc : {"idle", "take", "prepare", "start"},
                               want : 0..MaxJobs, held : 0..MaxJobs,
                               prepared : SUBSET Jobs]]
    /\ wait \in [Waiters -> [pc : {"idle", "look", "looked", "parked"},
                             ids : SUBSET Jobs, woken : BOOLEAN]]
    /\ parent \in {"run", "ended", "delivered"}

Init ==
    /\ job = [j \in Jobs |-> NoJob]
    /\ free = MaxJobs
    /\ task = [j \in Jobs |-> "none"]
    /\ outcome = [j \in Jobs |-> "none"]
    /\ senders = [j \in Jobs |-> {}]
    /\ relay = [j \in Jobs |-> "none"]
    /\ spawn = [s \in Spawners |-> NoSpawn]
    /\ wait = [w \in Waiters |-> NoWait]
    /\ parent = "run"

Known == {j \in Jobs : job[j].status # "none"}
Terminal(j) == job[j].status \in Final
Lowest(j, S) == j \in S /\ \A i \in S : j <= i

\* notify_waiters reaches every Notified that exists, polled or not.
NotifyWaiters ==
    wait' = [w \in Waiters |-> [wait[w] EXCEPT !.woken = wait[w].pc # "idle"]]

-----------------------------------------------------------------------------
(* spawn_sub_agents.                                                        *)

SpawnCall(s) ==
    /\ parent = "run" /\ spawn[s] = NoSpawn
    /\ \E n \in 1..MaxJobs :
         /\ n <= Cardinality({j \in Jobs : task[j] = "none"})
         /\ spawn' = [spawn EXCEPT ![s].pc = "take", ![s].want = n]
    /\ UNCHANGED <<job, free, task, outcome, senders, relay, wait, parent>>

\* One try_acquire_owned of try_acquire_slots.  Calls on other threads see the
\* permits of a call that will be refused as taken.
SlotFreeByStatus ==  \* mutant: a slot is free once its job's status is final
    Cardinality({j \in Jobs : job[j].status = "running"}) < MaxJobs
SlotFree == free > 0
SpawnTake(s) ==
    /\ spawn[s].pc = "take"
    /\ IF SlotFree
       THEN /\ free' = free - 1
            /\ spawn' = [spawn EXCEPT
                 ![s].held = @ + 1,
                 ![s].pc = IF spawn[s].held + 1 = spawn[s].want THEN "prepare" ELSE "take"]
       ELSE /\ free' = free + spawn[s].held
            /\ spawn' = [spawn EXCEPT ![s] = NoSpawn]
    /\ UNCHANGED <<job, task, outcome, senders, relay, wait, parent>>

\* prepare_sub_agent_execution: the relay, and the senders of its channel that
\* the prepared job, its tools and the browser provider hold.
SpawnPrepare(s) ==
    /\ spawn[s].pc = "prepare"
    /\ \E j \in Jobs :
         /\ Lowest(j, {i \in Jobs : task[i] = "none"})
         /\ task' = [task EXCEPT ![j] = "prepared"]
         /\ relay' = [relay EXCEPT ![j] = "open"]
         /\ senders' = [senders EXCEPT ![j] =
              {"own", "catalog"} \cup (IF Browser THEN {"browser"} ELSE {})]
         /\ spawn' = [spawn EXCEPT
              ![s].prepared = @ \cup {j},
              ![s].pc = IF Cardinality(spawn[s].prepared \cup {j}) = spawn[s].want
                        THEN "start" ELSE "prepare"]
    /\ UNCHANGED <<job, free, outcome, wait, parent>>

\* The AGENTS.md load failed, no tool is left, or the call was cancelled or
\* timed out at its await: what it has prepared and its permits are dropped.
SpawnFails(s) ==
    /\ spawn[s].pc = "prepare"
    /\ LET lost == spawn[s].prepared
       IN /\ task' = [j \in Jobs |-> IF j \in lost THEN "dropped" ELSE task[j]]
          /\ senders' = [j \in Jobs |-> IF j \in lost THEN {} ELSE senders[j]]
    /\ free' = free + spawn[s].held
    /\ spawn' = [spawn EXCEPT ![s] = NoSpawn]
    /\ UNCHANGED <<job, outcome, relay, wait, parent>>

\* insert_running, and the task that takes the permit along.
SpawnStart(s) ==
    /\ spawn[s].pc = "start"
    /\ \E j \in Jobs :
         /\ Lowest(j, spawn[s].prepared)
         /\ job' = [job EXCEPT ![j].status = "running"]
         /\ task' = [task EXCEPT ![j] = "run"]
         /\ spawn' = [spawn EXCEPT
              ![s] = IF spawn[s].prepared = {j} THEN NoSpawn
                     ELSE [spawn[s] EXCEPT !.prepared = spawn[s].prepared \ {j},
                                           !.held = spawn[s].held - 1]]
    /\ NotifyWaiters
    /\ UNCHANGED <<free, outcome, senders, relay, parent>>

-----------------------------------------------------------------------------
(* The job's task: run_prepared_sub_agent_execution and finish.             *)

\* finish_sub_agent_progress_relay drops the tool catalog and its own sender;
\* a tool call that was in flight when the run timed out or was cancelled
\* holds the catalog on.
HeldCatalog(j) == senders[j] \ {"own"}  \* mutant: the catalog is not replaced
HeldAfterRun(j) == senders[j] \ {"own", "catalog"}

\* run_with_timeout returns; status_for_timed_run_result.
RunReturns(j) ==
    /\ task[j] = "run"
    /\ \E result \in {"completed", "failed"}, inFlight \in BOOLEAN :
         /\ result = "completed" => ~inFlight
         /\ outcome' = [outcome EXCEPT ![j] = result]
         /\ senders' = [senders EXCEPT ![j] =
              HeldAfterRun(j) \cup (IF inFlight THEN {"tool"} ELSE {})]
    /\ task' = [task EXCEPT ![j] = "relay"]
    /\ UNCHANGED <<job, free, relay, spawn, wait, parent>>

\* run_one_tool ends: answered, cancelled, or after its hard timeout.
ToolReturns(j) ==
    /\ "tool" \in senders[j]
    /\ senders' = [senders EXCEPT ![j] = @ \ {"tool"}]
    /\ UNCHANGED <<job, free, task, outcome, relay, spawn, wait, parent>>

\* spawn_sub_agent_progress_relay: recv returns None.
RelayEnds(j) ==
    /\ relay[j] = "open" /\ senders[j] = {}
    /\ relay' = [relay EXCEPT ![j] = "closed"]
    /\ UNCHANGED <<job, free, task, outcome, senders, spawn, wait, parent>>

FinishedAlways(j) ==  \* mutant: a late result replaces the cancellation
    [status |-> outcome[j], output |-> "run"]
Finished(j) ==
    IF job[j].status # "cancelled" THEN [status |-> outcome[j], output |-> "run"]
    ELSE [job[j] EXCEPT !.output = IF @ = "none" THEN "run" ELSE @]
\* The relay is joined; close_all_sessions, the report, and finish.
Finish(j) ==
    /\ task[j] = "relay" /\ relay[j] = "closed"
    /\ job' = [job EXCEPT ![j] = Finished(j)]
    /\ task' = [task EXCEPT ![j] = "finished"]
    /\ senders' = [senders EXCEPT ![j] = {}]
    /\ outcome' = [outcome EXCEPT ![j] = "none"]
    /\ NotifyWaiters
    /\ UNCHANGED <<free, relay, spawn, parent>>

\* The task's future ends, and with it the permit.
SlotReturns(j) ==
    /\ task[j] = "finished"
    /\ task' = [task EXCEPT ![j] = "done"]
    /\ free' = free + 1
    /\ UNCHANGED <<job, outcome, senders, relay, spawn, wait, parent>>

-----------------------------------------------------------------------------
(* cancel_sub_agents and wait_sub_agents.                                   *)

\* cancel_ids; cancel_all is the call with every known id.
Cancel(ids) ==
    /\ parent = "run" /\ ids # {}
    /\ job' = [j \in Jobs |-> IF j \in ids /\ ~Terminal(j)
                              THEN [status |-> "cancelled", output |-> "cancel"]
                              ELSE job[j]]
    /\ NotifyWaiters
    /\ UNCHANGED <<free, task, outcome, senders, relay, spawn, parent>>

\* wait_for_any_terminal: notified() comes before the lookup.
WaitCall(w, ids) ==
    /\ parent = "run" /\ wait[w].pc = "idle" /\ ids # {}
    /\ wait' = [wait EXCEPT ![w] = [pc |-> "look", ids |-> ids, woken |-> FALSE]]
    /\ UNCHANGED <<job, free, task, outcome, senders, relay, spawn, parent>>

WaitLook(w) ==
    /\ wait[w].pc = "look"
    /\ wait' = [wait EXCEPT ![w] =
         IF \E j \in wait[w].ids : Terminal(j) THEN NoWait
         ELSE [@ EXCEPT !.pc = "looked"]]
    /\ UNCHANGED <<job, free, task, outcome, senders, relay, spawn, parent>>

\* The store's lock is free between the lookup and the await.
ParkedAnew(w) ==  \* mutant: notified() is called after the lookup
    [wait[w] EXCEPT !.pc = "parked", !.woken = FALSE]
Parked(w) == [wait[w] EXCEPT !.pc = "parked"]
WaitPark(w) ==
    /\ wait[w].pc = "looked"
    /\ wait' = [wait EXCEPT ![w] = Parked(w)]
    /\ UNCHANGED <<job, free, task, outcome, senders, relay, spawn, parent>>

WaitWakes(w) ==
    /\ wait[w].pc = "parked" /\ wait[w].woken
    /\ wait' = [wait EXCEPT ![w].pc = "look", ![w].woken = FALSE]
    /\ UNCHANGED <<job, free, task, outcome, senders, relay, spawn, parent>>

\* The wait's own timeout, or the runtime's; the statuses of one more lookup
\* are returned as they are.
WaitTimesOut(w) ==
    /\ wait[w].pc = "parked"
    /\ wait' = [wait EXCEPT ![w] = NoWait]
    /\ UNCHANGED <<job, free, task, outcome, senders, relay, spawn, parent>>

-----------------------------------------------------------------------------
(* The parent's run and its flow (run_task_execution).                      *)

\* A final answer, an error, a cancel; a hard timeout leaves calls running.
ParentEnds ==
    /\ parent = "run"
    /\ parent' = "ended"
    /\ UNCHANGED <<job, free, task, outcome, senders, relay, spawn, wait>>

\* finish_task_progress_runtime: every sender of the parent's channel is gone,
\* those of its tools in flight and of the relays too.
ParentDelivers ==
    /\ parent = "ended"
    /\ \A s \in Spawners : spawn[s].pc = "idle"
    /\ \A w \in Waiters : wait[w].pc = "idle"
    /\ \A j \in Jobs : relay[j] # "open"
    /\ parent' = "delivered"
    /\ UNCHANGED <<job, free, task, outcome, senders, relay, spawn, wait>>

SpawnStep(s) == SpawnTake(s) \/ SpawnPrepare(s) \/ SpawnFails(s) \/ SpawnStart(s)
WaitStep(w) == WaitLook(w) \/ WaitPark(w) \/ WaitWakes(w) \/ WaitTimesOut(w)
TaskStep(j) ==
    RunReturns(j) \/ Finish(j) \/ SlotReturns(j)

\* The ids a call may name: one job, or all of them.
IdLists == {Known} \cup {{j} : j \in Known}

Next ==
    \/ \E s \in Spawners : SpawnCall(s) \/ SpawnStep(s)
    \/ \E w \in Waiters : WaitStep(w) \/ \E ids \in IdLists : WaitCall(w, ids)
    \/ \E ids \in IdLists : Cancel(ids)
    \/ \E j \in Jobs : TaskStep(j) \/ ToolReturns(j) \/ RelayEnds(j)
    \/ ParentEnds \/ ParentDelivers

Spec == Init /\ [][Next]_vars

\* Tasks are scheduled; runs, tools and waits have hard timeouts.  Nothing makes
\* the parent call a tool or end.
Fairness ==
    /\ \A s \in Spawners : WF_vars(SpawnStep(s))
    /\ \A w \in Waiters : WF_vars(WaitStep(w)) /\ WF_vars(WaitTimesOut(w))
    /\ \A j \in Jobs : WF_vars(TaskStep(j)) /\ WF_vars(ToolReturns(j)) /\ WF_vars(RelayEnds(j))
    /\ WF_vars(ParentDelivers)
FairSpec == Spec /\ Fairness

-----------------------------------------------------------------------------
(* Properties.                                                              *)

\* "At most five sub-agents may run concurrently": however spawn calls and
\* cancellations interleave, a cancelled job that is still winding down counts.
SlotsBoundTasks == Cardinality({j \in Jobs : task[j] \in Alive}) <= MaxJobs

\* What a wait or a cancel may have told the parent of a finished sub-agent
\* stays true: a late result replaces neither the status nor the output of one
\* that was cancelled while it ran on (finish after cancel_ids).
FinalStays == [][\A j \in Jobs : Terminal(j) => job'[j] = job[j]]_vars

\* No wake-up is lost between the lookup and the park: a call that sleeps on
\* has nothing to report (wait_for_any_terminal).
NoLostWakeup ==
    \A w \in Waiters :
        wait[w].pc = "parked" /\ ~wait[w].woken => \A j \in wait[w].ids : ~Terminal(j)

\* Once the parent's run has ended, its answer is delivered and every started
\* sub-agent ends and gives its slot back: neither a relay nor a tool left
\* behind holds them up for ever (finish_sub_agent_progress_relay,
\* finish_task_progress_runtime).
AllSettle ==
    (parent = "ended") ~>
        (parent = "delivered" /\ \A j \in Jobs : task[j] \in {"none", "dropped", "done"})
=============================================================================
