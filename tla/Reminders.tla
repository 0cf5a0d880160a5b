------------------------------ MODULE Reminders ------------------------------
(***************************************************************************)
(* Scheduled reminders: the reminder_jobs table (storage/sqlx/mod.rs,        *)
(* reminder_tx.rs), the reminder tools that change it while runs go on       *)
(* (agent/providers/reminder.rs), and the Telegram scheduler with its        *)
(* in-memory due queue (reminder_scheduler.rs, agent_handlers/reminders.rs), *)
(* which claims a reminder, runs it to the end and finalizes it, one at a    *)
(* time.                                                                     *)
(*                                                                          *)
(* Times are relative to now: `next` is the time left until a reminder is    *)
(* due (due from 0 on down), `lease` the rest of its lease.  Every copy of a *)
(* record ages.  Prompts, errors and audit events are left out.              *)
(***************************************************************************)
EXTENDS Integers, Sequences, FiniteSets, SequencesExt

CONSTANTS
    Reminders,   \* reminder ids of one user
    Tools,       \* reminder tool calls that may run at the same time
    NoReminder,  \* in place of an id
    Lease,       \* REMINDER_LEASE_SECS
    Backoff,     \* REMINDER_BUSY_BACKOFF_SECS
    Interval,    \* interval_secs of a recurring reminder
    MaxOverdue,  \* bound: how long a reminder is seen to be overdue
    Versions,    \* bound: version is counted modulo this
    MaxOps,      \* bound: reminder_manage calls
    MaxFaults    \* bound: crashes and failed statements

ASSUME IdAssumption == NoReminder \notin Reminders /\ IsFiniteSet(Reminders)
ASSUME TimesAssumption == {Lease, Backoff, Interval, Versions} \subseteq Nat \ {0}
ASSUME OverdueAssumption == MaxOverdue \in Nat /\ Interval <= MaxOverdue + 1
ASSUME BoundsAssumption == {MaxOps, MaxFaults} \subseteq Nat

VARIABLES
    store,    \* reminder_jobs
    queue,    \* ReminderSchedulerState::records
    pending,  \* records that tool calls have committed and not yet notified
    pc,       \* the scheduler loop
    todo,     \* rest of the due batch
    held,     \* the claimed record, then what its finalization stored; what follows
    listing,  \* what a reconcile has read
    ops, faults,
    runs      \* runs begun of a one-shot since it was last (re)scheduled; -1 before that

vars == <<store, queue, pending, pc, todo, held, listing, ops, faults, runs>>

NoRecord == [status |-> "none", kind |-> "once", next |-> 0, lease |-> 0, ver |-> 0]
Rows == [status : {"scheduled", "paused", "completed", "cancelled", "failed"},
         kind : {"once", "interval"}, next : (-MaxOverdue)..(Backoff + Interval),
         lease : 0..Lease, ver : 0..(Versions - 1)]
Records == {NoRecord} \cup Rows
NoHeld == [id |-> NoReminder, rec |-> NoRecord, then |-> "batch"]
Rebuild == [NoHeld EXCEPT !.then = "look"]
Steps == {"list", "install", "look", "wait", "batch", "claimed", "defer", "run", "succeeded",
          "failed", "upsert", "delete"}

\* The queue holds scheduled records only; every copy is a record.
TypeOK ==
    /\ store \in [Reminders -> Records]
    /\ queue \in [Reminders -> Records]
    /\ listing \in [Reminders -> Records]
    /\ \A r \in Reminders : queue[r].status \in {"none", "scheduled"}
    /\ pending \in [Tools -> [id : Reminders \cup {NoReminder}, rec : Records]]
    /\ pc \in Steps
    /\ todo \in Seq(Reminders)
    /\ held \in [id : Reminders \cup {NoReminder}, rec : Records, then : Steps]
    /\ ops \in 0..MaxOps /\ faults \in 0..MaxFaults
    /\ runs \in [Reminders -> -1..2]

NoPending == [id |-> NoReminder, rec |-> NoRecord]
Init ==
    /\ store = [r \in Reminders |-> NoRecord]
    /\ queue = store /\ listing = store
    /\ pending = [t \in Tools |-> NoPending]
    /\ pc = "list" /\ todo = <<>> /\ held = Rebuild
    /\ ops = 0 /\ faults = 0
    /\ runs = [r \in Reminders |-> -1]

-----------------------------------------------------------------------------
(* storage: ReminderJobRecord and its mutations.                            *)

\* is_due; the WHERE clause of claim_reminder_job is the same.
IsDue(rec) == rec.status = "scheduled" /\ rec.next <= 0 /\ rec.lease = 0

\* with_next_reminder_version, with what every mutation but the claim does to
\* the lease.
Mutated(rec) == [rec EXCEPT !.ver = (@ + 1) % Versions, !.lease = 0]

\* compute_next_reminder_run_at of an interval reminder: the next time of its
\* grid that is still to come.
NextRun(rec) ==
    IF rec.next > 0 THEN rec.next
    ELSE rec.next + Interval * ((-rec.next) \div Interval + 1)

\* What a mutation of mutate_reminder_job asks of the row it has locked.
Unguarded(r) == store[r].status # "none"  \* mutant: the status is not looked at again
Guarded(r) == store[r].status = "scheduled"

-----------------------------------------------------------------------------
(* The reminder tools.                                                      *)

Commit(t, r, rec) ==
    /\ store' = [store EXCEPT ![r] = rec]
    /\ pending' = [pending EXCEPT ![t] = [id |-> r, rec |-> rec]]
    /\ UNCHANGED <<queue, pc, todo, held, listing, faults>>

\* execute_schedule; ids are never used twice.
Schedule(t, r) ==
    /\ pending[t] = NoPending /\ runs[r] = -1
    /\ \E k \in {"once", "interval"} :
         Commit(t, r, [NoRecord EXCEPT !.status = "scheduled", !.kind = k, !.next = 1])
    /\ runs' = [runs EXCEPT ![r] = 0]
    /\ UNCHANGED ops

\* execute_cancel, execute_pause.
Stop(t, r, status) ==
    /\ pending[t] = NoPending /\ ops < MaxOps /\ store[r].status = "scheduled"
    /\ Commit(t, r, [Mutated(store[r]) EXCEPT !.status = status])
    /\ ops' = ops + 1
    /\ UNCHANGED runs

\* resolve_resume_next_run_at, resolve_retry_next_run_at: a time the caller gives,
\* or the schedule's own; a one-shot that is resumed late needs the caller's.
RescheduleTimes(rec) ==
    IF rec.kind = "once" /\ rec.next <= 0 THEN {1} ELSE {1, NextRun(rec)}

\* execute_resume, execute_retry.
Reschedule(t, r, from) ==
    /\ pending[t] = NoPending /\ ops < MaxOps /\ store[r].status = from
    /\ \E next \in RescheduleTimes(store[r]) :
         Commit(t, r, [Mutated(store[r]) EXCEPT !.status = "scheduled", !.next = next])
    /\ ops' = ops + 1
    /\ runs' = [runs EXCEPT ![r] = 0]

\* upsert_record and delete_record: no look at the version of what is replaced.
Upserted(r, rec) ==
    [queue EXCEPT ![r] = IF rec.status = "scheduled" THEN rec ELSE NoRecord]

\* The tool call goes on to tell the scheduler what it has committed.
Notify(t) ==
    /\ pending[t] # NoPending
    /\ queue' = Upserted(pending[t].id, pending[t].rec)
    /\ pending' = [pending EXCEPT ![t] = NoPending]
    /\ UNCHANGED <<store, pc, todo, held, listing, ops, faults, runs>>

-----------------------------------------------------------------------------
(* The scheduler's loop.                                                    *)

Continue ==
    /\ pc' = held.then
    /\ held' = IF held.then \in {"batch", "look"} THEN NoHeld ELSE [held EXCEPT !.then = "batch"]

\* A statement fails: the loop logs it and goes on.
Fault == faults < MaxFaults /\ faults' = faults + 1

\* reconcile_user_from_storage reads the scheduled reminders ...
ListedNone(r) == FALSE  \* mutant: the rebuild finds nothing
Listed(r) == store[r].status = "scheduled"
List ==
    /\ pc = "list"
    /\ \/ /\ listing' = [r \in Reminders |-> IF Listed(r) THEN store[r] ELSE NoRecord]
          /\ pc' = "install"
          /\ UNCHANGED <<held, faults>>
       \/ Fault /\ Continue /\ UNCHANGED listing
    /\ UNCHANGED <<store, queue, pending, todo, ops, runs>>

\* ... and replaces the queue, keeping a later time it holds for the version.
Installed(r) ==
    IF queue[r].status = "scheduled" /\ listing[r].status = "scheduled"
       /\ queue[r].ver = listing[r].ver /\ queue[r].next > listing[r].next
    THEN [listing[r] EXCEPT !.next = queue[r].next]
    ELSE listing[r]
Install ==
    /\ pc = "install"
    /\ queue' = [r \in Reminders |-> Installed(r)]
    /\ listing' = [r \in Reminders |-> NoRecord]
    /\ Continue
    /\ UNCHANGED <<store, pending, todo, ops, faults, runs>>

\* process_due_reminders takes the batch: take_due_batch, the earliest first.
DueBatches ==
    {batch \in SetToSeqs({r \in Reminders : IsDue(queue[r])}) :
       \A i, j \in DOMAIN batch : i < j => queue[batch[i]].next <= queue[batch[j]].next}
Look ==
    /\ pc = "look"
    /\ todo' \in DueBatches
    /\ pc' = "batch"
    /\ UNCHANGED <<store, queue, pending, held, listing, ops, faults, runs>>

BatchDone ==
    /\ pc = "batch" /\ todo = <<>>
    /\ pc' = "wait"
    /\ UNCHANGED <<store, queue, pending, todo, held, listing, ops, faults, runs>>

\* The loop's wait ends: by wait_for_change or the sleep, or by the reconcile interval.
Wake ==
    /\ pc = "wait"
    /\ pc' = "look"
    /\ UNCHANGED <<store, queue, pending, todo, held, listing, ops, faults, runs>>
ReconcileTick ==
    /\ pc = "wait"
    /\ pc' = "list" /\ held' = Rebuild
    /\ UNCHANGED <<store, queue, pending, todo, listing, ops, faults, runs>>

\* claim_reminder_job; a refused or failed claim reconciles.
ClaimableByQueue(r) == TRUE  \* mutant: the queue's word is taken for it
Claimable(r) == IsDue(store[r])
Claimed(r) == [store[r] EXCEPT !.lease = Lease, !.ver = (@ + 1) % Versions]
Claim ==
    /\ pc = "batch" /\ todo # <<>>
    /\ LET r == Head(todo)
       IN \/ /\ Claimable(r)
             /\ store' = [store EXCEPT ![r] = Claimed(r)]
             /\ held' = [id |-> r, rec |-> Claimed(r), then |-> "batch"]
             /\ pc' = "claimed"
             /\ UNCHANGED faults
          \/ /\ (~Claimable(r) /\ UNCHANGED faults) \/ Fault
             /\ pc' = "list"
             /\ UNCHANGED <<store, held>>
    /\ todo' = Tail(todo)
    /\ UNCHANGED <<queue, pending, listing, ops, runs>>

\* The rest of prepare_due_reminder_execution: upsert_record of the claimed one;
\* a busy session defers it, else it runs.
Start(r) ==
    /\ pc = "claimed" /\ held.id = r
    /\ queue' = Upserted(r, held.rec)
    /\ pc' = "run"
    /\ runs' = [runs EXCEPT ![r] = IF held.rec.kind = "once" /\ @ < 2 THEN @ + 1 ELSE @]
    /\ UNCHANGED <<store, pending, todo, held, listing, ops, faults>>
Busy ==
    /\ pc = "claimed"
    /\ queue' = Upserted(held.id, held.rec)
    /\ pc' = "defer"
    /\ UNCHANGED <<store, pending, todo, held, listing, ops, faults, runs>>

\* What the loop does after a mutation of the held reminder: stored, the queue is
\* told; refused, it reconciles; failed, nothing.  Then it goes on to `then`.
Mutate(rec, told, then) ==
    /\ \/ /\ Guarded(held.id)
          /\ store' = [store EXCEPT ![held.id] = rec]
          /\ held' = [held EXCEPT !.rec = told, !.then = then]
          /\ pc' = "upsert"
          /\ UNCHANGED faults
       \/ /\ ~Guarded(held.id)
          /\ held' = [held EXCEPT !.then = then]
          /\ pc' = "list"
          /\ UNCHANGED <<store, faults>>
       \/ /\ Fault
          /\ pc' = then
          /\ held' = IF then = "batch" THEN NoHeld ELSE [held EXCEPT !.then = "batch"]
          /\ UNCHANGED store
    /\ UNCHANGED <<queue, pending, todo, listing, ops, runs>>

Upsert ==
    /\ pc = "upsert"
    /\ queue' = Upserted(held.id, held.rec)
    /\ Continue
    /\ UNCHANGED <<store, pending, todo, listing, ops, faults, runs>>

\* defer_busy_reminder: the table keeps the time, the queue gets the retry's.
Deferred(r) == [Mutated(store[r]) EXCEPT !.status = "scheduled", !.next = held.rec.next]
Defer ==
    /\ pc = "defer"
    /\ Mutate(Deferred(held.id), [Deferred(held.id) EXCEPT !.next = Backoff], "batch")

\* run_agent_task_with_text returns; every run ends, by its timeout if need be.
RunEnds ==
    /\ pc = "run"
    /\ pc' \in {"succeeded", "failed"}
    /\ UNCHANGED <<store, queue, pending, todo, held, listing, ops, faults, runs>>

\* finalize_reminder_execution: a recurring reminder is rescheduled from the
\* claimed record, a one-shot completed and deleted, or failed.  A run's error
\* reconciles once more.
Final(r) ==
    IF held.rec.kind = "interval"
    THEN [Mutated(store[r]) EXCEPT !.status = "scheduled", !.next = NextRun(held.rec)]
    ELSE [Mutated(store[r]) EXCEPT !.status = IF pc = "failed" THEN "failed" ELSE "completed"]
AfterFinal ==
    CASE pc = "failed" -> "list"
      [] pc = "succeeded" /\ held.rec.kind = "once" -> "delete"
      [] OTHER -> "batch"
Finalize ==
    /\ pc \in {"succeeded", "failed"}
    /\ Mutate(Final(held.id), Final(held.id), AfterFinal)

\* delete_reminder_job after a one-shot's success, whatever became of the row.
Delete ==
    /\ pc = "delete"
    /\ \/ /\ store' = [store EXCEPT ![held.id] = NoRecord]
          /\ held' = [held EXCEPT !.rec = NoRecord]
          /\ pc' = "upsert"
          /\ UNCHANGED faults
       \/ Fault /\ Continue /\ UNCHANGED store
    /\ UNCHANGED <<queue, pending, todo, listing, ops, runs>>

\* The process dies and starts again: the table is all there is.
Crash ==
    /\ Fault
    /\ pc' = "list" /\ todo' = <<>> /\ held' = Rebuild
    /\ queue' = [r \in Reminders |-> NoRecord] /\ listing' = queue'
    /\ pending' = [t \in Tools |-> NoPending]
    /\ UNCHANGED <<store, ops, runs>>

\* A second passes.  Past MaxOverdue a reminder stays overdue, on its grid.
Aged(rec) ==
    IF rec = NoRecord THEN rec
    ELSE [rec EXCEPT !.next = IF @ > -MaxOverdue THEN @ - 1 ELSE @ - 1 + Interval,
                     !.lease = IF @ > 0 THEN @ - 1 ELSE 0]
Tick ==
    /\ store' = [r \in Reminders |-> Aged(store[r])]
    /\ queue' = [r \in Reminders |-> Aged(queue[r])]
    /\ listing' = [r \in Reminders |-> Aged(listing[r])]
    /\ pending' = [t \in Tools |-> [pending[t] EXCEPT !.rec = Aged(@)]]
    /\ held' = [held EXCEPT !.rec = Aged(@)]
    /\ UNCHANGED <<pc, todo, ops, faults, runs>>

Scheduler ==
    \/ List \/ Install \/ Look \/ BatchDone \/ Wake \/ ReconcileTick \/ Claim
    \/ (\E r \in Reminders : Start(r)) \/ Busy \/ Defer \/ RunEnds
    \/ Finalize \/ Upsert \/ Delete

Next ==
    \/ \E t \in Tools, r \in Reminders :
         \/ Schedule(t, r)
         \/ \E status \in {"paused", "cancelled"} : Stop(t, r, status)
         \/ \E from \in {"paused", "failed"} : Reschedule(t, r, from)
    \/ \E t \in Tools : Notify(t)
    \/ Scheduler
    \/ Crash
    \/ Tick

Spec == Init /\ [][Next]_vars

\* The loop and the clock go on; a session is not busy at every attempt; the
\* select of the loop does not pass the reconcile interval over for ever.
FairSpec ==
    /\ Spec
    /\ WF_vars(Scheduler) /\ WF_vars(Tick)
    /\ \A t \in Tools : WF_vars(Notify(t))
    /\ \A r \in Reminders : SF_vars(Start(r))
    /\ SF_vars(ReconcileTick)

-----------------------------------------------------------------------------
(* Properties.                                                              *)

\* A reminder the user has paused or cancelled stays so, whatever the scheduler
\* finalizes, defers or upserts late: only the user schedules it again.
StopHolds ==
    [][pc' # pc => \A r \in Reminders :
         store[r].status \in {"paused", "cancelled"} => store'[r].status # "scheduled"]_vars

\* Without a crash or a failed statement, a one-shot reminder runs at most once
\* each time it is scheduled, whatever stale records the queue is told of.
OneShotRunsOnce == faults = 0 => \A r \in Reminders : runs[r] <= 1

\* A scheduled reminder runs or is taken off the schedule, though crashes,
\* deferrals, stale reconciles and late notifications disturb the queue.
DueRuns ==
    \A r \in Reminders :
      store[r].status = "scheduled"
        ~> store[r].status # "scheduled" \/ (pc = "run" /\ held.id = r)
=============================================================================
