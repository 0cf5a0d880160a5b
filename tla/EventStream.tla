------------------------------- MODULE EventStream -------------------------------
(* The events of one web task on their way to the browser: the persister of    *)
(* each run (server/task_executor.rs), the TaskEventLog it feeds and the       *)
(* EVENT_LOGS registry (web_transport.rs), one server-sent event stream        *)
(* (server/sse.rs) and the browser that watches it (web-ui/src/sse.rs).        *)
(* A task has a new run, and a new log, each time the user answers a question. *)
(* Progress snapshots are left out: they use the same channel and no cursor.   *)
EXTENDS Integers, FiniteSets, Sequences, FiniteSetsExt

CONSTANTS MaxSeq,       \* bound on the sequence numbers of events
          MaxRuns,      \* bound on the runs of the task
          Capacity,     \* TASK_EVENT_BROADCAST_CAPACITY
          Page,         \* the limit of one page of stored events
          MaxAttempts,  \* connections after which the browser gives up
          MaxFaults     \* bound on storage errors, lost connections and restarts

ASSUME StreamAssumption ==
    /\ MaxSeq \in Nat \ {0} /\ MaxRuns \in Nat \ {0} /\ Capacity \in Nat \ {0}
    /\ Page \in Nat \ {0} /\ MaxAttempts \in Nat \ {0} /\ MaxFaults \in Nat

VARIABLES stored,    \* the rows of web_task_events
          task,      \* status and last_event_seq of the web_tasks row
          run,       \* the latest registered run
          writer,    \* run -> its persister and the number of its next event
          log,       \* run -> its TaskEventLog: rows, messages, done
          registry,  \* the run whose log EVENT_LOGS holds, 0 for none
          route,     \* where the resume and the cancel handler are; history: a resume
                     \* saved its record over a cancel
          stream,    \* the open stream
          client,    \* the browser's run_task_stream
          faults

vars == <<stored, task, run, writer, log, registry, route, stream, client, faults>>

Seqs == 0..MaxSeq
Runs == 1..MaxRuns
Closing == {"waiting", "ended", "cancelled", "interrupted"}  \* "ended": completed or failed
Statuses == {"running"} \cup Closing
NoStream == [pc |-> "none", log |-> 0, after |-> 0, last |-> 0, status |-> "running",
             seen |-> 0, pos |-> 0, sent |-> {}, missed |-> {}]
Ended == [NoStream EXCEPT !.pc = "ended", !.after = stream.after]
NoWriter == [pc |-> "none", seq |-> 1, status |-> "running"]
Gone == [NoWriter EXCEPT !.pc = "gone"]
Watching == [pc |-> "backfill", last |-> 0, attempts |-> 0, told |-> FALSE, error |-> FALSE]
EmptyLog == [rows |-> {}, messages |-> <<>>, done |-> FALSE]

TypeOK ==
    /\ stored \subseteq 1..MaxSeq
    /\ task \in [status : Statuses, last : Seqs]
    /\ run \in Runs
    /\ writer \in [Runs -> [pc : {"none", "collect", "push", "save", "notify", "gone"}, seq : 1..MaxSeq + 1, status : Statuses]]
    /\ \A r \in Runs : log[r].rows \subseteq 1..MaxSeq /\ log[r].done \in BOOLEAN
    /\ registry \in 0..MaxRuns
    /\ route \in [resume : {"idle", "save", "spawn"}, cancel : BOOLEAN, seq : Seqs,
                 cancelSeq : Seqs, overwrote : BOOLEAN]
    /\ stream.pc \in {"none", "reload", "attach", "live", "ended"}
    /\ stream.log \in 0..MaxRuns /\ stream.last \in Seqs /\ stream.seen \in Seqs
    /\ stream.sent \subseteq 1..MaxSeq /\ stream.missed \subseteq 1..MaxSeq
    /\ client \in [pc : {"backfill", "connect", "stream", "closing", "done", "gaveUp"},
                   last : Seqs, attempts : 0..MaxAttempts, told : BOOLEAN, error : BOOLEAN]
    /\ faults \in 0..MaxFaults

Init ==
    /\ stored = {}
    /\ task = [status |-> "running", last |-> 0]
    /\ run = 1
    /\ writer = [r \in Runs |-> NoWriter]
    /\ log = [r \in Runs |-> EmptyLog]
    /\ registry = 0
    /\ route = [resume |-> "idle", cancel |-> FALSE, seq |-> 0, cancelSeq |-> 0,
                overwrote |-> FALSE]
    /\ stream = NoStream
    /\ client = Watching
    /\ faults = 0

Fault == faults < MaxFaults /\ faults' = faults + 1

-----------------------------------------------------------------------------
(* TaskEventLog *)

Event(n) == [kind |-> "event", status |-> "running", seq |-> n]
Status(s, n) == [kind |-> "status", status |-> s, seq |-> n]
Closed == [kind |-> "closed", status |-> "running", seq |-> 0]

\* push_persisted. The row is stored and then broadcast; readers of the rows stop
\* at a last_event_seq that is saved later, so both are one step.
PushPersisted(l, n) ==
    [l EXCEPT !.rows = @ \cup {n}, !.messages = Append(@, Event(n))]

NotifyStatus(l, s, n) == [l EXCEPT !.messages = Append(@, Status(s, n))]

\* close: only the first call sends the sentinel.
Close(l) ==
    IF l.done THEN l ELSE [l EXCEPT !.done = TRUE, !.messages = Append(@, Closed)]

\* The cleanup task of a closed log, EVENT_LOG_RETENTION_AFTER_CLOSE later: it removes the
\* entry only if it is still the log whose closing spawned it.
EvictAny ==  \* mutant: the entry is removed whichever log it holds
    /\ \E r \in Runs : log[r].done
    /\ registry' = 0
    /\ UNCHANGED <<stored, task, run, writer, log, route, stream, client, faults>>
Evict ==
    /\ registry # 0
    /\ log[registry].done
    /\ registry' = 0
    /\ UNCHANGED <<stored, task, run, writer, log, route, stream, client, faults>>

-----------------------------------------------------------------------------
(* The run: spawn_registered_task, then one persist_task_events for each event *)
(* of the collector, then the outcome.                                         *)

\* EVENT_LOGS gets the log of the run, and the collector starts after the record's last event.
\* The log of a resumed run holds the user's answer and the new status by then, both sent
\* before anyone could see the log; the browser starts to watch when its request is answered.
Spawn ==
    /\ writer[run].pc = "none"
    /\ route.resume = IF run = 1 THEN "idle" ELSE "spawn"
    /\ registry' = run
    /\ log' = IF run = 1 THEN log
              ELSE [log EXCEPT ![run] =
                       NotifyStatus(PushPersisted(@, route.seq), "running", route.seq)]
    /\ writer' = [writer EXCEPT ![run] = [@ EXCEPT !.pc = "collect", !.seq = route.seq + 1]]
    /\ route' = [route EXCEPT !.resume = "idle"]
    /\ client' = IF run = 1 THEN client ELSE Watching
    /\ UNCHANGED <<stored, task, run, stream, faults>>

Skip(w) == [w EXCEPT !.pc = "collect", !.seq = @ + 1]

\* web_task_is_cancelled, then append_task_events: a cancel between the two is like one
\* right after. A storage error drops the event.
AppendEvent(r) ==
    /\ writer[r].pc = "collect"
    /\ writer[r].seq <= MaxSeq
    /\ task.status # "cancelled"
    /\ stored' = stored \cup {writer[r].seq}
    /\ writer' = [writer EXCEPT ![r].pc = "push"]
    /\ UNCHANGED <<task, run, log, registry, route, stream, client, faults>>

AppendFails(r) ==
    /\ writer[r].pc = "collect"
    /\ writer[r].seq <= MaxSeq
    /\ task.status # "cancelled"
    /\ Fault
    /\ writer' = [writer EXCEPT ![r] = Skip(@)]
    /\ UNCHANGED <<stored, task, run, log, registry, route, stream, client>>

Drop(r) ==
    /\ writer[r].pc = "collect"
    /\ writer[r].seq <= MaxSeq
    /\ task.status = "cancelled"
    /\ writer' = [writer EXCEPT ![r] = Skip(@)]
    /\ UNCHANGED <<stored, task, run, log, registry, route, stream, client, faults>>

Push(r) ==
    /\ writer[r].pc = "push"
    /\ log' = [log EXCEPT ![r] = PushPersisted(@, writer[r].seq)]
    /\ writer' = [writer EXCEPT ![r].pc = "save"]
    /\ UNCHANGED <<stored, task, run, registry, route, stream, client, faults>>

\* update_web_task_unless_cancelled with the event's number.
SaveLast(r) ==
    /\ writer[r].pc = "save"
    /\ task' = IF task.status = "cancelled" THEN task
               ELSE [task EXCEPT !.last = Max({@, writer[r].seq})]
    /\ writer' = [writer EXCEPT ![r] = Skip(@)]
    /\ UNCHANGED <<stored, run, log, registry, route, stream, client, faults>>

Settled(r, s) ==
    /\ task' = IF task.status = "cancelled" THEN task ELSE [task EXCEPT !.status = s]
    /\ writer' = [writer EXCEPT ![r] = [@ EXCEPT !.pc = "notify", !.status = s]]
    /\ UNCHANGED <<stored, run, log, registry, route, stream, client, faults>>

\* persist_task_completed, _failed and _waiting_for_user_input, after the collector and
\* its persister have ended.
OutcomeEarly(r) ==  \* mutant: the outcome does not wait for the persister
    /\ writer[r].pc \in {"collect", "push", "save"}
    /\ \E s \in {"waiting", "ended"} : Settled(r, s)
Outcome(r) ==
    /\ writer[r].pc = "collect"
    /\ \E s \in {"waiting", "ended"} : Settled(r, s)

\* broadcast_status_if_present, even if a cancel kept the status from being saved, and
\* close_event_log_if_present.
CloseLog(r) ==
    /\ writer[r].pc = "notify"
    /\ log' = [log EXCEPT ![r] = Close(NotifyStatus(@, writer[r].status, task.last))]
    /\ writer' = [writer EXCEPT ![r] = Gone]
    /\ UNCHANGED <<stored, task, run, registry, route, stream, client, faults>>

-----------------------------------------------------------------------------
(* The routes *)

\* api_resume_task, up to the append of the user's message: a new log is registered for
\* the session, and the browser waits for the answer of the request.
ResumeAppend ==
    /\ task.status = "waiting"
    /\ route.resume = "idle"
    /\ client.pc \in {"done", "gaveUp"}
    /\ run < MaxRuns /\ task.last < MaxSeq
    /\ run' = run + 1
    /\ stored' = stored \cup {task.last + 1}
    /\ route' = [route EXCEPT !.resume = "save", !.seq = task.last + 1]
    /\ UNCHANGED <<task, writer, log, registry, stream, client, faults>>

\* The record as it was loaded is saved with the new status, over a cancel if one came in
\* between; last_event_seq never falls.
ResumeSave ==
    /\ route.resume = "save"
    /\ task' = [status |-> "running", last |-> Max({task.last, route.seq})]
    /\ route' = [route EXCEPT !.resume = "spawn", !.overwrote = @ \/ task.status = "cancelled"]
    /\ UNCHANGED <<stored, run, writer, log, registry, stream, client, faults>>

\* api_cancel_task: the record first, the log at the end.
CancelSave ==
    /\ task.status \in {"running", "waiting"}
    /\ ~route.cancel
    /\ task' = [task EXCEPT !.status = "cancelled"]
    /\ route' = [route EXCEPT !.cancel = TRUE, !.cancelSeq = task.last]
    /\ UNCHANGED <<stored, run, writer, log, registry, stream, client, faults>>

CancelNotify ==
    /\ route.cancel
    /\ log' = IF registry = 0 THEN log
              ELSE [log EXCEPT ![registry] = Close(NotifyStatus(@, "cancelled", route.cancelSeq))]
    /\ route' = [route EXCEPT !.cancel = FALSE, !.cancelSeq = 0]
    /\ UNCHANGED <<stored, task, run, writer, registry, stream, client, faults>>

\* A new process: mark_unfinished_tasks_interrupted; every log, run, handler and stream is gone.
Restart ==
    /\ Fault
    /\ task' = [task EXCEPT !.status = IF @ = "running" THEN "interrupted" ELSE @]
    /\ writer' = [r \in Runs |->
           IF r <= run THEN Gone ELSE writer[r]]
    /\ log' = [r \in Runs |-> EmptyLog]
    /\ registry' = 0
    /\ route' = [route EXCEPT !.resume = "idle", !.cancel = FALSE, !.cancelSeq = 0]
    /\ stream' = IF stream.pc = "none" THEN stream ELSE Ended
    /\ UNCHANGED <<stored, run, client>>

-----------------------------------------------------------------------------
(* The stream: task_sse_stream *)

\* What the stream sends of S: events above the cursor, up to the last one it knows of.
Due(S) == {n \in S : stream.last < n /\ n <= stream.seen}

\* Sending the events of D moves the cursor past whatever was not sent.
Sent(D, missing) ==
    [stream EXCEPT !.sent = @ \cup D, !.last = Max(D \cup {@}),
                   !.missed = @ \cup {n \in missing : n > stream.last /\ n \notin D}]

\* The browser applies an event that is above its own cursor.
Shown(D) == [client EXCEPT !.last = Max(D \cup {@})]

FirstPage(after) ==
    {n \in stored : n > after /\ Cardinality({m \in stored : after < m /\ m <= n}) <= Page}

\* api_sse_task_stream: the log is looked up once, before the record is read.
Opened(after) ==
    [NoStream EXCEPT !.pc = "reload", !.log = registry, !.after = after, !.last = after]

\* sse_reload_task; the status is sent unconditionally.
Reload ==
    /\ stream.pc = "reload"
    /\ stream' = [stream EXCEPT !.pc = "attach", !.status = task.status, !.seen = task.last]
    /\ client' = [client EXCEPT !.told = @ \/ task.status \in Closing]
    /\ UNCHANGED <<stored, task, run, writer, log, registry, route, faults>>

\* The replay, and the subscription to the messages from here on. The rows of the log are
\* replayed if its newest one is not behind the cursor: that its oldest one may be far
\* ahead of it is not looked at. Stored pages give the rest, up to the reloaded
\* last_event_seq. A closed task and a task without a log end the stream after that. What
\* is replayed was stored before the reload, so all of it is one step.
LateReplay(rows) ==  \* mutant: off by one, a single missing event is not replayed
    IF stream.last + 1 >= stream.seen THEN {} ELSE Due(rows) \cup Due({n \in stored : n > Max(rows \cup {0})})
Replay(rows) ==
    LET memory == IF Max(rows \cup {0}) >= stream.last THEN Due(rows) ELSE {}
    IN memory \cup {n \in Due(stored) : n > Max(memory \cup {0})}

Attach ==
    /\ stream.pc = "attach"
    /\ LET rows == IF stream.log = 0 THEN {} ELSE log[stream.log].rows
           due == Replay(rows)
           late == {n \in rows : n > stream.seen}
       IN /\ stream' = IF stream.status \in Closing \/ stream.log = 0 THEN Ended
                       ELSE [Sent(due, stored \cap 1..Max(due \cup late \cup {0})) EXCEPT
                                 !.pc = "live", !.pos = Len(log[stream.log].messages)]
          /\ client' = Shown(due)
    /\ UNCHANGED <<stored, task, run, writer, log, registry, route, faults>>

Messages == IF stream.log = 0 THEN <<>> ELSE log[stream.log].messages
Lagging == Len(Messages) - stream.pos > Capacity
Received == Messages[stream.pos + 1]

RecvEvent ==
    /\ stream.pc = "live" /\ stream.pos < Len(Messages) /\ ~Lagging
    /\ Received.kind = "event"
    /\ stream' = IF Received.seq <= stream.last THEN [stream EXCEPT !.pos = @ + 1]
                 ELSE [stream EXCEPT !.pos = @ + 1, !.last = Received.seq, !.sent = @ \cup {Received.seq},
                                     !.seen = Max({@, Received.seq})]
    /\ client' = Shown(IF Received.seq <= stream.last THEN {} ELSE {Received.seq})
    /\ UNCHANGED <<stored, task, run, writer, log, registry, route, faults>>

RecvStatus ==
    /\ stream.pc = "live" /\ stream.pos < Len(Messages) /\ ~Lagging
    /\ Received.kind = "status"
    /\ stream' = [stream EXCEPT !.pos = @ + 1, !.status = Received.status,
                                !.seen = Max({@, Received.seq})]
    /\ client' = [client EXCEPT !.told = @ \/ Received.status \in Closing]
    /\ UNCHANGED <<stored, task, run, writer, log, registry, route, faults>>

\* The sentinel: one more read of the record, and the end. The first status was not a closing one.
RecvClosed ==
    /\ stream.pc = "live" /\ stream.pos < Len(Messages) /\ ~Lagging
    /\ Received.kind = "closed"
    /\ stream' = Ended
    /\ client' = [client EXCEPT !.told = @ \/ task.status \in Closing]
    /\ UNCHANGED <<stored, task, run, writer, log, registry, route, faults>>

\* Lagged: the receiver goes on with the oldest message kept. The replay stops at the last
\* event the stream knows of, which the lost messages would have told it.
RecvLagged ==
    /\ stream.pc = "live" /\ Lagging
    /\ LET oldest == Len(Messages) - Capacity
           lost == {Messages[i].seq : i \in {j \in stream.pos + 1..oldest :
                                                 Messages[j].kind = "event"}}
           rows == Due(log[stream.log].rows)
           due == IF rows # {} THEN rows ELSE Due(FirstPage(stream.last))
       IN /\ stream' = [Sent(due, lost) EXCEPT !.pos = oldest]
          /\ client' = Shown(due)
    /\ UNCHANGED <<stored, task, run, writer, log, registry, route, faults>>

\* The connection breaks, or the generator is dropped.
StreamLost ==
    /\ stream.pc \notin {"none", "ended"}
    /\ Fault
    /\ stream' = Ended
    /\ UNCHANGED <<stored, task, run, writer, log, registry, route, client>>

-----------------------------------------------------------------------------
(* The browser: run_task_stream *)

\* api_get_task_events: nothing when the cursor is at the record's last event, otherwise
\* every row above it.
BackfillTo == IF client.last >= task.last THEN client.last ELSE Max(stored \cup {client.last})

\* backfill_missed_events. It ends the watch when it saw the Finished event of a closed task.
Backfill ==
    /\ client.pc = "backfill"
    /\ \E pc \in {"connect"} \cup (IF task.status = "ended" THEN {"done"} ELSE {}) :
           client' = [client EXCEPT !.pc = pc, !.last = BackfillTo,
                                    !.attempts = IF pc = "done" THEN 0 ELSE @]
    /\ UNCHANGED <<stored, task, run, writer, log, registry, route, stream, faults>>

\* A failed request: the user sees an error, and the stream is opened with the cursor as it is.
BackfillFails ==
    /\ client.pc = "backfill"
    /\ Fault
    /\ client' = [client EXCEPT !.pc = "connect", !.error = TRUE]
    /\ UNCHANGED <<stored, task, run, writer, log, registry, route, stream>>

Connect ==
    /\ client.pc = "connect"
    /\ client' = [client EXCEPT !.pc = "stream"]
    /\ stream' = Opened(client.last)
    /\ UNCHANGED <<stored, task, run, writer, log, registry, route, faults>>

\* The browser's EventSource reconnects by itself, to the same address: the cursor in it
\* goes before the Last-Event-ID header (sse_start_seq).
Reconnect ==
    /\ client.pc = "stream" /\ stream.pc = "ended" /\ ~client.told
    /\ stream' = Opened(stream.after)
    /\ UNCHANGED <<stored, task, run, writer, log, registry, route, client, faults>>

\* The EventSource is closed: another attempt, from the backfill on.
Retry ==
    /\ client.pc = "stream" /\ stream.pc = "ended" /\ ~client.told
    /\ client' = IF client.attempts + 1 = MaxAttempts
                 THEN [client EXCEPT !.pc = "gaveUp", !.attempts = 0]
                 ELSE [client EXCEPT !.pc = "backfill", !.attempts = @ + 1]
    /\ stream' = NoStream
    /\ UNCHANGED <<stored, task, run, writer, log, registry, route, faults>>

\* Keepalive, when no message is waiting: the browser reads the record.
KeepaliveOnly ==  \* mutant: the browser ignores keepalives
    /\ stream.pc = "live" /\ stream.pos = Len(Messages)
    /\ client.pc = "stream"
    /\ UNCHANGED vars
Keepalive ==
    /\ stream.pc = "live" /\ stream.pos = Len(Messages)
    /\ client.pc = "stream"
    /\ client' = [client EXCEPT !.told = @ \/ task.status \in Closing]
    /\ UNCHANGED <<stored, task, run, writer, log, registry, route, stream, faults>>

\* A closing status was received: the EventSource is dropped after a last backfill.
CloseStream ==
    /\ client.pc = "stream" /\ client.told
    /\ client' = [client EXCEPT !.pc = "closing", !.told = FALSE, !.attempts = 0]
    /\ stream' = NoStream
    /\ UNCHANGED <<stored, task, run, writer, log, registry, route, faults>>

LastBackfill ==
    /\ client.pc = "closing"
    /\ client' = [client EXCEPT !.pc = "done", !.last = BackfillTo]
    /\ UNCHANGED <<stored, task, run, writer, log, registry, route, stream, faults>>

LastBackfillFails ==
    /\ client.pc = "closing"
    /\ Fault
    /\ client' = [client EXCEPT !.pc = "done", !.error = TRUE]
    /\ UNCHANGED <<stored, task, run, writer, log, registry, route, stream>>

-----------------------------------------------------------------------------
WriterStep(r) ==
    \/ AppendEvent(r) \/ AppendFails(r) \/ Drop(r) \/ Push(r) \/ SaveLast(r)
    \/ Outcome(r) \/ CloseLog(r)

StreamStep ==
    \/ Reload \/ Attach
    \/ RecvEvent \/ RecvStatus \/ RecvClosed \/ RecvLagged

ClientStep == Backfill \/ Connect \/ Reconnect \/ Retry \/ CloseStream \/ LastBackfill

Next ==
    \/ Spawn \/ Evict \/ \E r \in Runs : WriterStep(r)
    \/ ResumeAppend \/ ResumeSave \/ CancelSave \/ CancelNotify
    \/ StreamStep \/ StreamLost \/ Keepalive
    \/ ClientStep \/ BackfillFails \/ LastBackfillFails
    \/ Restart

Spec == Init /\ [][Next]_vars

\* The generator is polled, the interval ticks and the browser's tasks run on; nothing is
\* required of the run, of the user or of the cleanup.
FairSpec ==
    Spec /\ WF_vars(StreamStep) /\ WF_vars(ClientStep) /\ WF_vars(Keepalive)

-----------------------------------------------------------------------------
\* A subscriber gets every event above its cursor: whatever is stored below the last event
\* the stream sent has been sent. The code does not keep this; README, section 6.
StreamComplete ==
    \A n \in stored : stream.after < n /\ n <= stream.last => n \in stream.sent

\* The stream loses an event in three ways only: it was pushed after the reload and before
\* the subscription, its message was overwritten while the browser lagged, or the log of a
\* resumed run began after it (task_sse_stream). Every other stored event below the last one
\* sent has been sent, through replay, pages, live messages and recovery from a lag.
MissesOnlyTheWindow ==
    \A n \in stored : stream.after < n /\ n <= stream.last => n \in stream.sent \cup stream.missed

\* When the browser has finished with a task that ended or waits, and showed no error, no
\* stored event is above its cursor, but for an answer whose request is under way or was lost
\* in a restart: the outcome is saved after the last event, and the last
\* backfill runs after the outcome (spawn_event_collector, backfill_missed_events_until).
\* A cancel that a resume has overwritten still closes the log of the run that goes on.
DoneIsCaughtUp ==
    (/\ client.pc = "done" /\ ~client.error
     /\ task.status \in {"ended", "waiting"} /\ ~route.overwrote)
        => \A n \in stored \ {route.seq} : n <= client.last

\* A stream opened while a run goes on finds the log of that run, unless a cancel closed it:
\* no cleanup of an earlier run's log removes it (spawn_event_log_cleanup).
RunningIsReachable ==
    writer[run].pc \notin {"none", "gone"} => registry = run \/ log[run].done

\* A browser that watches a task learns that it ended, even if the stream subscribed after
\* the log was closed and no message comes any more (handle_keepalive_message).
WatcherSeesEnd ==
    task.status \in Closing ~>
        (task.status \notin Closing \/ client.pc \in {"done", "gaveUp"})
=============================================================================
