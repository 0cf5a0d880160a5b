--------------------------- MODULE RemindersProofs ---------------------------
(***************************************************************************)
(* Proofs about Reminders for any number of reminders and tool calls and any *)
(* lease, backoff, interval, and number of crashes and failed statements.    *)
(***************************************************************************)
EXTENDS Reminders, FiniteSetTheorems, TLAPS

-----------------------------------------------------------------------------
(* The parts of the inductive invariant.                                    *)

\* From its claim to its finalization the scheduler holds a reminder.
Holding == {"claimed", "defer", "run", "succeeded", "failed"}
Running == {"run", "succeeded", "failed"}

\* What the loop goes on with, and that it knows the reminder it goes on with.
HeldKnown ==
    /\ held.then \in {"batch", "look", "list", "delete"}
    /\ pc \in Holding \cup {"upsert", "delete"} => held.id \in Reminders
    /\ held.then \in {"list", "delete"} => held.id \in Reminders

\* A listing holds scheduled records only; a row exists once it was scheduled.
ListingScheduled == \A r \in Reminders : listing[r].status \in {"none", "scheduled"}
RowsScheduledOnce == \A r \in Reminders : store[r].status # "none" => runs[r] # -1

\* Nobody deletes the row of the reminder that the scheduler holds, and no
\* mutation changes its kind.
HeldStored ==
    pc \in Holding =>
        /\ store[held.id].status # "none" /\ held.rec.status # "none"
        /\ store[held.id].kind = held.rec.kind

\* As long as no statement fails, a one-shot that has run is scheduled only while
\* the scheduler still holds it, so it is not claimed again.
RanIsHeld ==
    faults = 0 =>
      /\ \A r \in Reminders :
           store[r].status = "scheduled" /\ store[r].kind = "once" /\ runs[r] >= 1 =>
               pc \in Running /\ held.id = r
      /\ pc = "claimed" /\ held.rec.kind = "once" => runs[held.id] = 0

RInv ==
    /\ TypeOK /\ HeldKnown /\ ListingScheduled /\ RowsScheduledOnce /\ HeldStored
    /\ RanIsHeld /\ OneShotRunsOnce
USE IdAssumption, TimesAssumption, OverdueAssumption, BoundsAssumption
    DEF Holding, Running

Times == (-MaxOverdue)..(Backoff + Interval)

-----------------------------------------------------------------------------
(* What the mutations and the passing of time make of a record.             *)

LEMMA Row ==
    /\ \A rec \in Records : rec.status # "none" <=> rec \in Rows
    /\ NoRecord \in Records /\ NoRecord.status = "none"
  BY DEF Records, Rows, NoRecord

LEMMA NextRunTimes ==
    ASSUME NEW rec \in Rows
    PROVE  NextRun(rec) \in Times
<1>1. rec.next \in Times /\ Interval \in Nat \ {0} /\ Backoff \in Nat \ {0} /\ MaxOverdue \in Nat
  BY DEF Rows, Times
<1>2. CASE rec.next > 0
  BY <1>1, <1>2 DEF NextRun, Times
<1>3. CASE ~(rec.next > 0)
  <2> DEFINE a == -rec.next
  <2> DEFINE q == a \div Interval
  <2>1. a \in Nat /\ rec.next = -a
    BY <1>1, <1>3 DEF Times
  <2>2. q \in Nat /\ Interval * q <= a /\ a < Interval * q + Interval
    BY <1>1, <2>1
  <2>3. Interval * (q + 1) = Interval * q + Interval /\ Interval * q \in Nat
    BY <1>1, <2>2
  <2>4. NextRun(rec) = rec.next + Interval * (q + 1)
    BY <1>3 DEF NextRun
  <2> HIDE DEF q
  <2> QED
    BY <1>1, <2>1, <2>2, <2>3, <2>4 DEF Times
<1> QED
  BY <1>2, <1>3

LEMMA MutatedRow ==
    ASSUME NEW rec \in Rows
    PROVE  Mutated(rec) \in Rows /\ Mutated(rec).kind = rec.kind
<1> DEFINE v == (rec.ver + 1) % Versions
<1>1. v \in 0..(Versions - 1)
  BY DEF Rows
<1> HIDE DEF v
<1>2. Mutated(rec) = [rec EXCEPT !.ver = v, !.lease = 0]
  BY DEF Mutated, v, Rows
<1>3. 0 \in 0..Lease
  OBVIOUS
<1> QED
  BY <1>1, <1>2, <1>3 DEF Rows

LEMMA RestatedRow ==
    ASSUME NEW rec \in Rows,
           NEW s \in {"scheduled", "paused", "completed", "cancelled", "failed"}
    PROVE  LET new == [Mutated(rec) EXCEPT !.status = s]
           IN  new \in Rows /\ new.status = s /\ new.kind = rec.kind
  BY MutatedRow DEF Rows

LEMMA RescheduledRow ==
    ASSUME NEW rec \in Rows, NEW n \in Times
    PROVE  LET new == [Mutated(rec) EXCEPT !.status = "scheduled", !.next = n]
           IN  new \in Rows /\ new.status = "scheduled" /\ new.kind = rec.kind
  BY MutatedRow DEF Rows, Times

LEMMA AgedRecord ==
    ASSUME NEW rec \in Records
    PROVE  /\ Aged(rec) \in Records
           /\ Aged(rec).status = rec.status
           /\ Aged(rec).kind = rec.kind
<1>1. CASE rec = NoRecord
  BY <1>1 DEF Aged
<1>2. CASE rec \in Rows /\ rec # NoRecord
  <2>1. (IF rec.next > -MaxOverdue THEN rec.next - 1 ELSE rec.next - 1 + Interval)
          \in (-MaxOverdue)..(Backoff + Interval)
    BY <1>2 DEF Rows
  <2>2. (IF rec.lease > 0 THEN rec.lease - 1 ELSE 0) \in 0..Lease
    BY <1>2 DEF Rows
  <2> QED
    BY <1>2, <2>1, <2>2 DEF Aged, Rows, Records
<1> QED
  BY <1>1, <1>2 DEF Records


LEMMA ClaimedRow ==
    ASSUME NEW r \in Reminders, store[r] \in Rows
    PROVE  Claimed(r) \in Rows /\ Claimed(r).status = store[r].status
           /\ Claimed(r).kind = store[r].kind
<1> DEFINE v == (store[r].ver + 1) % Versions
<1>1. v \in 0..(Versions - 1)
  BY DEF Rows
<1> HIDE DEF v
<1>2. Claimed(r) = [store[r] EXCEPT !.lease = Lease, !.ver = v]
  BY DEF Claimed, v
<1>3. Lease \in 0..Lease
  OBVIOUS
<1> QED
  BY <1>1, <1>2, <1>3 DEF Rows

-----------------------------------------------------------------------------
(* The tools.                                                               *)

\* A tool call stores a row: a schedule or reschedule starts the count of runs
\* anew, a pause or cancel leaves it.
LEMMA CommitR ==
    ASSUME RInv, NEW t \in Tools, NEW r \in Reminders, NEW rec \in Rows,
           Commit(t, r, rec), ops' \in 0..MaxOps,
           runs[r] = -1 \/ rec.kind = store[r].kind,
           \/ runs' = [runs EXCEPT ![r] = 0]
           \/ rec.status # "scheduled" /\ runs' = runs /\ store[r].status # "none"
    PROVE  RInv'
<1> USE Row DEF RInv
<1>0. /\ store' = [store EXCEPT ![r] = rec]
      /\ pending' = [pending EXCEPT ![t] = [id |-> r, rec |-> rec]]
      /\ UNCHANGED <<queue, pc, todo, held, listing, faults>>
  BY DEF Commit
<1>1. TypeOK'
  <2>1. rec \in Records
    BY DEF Records
  <2>2. runs' \in [Reminders -> -1..2]
    BY SMTT(30) DEF TypeOK
  <2> QED
    BY <1>0, <2>1, <2>2 DEF TypeOK
<1>2. (HeldKnown /\ ListingScheduled)'
  BY <1>0 DEF HeldKnown, ListingScheduled
<1>3. (RowsScheduledOnce /\ OneShotRunsOnce)'
  BY <1>0, SMTT(30) DEF RowsScheduledOnce, OneShotRunsOnce, TypeOK
<1>4. HeldStored'
  <2>1. rec.status # "none"
    BY DEF Records
  <2> QED
    BY <1>0, <2>1 DEF HeldStored, HeldKnown, RowsScheduledOnce, TypeOK
<1>5. RanIsHeld'
  BY <1>0 DEF RanIsHeld, HeldKnown, TypeOK
<1> QED
  BY <1>1, <1>2, <1>3, <1>4, <1>5

LEMMA ScheduleR ==
    ASSUME RInv, NEW t \in Tools, NEW r \in Reminders, Schedule(t, r)
    PROVE  RInv'
<1>1. PICK k \in {"once", "interval"} :
        Commit(t, r, [NoRecord EXCEPT !.status = "scheduled", !.kind = k, !.next = 1])
  BY DEF Schedule
<1> DEFINE rec == [NoRecord EXCEPT !.status = "scheduled", !.kind = k, !.next = 1]
<1>2. rec \in Rows
  <2>1. 1 \in (-MaxOverdue)..(Backoff + Interval) /\ 0 \in 0..Lease /\ 0 \in 0..(Versions - 1)
    OBVIOUS
  <2> QED
    BY <2>1 DEF NoRecord, Rows
<1>3. /\ runs[r] = -1 /\ runs' = [runs EXCEPT ![r] = 0]
      /\ ops' \in 0..MaxOps
  BY DEF Schedule, RInv, TypeOK
<1> QED
  BY <1>1, <1>2, <1>3, CommitR

LEMMA StopR ==
    ASSUME RInv, NEW t \in Tools, NEW r \in Reminders,
           NEW status \in {"paused", "cancelled"}, Stop(t, r, status)
    PROVE  RInv'
<1> DEFINE rec == [Mutated(store[r]) EXCEPT !.status = status]
<1>1. store[r] \in Rows
  BY Row DEF Stop, RInv, TypeOK
<1>2. status \in {"scheduled", "paused", "completed", "cancelled", "failed"}
  OBVIOUS
<1>3. rec \in Rows /\ rec.kind = store[r].kind /\ rec.status # "scheduled"
  BY <1>1, <1>2, RestatedRow, ZenonT(60)
<1>4. /\ Commit(t, r, rec) /\ runs' = runs /\ store[r].status # "none"
      /\ ops' \in 0..MaxOps
  BY DEF Stop, RInv, TypeOK
<1> QED
  BY <1>3, <1>4, CommitR

LEMMA RescheduleR ==
    ASSUME RInv, NEW t \in Tools, NEW r \in Reminders,
           NEW from \in {"paused", "failed"}, Reschedule(t, r, from)
    PROVE  RInv'
<1>1. store[r] \in Rows
  BY Row DEF Reschedule, RInv, TypeOK
<1>2. PICK next \in RescheduleTimes(store[r]) :
        Commit(t, r, [Mutated(store[r]) EXCEPT !.status = "scheduled", !.next = next])
  BY DEF Reschedule
<1> DEFINE rec == [Mutated(store[r]) EXCEPT !.status = "scheduled", !.next = next]
<1>3. next \in Times
  BY <1>1, NextRunTimes DEF RescheduleTimes, Times
<1>4. rec \in Rows /\ rec.kind = store[r].kind
  BY <1>1, <1>3, RescheduledRow
<1>5. runs' = [runs EXCEPT ![r] = 0] /\ ops' \in 0..MaxOps
  BY DEF Reschedule, RInv, TypeOK
<1> QED
  BY <1>2, <1>4, <1>5, CommitR

-----------------------------------------------------------------------------
(* The due queue.                                                           *)

LEMMA UpsertedQueue ==
    ASSUME TypeOK, NEW r, NEW rec \in Records
    PROVE  /\ Upserted(r, rec) \in [Reminders -> Records]
           /\ \A s \in Reminders : Upserted(r, rec)[s].status \in {"none", "scheduled"}
  BY Row DEF Upserted, TypeOK

LEMMA NotifyR ==
    ASSUME RInv, NEW t \in Tools, Notify(t)
    PROVE  RInv'
<1> USE DEF RInv, Notify
<1>1. TypeOK'
  <2>1. pending[t].rec \in Records
    BY DEF TypeOK
  <2>2. NoPending \in [id : Reminders \cup {NoReminder}, rec : Records]
    BY Row DEF NoPending
  <2> QED
    BY <2>1, <2>2, UpsertedQueue DEF TypeOK
<1>2. (HeldKnown /\ ListingScheduled /\ RowsScheduledOnce /\ HeldStored /\ RanIsHeld
       /\ OneShotRunsOnce)'
  BY DEF HeldKnown, ListingScheduled, RowsScheduledOnce, HeldStored, RanIsHeld,
     OneShotRunsOnce
<1> QED
  BY <1>1, <1>2

\* The loop goes on to what it has to do next, with nothing stored.
LEMMA ContinueHeld ==
    ASSUME RInv, Continue
    PROVE  /\ pc' \in {"batch", "look", "list", "delete"}
           /\ held' \in [id : Reminders \cup {NoReminder}, rec : Records, then : Steps]
           /\ HeldKnown'
<1>1. NoHeld \in [id : Reminders \cup {NoReminder}, rec : Records, then : Steps]
  BY Row DEF NoHeld, Steps
<1> QED
  BY <1>1 DEF Continue, RInv, TypeOK, HeldKnown, NoHeld, Steps

LEMMA ListR ==
    ASSUME RInv, List
    PROVE  RInv'
<1> USE DEF RInv
<1>1. UNCHANGED <<store, queue, pending, todo, ops, runs>>
  BY DEF List
<1>2. CASE /\ listing' = [r \in Reminders |-> IF Listed(r) THEN store[r] ELSE NoRecord]
           /\ pc' = "install" /\ UNCHANGED <<held, faults>>
  <2>1. TypeOK'
    BY <1>1, <1>2, Row DEF TypeOK, Steps
  <2>2. (HeldKnown /\ ListingScheduled /\ RowsScheduledOnce /\ HeldStored
         /\ OneShotRunsOnce)'
    BY <1>1, <1>2, Row DEF HeldKnown, ListingScheduled, Listed, RowsScheduledOnce,
       HeldStored, OneShotRunsOnce
  <2>3. RanIsHeld'
    BY <1>1, <1>2 DEF RanIsHeld, List
  <2> QED
    BY <2>1, <2>2, <2>3
<1>3. CASE Fault /\ Continue /\ UNCHANGED listing
  <2>1. faults' \in 1..MaxFaults
    BY <1>3 DEF Fault, TypeOK
  <2>2. TypeOK'
    BY <1>1, <1>3, <2>1, ContinueHeld DEF TypeOK, Steps
  <2>3. (HeldKnown /\ ListingScheduled /\ RowsScheduledOnce /\ HeldStored /\ RanIsHeld
         /\ OneShotRunsOnce)'
    BY <1>1, <1>3, <2>1, ContinueHeld
       DEF ListingScheduled, RowsScheduledOnce, HeldStored, RanIsHeld, OneShotRunsOnce
  <2> QED
    BY <2>2, <2>3
<1> QED
  BY <1>2, <1>3 DEF List

LEMMA InstallR ==
    ASSUME RInv, Install
    PROVE  RInv'
<1> USE DEF RInv
<1>1. /\ pc = "install" /\ queue' = [r \in Reminders |-> Installed(r)]
      /\ listing' = [r \in Reminders |-> NoRecord] /\ Continue
      /\ UNCHANGED <<store, pending, todo, ops, faults, runs>>
  BY DEF Install
<1>2. \A r \in Reminders : Installed(r) \in Records
                            /\ Installed(r).status \in {"none", "scheduled"}
  <2> SUFFICES ASSUME NEW r \in Reminders
               PROVE  Installed(r) \in Records
                      /\ Installed(r).status \in {"none", "scheduled"}
    OBVIOUS
  <2>1. CASE listing[r].status = "none"
    BY <2>1 DEF Installed, TypeOK
  <2>2. CASE listing[r].status = "scheduled"
    <3>1. listing[r] \in Rows
      BY <2>2, Row DEF TypeOK
    <3>2. queue[r].status = "scheduled" => queue[r] \in Rows
      BY Row DEF TypeOK
    <3>3. queue[r].status = "scheduled" =>
            /\ [listing[r] EXCEPT !.next = queue[r].next] \in Rows
            /\ [listing[r] EXCEPT !.next = queue[r].next].status = "scheduled"
      BY <2>2, <3>1, <3>2 DEF Rows
    <3> QED
      BY <2>2, <3>1, <3>3 DEF Installed, Records
  <2> QED
    BY <2>1, <2>2 DEF ListingScheduled
<1>3. TypeOK'
  BY <1>1, <1>2, Row, ContinueHeld DEF TypeOK, Steps
<1>4. (HeldKnown /\ ListingScheduled /\ RowsScheduledOnce /\ HeldStored /\ RanIsHeld
       /\ OneShotRunsOnce)'
  BY <1>1, Row, ContinueHeld
     DEF ListingScheduled, RowsScheduledOnce, HeldStored, RanIsHeld, OneShotRunsOnce
<1> QED
  BY <1>3, <1>4

LEMMA LookR ==
    ASSUME RInv, Look
    PROVE  RInv'
<1> USE DEF RInv, Look
<1>1. todo' \in Seq(Reminders)
  <2> DEFINE due == {r \in Reminders : IsDue(queue[r])}
  <2>1. Cardinality(due) \in Nat
    BY FS_Subset, FS_CardinalityType
  <2>2. todo' \in [1..Cardinality(due) -> due]
    BY DEF DueBatches, SetToSeqs
  <2> HIDE DEF due
  <2>3. todo' \in Seq(due)
    BY <2>1, <2>2
  <2> QED
    BY <2>3 DEF due
<1>2. TypeOK'
  BY <1>1 DEF TypeOK, Steps
<1>3. (HeldKnown /\ ListingScheduled /\ RowsScheduledOnce /\ HeldStored /\ RanIsHeld
       /\ OneShotRunsOnce)'
  BY DEF HeldKnown, ListingScheduled, RowsScheduledOnce, HeldStored, RanIsHeld,
     OneShotRunsOnce
<1> QED
  BY <1>2, <1>3


-----------------------------------------------------------------------------
(* The scheduler's other steps.                                             *)

LEMMA IdleR ==
    ASSUME RInv, BatchDone \/ Wake \/ ReconcileTick \/ RunEnds
    PROVE  RInv'
<1> USE DEF RInv, BatchDone, Wake, ReconcileTick, RunEnds
<1>1. Rebuild \in [id : Reminders \cup {NoReminder}, rec : Records, then : Steps]
      /\ Rebuild.then = "look"
  BY Row DEF Rebuild, NoHeld, Steps
<1>2. pc' \in Steps /\ held' \in [id : Reminders \cup {NoReminder}, rec : Records, then : Steps]
  BY <1>1 DEF TypeOK, Steps
<1>3. TypeOK'
  BY <1>2 DEF TypeOK
<1>4. (HeldKnown /\ ListingScheduled /\ RowsScheduledOnce /\ HeldStored /\ RanIsHeld
       /\ OneShotRunsOnce)'
  BY <1>1 DEF HeldKnown, ListingScheduled, RowsScheduledOnce, HeldStored, RanIsHeld,
     OneShotRunsOnce
<1> QED
  BY <1>3, <1>4

LEMMA ClaimR ==
    ASSUME RInv, Claim
    PROVE  RInv'
<1> USE DEF RInv
<1> DEFINE r == Head(todo)
<1>1. /\ pc = "batch" /\ todo # <<>> /\ todo' = Tail(todo)
      /\ UNCHANGED <<queue, pending, listing, ops, runs>>
  BY DEF Claim
<1>2. r \in Reminders /\ todo' \in Seq(Reminders)
  BY <1>1 DEF TypeOK
<1> HIDE DEF r
<1>3. CASE /\ Claimable(r)
           /\ store' = [store EXCEPT ![r] = Claimed(r)]
           /\ held' = [id |-> r, rec |-> Claimed(r), then |-> "batch"]
           /\ pc' = "claimed" /\ UNCHANGED faults
  <2>1. store[r].status = "scheduled" /\ store[r] \in Rows
    BY <1>2, <1>3, Row DEF Claimable, IsDue, TypeOK
  <2>2. /\ Claimed(r) \in Records /\ Claimed(r).status = "scheduled"
        /\ Claimed(r).kind = store[r].kind
    BY <1>2, <2>1, ClaimedRow DEF Records
  <2> DEFINE c == Claimed(r)
  <2> HIDE DEF c
  <2>3. /\ c \in Records /\ c.status = "scheduled" /\ c.kind = store[r].kind
        /\ store' = [store EXCEPT ![r] = c]
        /\ held' = [id |-> r, rec |-> c, then |-> "batch"]
    BY <1>3, <2>2 DEF c
  <2>4. TypeOK'
    BY <1>1, <1>2, <1>3, <2>3 DEF TypeOK, Steps
  <2>5. (HeldKnown /\ ListingScheduled /\ RowsScheduledOnce /\ HeldStored
         /\ OneShotRunsOnce)'
    BY <1>1, <1>2, <1>3, <2>1, <2>3
       DEF HeldKnown, ListingScheduled, RowsScheduledOnce, HeldStored, OneShotRunsOnce,
           TypeOK
  <2>6. RanIsHeld'
    <3>1. runs[r] \in 0..2
      BY <1>2, <2>1 DEF RowsScheduledOnce, TypeOK
    <3>2. faults = 0 /\ c.kind = "once" => runs[r] = 0
      <4> SUFFICES ASSUME faults = 0, store[r].kind = "once" PROVE ~(runs[r] >= 1)
        BY <2>3, <3>1
      <4> QED
        BY <1>1, <1>2, <2>1 DEF RanIsHeld
    <3> QED
      BY <1>1, <1>2, <1>3, <2>3, <3>2 DEF RanIsHeld, TypeOK
  <2> QED
    BY <2>4, <2>5, <2>6
<1>4. CASE /\ (~Claimable(r) /\ UNCHANGED faults) \/ Fault
           /\ pc' = "list" /\ UNCHANGED <<store, held>>
  <2>1. faults' \in 0..MaxFaults /\ (faults' = 0 => faults = 0)
    BY <1>4 DEF Fault, TypeOK
  <2>2. TypeOK'
    BY <1>1, <1>2, <1>4, <2>1 DEF TypeOK, Steps
  <2>3. (HeldKnown /\ ListingScheduled /\ RowsScheduledOnce /\ HeldStored /\ RanIsHeld
         /\ OneShotRunsOnce)'
    BY <1>1, <1>4, <2>1
       DEF HeldKnown, ListingScheduled, RowsScheduledOnce, HeldStored, RanIsHeld,
           OneShotRunsOnce
  <2> QED
    BY <2>2, <2>3
<1> QED
  BY <1>1, <1>3, <1>4 DEF Claim, r

LEMMA StartR ==
    ASSUME RInv, NEW r \in Reminders, Start(r)
    PROVE  RInv'
<1> USE DEF RInv, Start
<1>1. held.rec \in Records /\ pc' \in Steps
  BY DEF TypeOK, Steps
<1>2. TypeOK'
  <2>1. runs' \in [Reminders -> -1..2]
    BY DEF TypeOK
  <2> QED
    BY <1>1, <2>1, UpsertedQueue DEF TypeOK
<1>3. (HeldKnown /\ ListingScheduled /\ HeldStored)'
  BY DEF HeldKnown, ListingScheduled, HeldStored, Holding
<1>4. RowsScheduledOnce'
  <2>1. runs[r] \in -1..2
    BY DEF TypeOK
  <2> QED
    BY <2>1 DEF RowsScheduledOnce, HeldStored, TypeOK
<1>5. (RanIsHeld /\ OneShotRunsOnce)'
  BY DEF RanIsHeld, OneShotRunsOnce, HeldStored, TypeOK
<1> QED
  BY <1>2, <1>3, <1>4, <1>5

LEMMA BusyR ==
    ASSUME RInv, Busy
    PROVE  RInv'
<1> USE DEF RInv, Busy
<1>1. held.rec \in Records /\ pc' \in Steps
  BY DEF TypeOK, Steps
<1>2. TypeOK'
  BY <1>1, UpsertedQueue DEF TypeOK
<1>3. (HeldKnown /\ ListingScheduled /\ RowsScheduledOnce /\ HeldStored /\ RanIsHeld
       /\ OneShotRunsOnce)'
  BY DEF HeldKnown, ListingScheduled, RowsScheduledOnce, HeldStored, RanIsHeld,
     OneShotRunsOnce
<1> QED
  BY <1>2, <1>3

\* A mutation of the held reminder keeps its kind; only a deferral or an interval
\* reminder stays on the schedule.
LEMMA MutateR ==
    ASSUME RInv, pc \in Holding, NEW rec, NEW told,
           NEW then \in {"batch", "list", "delete"},
           Guarded(held.id) => /\ rec \in Rows /\ told \in Rows
                               /\ rec.kind = store[held.id].kind,
           rec.status = "scheduled" => pc = "defer" \/ store[held.id].kind = "interval",
           Mutate(rec, told, then)
    PROVE  RInv'
<1> USE DEF RInv
<1>1. UNCHANGED <<queue, pending, todo, listing, ops, runs>>
  BY DEF Mutate
<1>2. held.id \in Reminders /\ then \in Steps /\ NoHeld.then = "batch"
  BY DEF HeldKnown, Steps, NoHeld
<1>3. CASE /\ Guarded(held.id)
           /\ store' = [store EXCEPT ![held.id] = rec]
           /\ held' = [held EXCEPT !.rec = told, !.then = then]
           /\ pc' = "upsert" /\ UNCHANGED faults
  <2>1. /\ rec \in Records /\ told \in Records
        /\ store[held.id].status = "scheduled"
    BY <1>3 DEF Records, Guarded
  <2>2. TypeOK'
    BY <1>1, <1>2, <1>3, <2>1 DEF TypeOK, Steps
  <2>3. (HeldKnown /\ ListingScheduled /\ RowsScheduledOnce /\ HeldStored
         /\ OneShotRunsOnce)'
    BY <1>1, <1>2, <1>3, <2>1
       DEF HeldKnown, ListingScheduled, RowsScheduledOnce, HeldStored, OneShotRunsOnce,
           TypeOK
  <2>4. RanIsHeld'
    BY <1>1, <1>2, <1>3, <2>1 DEF RanIsHeld, TypeOK
  <2> QED
    BY <2>2, <2>3, <2>4
<1>4. CASE /\ ~Guarded(held.id)
           /\ held' = [held EXCEPT !.then = then]
           /\ pc' = "list" /\ UNCHANGED <<store, faults>>
  <2>1. TypeOK'
    BY <1>1, <1>2, <1>4 DEF TypeOK, Steps
  <2>2. (HeldKnown /\ ListingScheduled /\ RowsScheduledOnce /\ HeldStored
         /\ OneShotRunsOnce)'
    BY <1>1, <1>2, <1>4
       DEF HeldKnown, ListingScheduled, RowsScheduledOnce, HeldStored, OneShotRunsOnce,
           TypeOK
  <2>3. RanIsHeld'
    BY <1>1, <1>2, <1>4 DEF RanIsHeld, Guarded
  <2> QED
    BY <2>1, <2>2, <2>3
<1>5. CASE /\ Fault /\ pc' = then /\ UNCHANGED store
           /\ held' = IF then = "batch" THEN NoHeld ELSE [held EXCEPT !.then = "batch"]
  <2>1. faults' \in 1..MaxFaults
    BY <1>5 DEF Fault, TypeOK
  <2>2. held' \in [id : Reminders \cup {NoReminder}, rec : Records, then : Steps]
    BY <1>5, Row DEF TypeOK, NoHeld, Steps
  <2>3. TypeOK'
    BY <1>1, <1>2, <1>5, <2>1, <2>2 DEF TypeOK
  <2>4. (HeldKnown /\ ListingScheduled /\ RowsScheduledOnce /\ HeldStored /\ RanIsHeld
         /\ OneShotRunsOnce)'
    BY <1>1, <1>2, <1>5, <2>1
       DEF HeldKnown, ListingScheduled, RowsScheduledOnce, HeldStored, RanIsHeld,
           OneShotRunsOnce, TypeOK
  <2> QED
    BY <2>3, <2>4
<1> QED
  BY <1>3, <1>4, <1>5 DEF Mutate

LEMMA DeferR ==
    ASSUME RInv, Defer
    PROVE  RInv'
<1> DEFINE rec == Deferred(held.id)
           told == [rec EXCEPT !.next = Backoff]
<1>1. pc = "defer" /\ Mutate(rec, told, "batch")
  BY DEF Defer
<1>2. held.rec \in Rows
  BY <1>1, Row DEF RInv, HeldStored, TypeOK
<1>3. ASSUME Guarded(held.id)
      PROVE  rec \in Rows /\ told \in Rows /\ rec.kind = store[held.id].kind
  <2>1. store[held.id] \in Rows
    BY <1>1, <1>3, Row DEF Guarded, RInv, TypeOK, HeldKnown
  <2>2. held.rec.next \in Times
    BY <1>2 DEF Rows, Times
  <2>3. rec \in Rows /\ rec.kind = store[held.id].kind
    BY <2>1, <2>2, RescheduledRow DEF Deferred
  <2>4. Backoff \in (-MaxOverdue)..(Backoff + Interval)
    OBVIOUS
  <2> HIDE DEF rec
  <2> QED
    BY <2>3, <2>4 DEF Rows
<1> HIDE DEF rec, told
<1> QED
  BY <1>1, <1>3, MutateR

LEMMA FinalizeR ==
    ASSUME RInv, Finalize
    PROVE  RInv'
<1> DEFINE rec == Final(held.id)
<1>1. pc \in {"succeeded", "failed"} /\ Mutate(rec, rec, AfterFinal)
  BY DEF Finalize
<1>2. AfterFinal \in {"batch", "list", "delete"}
  BY DEF AfterFinal
<1>3. store[held.id].kind = held.rec.kind /\ store[held.id] \in Rows
  BY <1>1, Row DEF RInv, HeldStored, HeldKnown, TypeOK
<1>4. CASE held.rec.kind = "interval"
  <2>1. Guarded(held.id) => rec \in Rows /\ rec.kind = store[held.id].kind
    <3>1. held.rec \in Rows
      BY <1>1, Row DEF RInv, HeldStored, TypeOK
    <3>2. NextRun(held.rec) \in Times
      BY <3>1, NextRunTimes
    <3> QED
      BY <1>3, <1>4, <3>2, RescheduledRow DEF Final
  <2> HIDE DEF rec
  <2> QED
    BY <1>1, <1>2, <1>3, <1>4, <2>1, MutateR
<1>5. CASE held.rec.kind # "interval"
  <2>1. rec \in Rows /\ rec.kind = store[held.id].kind /\ rec.status # "scheduled"
    <3> DEFINE status == IF pc = "failed" THEN "failed" ELSE "completed"
    <3>1. status \in {"scheduled", "paused", "completed", "cancelled", "failed"}
          /\ status # "scheduled"
      OBVIOUS
    <3>2. rec = [Mutated(store[held.id]) EXCEPT !.status = status]
      BY <1>5 DEF Final
    <3> HIDE DEF status, rec
    <3> QED
      BY <1>3, <3>1, <3>2, RestatedRow
  <2> HIDE DEF rec
  <2> QED
    BY <1>1, <1>2, <2>1, MutateR
<1> QED
  BY <1>4, <1>5

LEMMA UpsertR ==
    ASSUME RInv, Upsert
    PROVE  RInv'
<1> USE DEF RInv, Upsert
<1>1. held.rec \in Records
  BY DEF TypeOK
<1>2. TypeOK'
  BY <1>1, UpsertedQueue, ContinueHeld DEF TypeOK, Steps
<1>3. (HeldKnown /\ ListingScheduled /\ RowsScheduledOnce /\ HeldStored /\ RanIsHeld
       /\ OneShotRunsOnce)'
  BY ContinueHeld
     DEF ListingScheduled, RowsScheduledOnce, HeldStored, RanIsHeld, OneShotRunsOnce
<1> QED
  BY <1>2, <1>3

LEMMA DeleteR ==
    ASSUME RInv, Delete
    PROVE  RInv'
<1> USE DEF RInv
<1>1. pc = "delete" /\ UNCHANGED <<queue, pending, todo, listing, ops, runs>>
  BY DEF Delete
<1>2. CASE /\ store' = [store EXCEPT ![held.id] = NoRecord]
           /\ held' = [held EXCEPT !.rec = NoRecord]
           /\ pc' = "upsert" /\ UNCHANGED faults
  <2>1. TypeOK'
    BY <1>1, <1>2, Row DEF TypeOK, Steps
  <2>2. (HeldKnown /\ ListingScheduled /\ RowsScheduledOnce /\ HeldStored /\ RanIsHeld
         /\ OneShotRunsOnce)'
    BY <1>1, <1>2, Row
       DEF HeldKnown, ListingScheduled, RowsScheduledOnce, HeldStored, RanIsHeld,
           OneShotRunsOnce, TypeOK
  <2> QED
    BY <2>1, <2>2
<1>3. CASE Fault /\ Continue /\ UNCHANGED store
  <2>1. faults' \in 1..MaxFaults
    BY <1>3 DEF Fault, TypeOK
  <2>2. TypeOK'
    BY <1>1, <1>3, <2>1, ContinueHeld DEF TypeOK, Steps
  <2>3. (HeldKnown /\ ListingScheduled /\ RowsScheduledOnce /\ HeldStored /\ RanIsHeld
         /\ OneShotRunsOnce)'
    BY <1>1, <1>3, <2>1, ContinueHeld
       DEF ListingScheduled, RowsScheduledOnce, HeldStored, RanIsHeld, OneShotRunsOnce
  <2> QED
    BY <2>2, <2>3
<1> QED
  BY <1>2, <1>3 DEF Delete

LEMMA CrashR ==
    ASSUME RInv, Crash
    PROVE  RInv'
<1> USE DEF RInv, Crash
<1>1. Rebuild \in [id : Reminders \cup {NoReminder}, rec : Records, then : Steps]
      /\ Rebuild.then = "look"
      /\ NoPending \in [id : Reminders \cup {NoReminder}, rec : Records]
  BY Row DEF Rebuild, NoHeld, Steps, NoPending
<1>2. faults' \in 1..MaxFaults
  BY DEF Fault, TypeOK
<1>3. TypeOK'
  BY <1>1, <1>2, Row DEF TypeOK, Steps
<1>4. (HeldKnown /\ ListingScheduled /\ RowsScheduledOnce /\ HeldStored /\ RanIsHeld
       /\ OneShotRunsOnce)'
  BY <1>1, <1>2, Row DEF HeldKnown, ListingScheduled, RowsScheduledOnce, HeldStored, RanIsHeld,
     OneShotRunsOnce
<1> QED
  BY <1>3, <1>4

LEMMA TickR ==
    ASSUME RInv, Tick
    PROVE  RInv'
<1> USE AgedRecord DEF RInv, Tick
<1>1. TypeOK'
  BY ZenonT(60) DEF TypeOK
<1>2. held'.id = held.id /\ held'.then = held.then /\ held'.rec.kind = held.rec.kind
      /\ held'.rec.status = held.rec.status
  BY DEF TypeOK
<1>3. \A r \in Reminders : /\ store'[r].status = store[r].status
                           /\ store'[r].kind = store[r].kind
                           /\ listing'[r].status = listing[r].status
  BY DEF TypeOK
<1>4. (HeldKnown /\ ListingScheduled /\ RowsScheduledOnce /\ OneShotRunsOnce)'
  BY <1>2, <1>3 DEF HeldKnown, ListingScheduled, RowsScheduledOnce, OneShotRunsOnce
<1>5. HeldStored'
  BY <1>2, <1>3 DEF HeldStored, HeldKnown
<1>6. RanIsHeld'
  BY <1>2, <1>3 DEF RanIsHeld
<1> QED
  BY <1>1, <1>4, <1>5, <1>6


-----------------------------------------------------------------------------
(* The theorems.                                                             *)

LEMMA InitR == Init => RInv
<1> SUFFICES ASSUME Init PROVE RInv
  OBVIOUS
<1> USE Row DEF Init
<1>1. /\ Rebuild \in [id : Reminders \cup {NoReminder}, rec : Records, then : Steps]
      /\ Rebuild.then = "look"
      /\ NoPending \in [id : Reminders \cup {NoReminder}, rec : Records]
  BY DEF Rebuild, NoHeld, Steps, NoPending
<1>2. TypeOK
  <2>1. ops \in 0..MaxOps /\ faults \in 0..MaxFaults
    OBVIOUS
  <2> QED
    BY <1>1, <2>1 DEF TypeOK, Steps
<1>3. HeldKnown /\ ListingScheduled /\ RowsScheduledOnce
  BY <1>1 DEF HeldKnown, ListingScheduled, RowsScheduledOnce
<1>4. HeldStored /\ RanIsHeld /\ OneShotRunsOnce
  BY DEF HeldStored, RanIsHeld, OneShotRunsOnce
<1> QED
  BY <1>2, <1>3, <1>4 DEF RInv

LEMMA NextR ==
    ASSUME RInv, [Next]_vars
    PROVE  RInv'
<1>1. ASSUME NEW t \in Tools, NEW r \in Reminders,
             \/ Schedule(t, r)
             \/ \E status \in {"paused", "cancelled"} : Stop(t, r, status)
             \/ \E from \in {"paused", "failed"} : Reschedule(t, r, from)
      PROVE  RInv'
  BY <1>1, ScheduleR, StopR, RescheduleR
<1>2. CASE Scheduler
  BY <1>2, ListR, InstallR, LookR, IdleR, ClaimR, StartR, BusyR, DeferR, FinalizeR,
     UpsertR, DeleteR DEF Scheduler
<1>3. CASE UNCHANGED vars
  BY <1>3 DEF vars, RInv, TypeOK, HeldKnown, ListingScheduled, RowsScheduledOnce,
     HeldStored, RanIsHeld, OneShotRunsOnce
<1> QED
  BY <1>1, <1>2, <1>3, NotifyR, CrashR, TickR DEF Next

LEMMA RInvInductive == Spec => []RInv
<1>1. Init => RInv
  BY InitR
<1>2. RInv /\ [Next]_vars => RInv'
  BY NextR
<1> QED
  BY <1>1, <1>2, PTL DEF Spec

\* Every reachable state of the reminders is well typed; among others, the due
\* queue never holds a record that is not scheduled.
THEOREM TypeCorrect == Spec => []TypeOK
<1>1. RInv => TypeOK
  BY DEF RInv
<1> QED
  BY <1>1, RInvInductive, PTL

\* However late and in whatever order the queue is told of records, a one-shot
\* reminder runs at most once each time it is scheduled, as long as no statement
\* fails and the process does not die: the claim asks the row, not the queue.
THEOREM RunsOnce == Spec => []OneShotRunsOnce
<1>1. RInv => OneShotRunsOnce
  BY DEF RInv
<1> QED
  BY <1>1, RInvInductive, PTL

\* Nothing that the scheduler finalizes, defers or deletes puts a paused or
\* cancelled reminder back on the schedule.
THEOREM StoppedStays == Spec => StopHolds
<1> DEFINE Holds ==
      pc' # pc => \A r \in Reminders :
        store[r].status \in {"paused", "cancelled"} => store'[r].status # "scheduled"
<1>1. ASSUME RInv, Next PROVE Holds
  <2> SUFFICES ASSUME pc' # pc, NEW r \in Reminders,
                      store[r].status \in {"paused", "cancelled"}
               PROVE  store'[r].status # "scheduled"
    OBVIOUS
  <2> USE <1>1 DEF RInv, TypeOK
  <2>1. CASE UNCHANGED store
    BY <2>1
  <2>2. CASE Claim
    BY <2>2 DEF Claim, Claimable, IsDue
  <2>3. CASE Defer \/ Finalize
    <3>1. PICK rec, told, then : Mutate(rec, told, then)
      BY <2>3 DEF Defer, Finalize
    <3> QED
      BY <3>1 DEF Mutate, Guarded
  <2>4. CASE Delete
    BY <2>4, SMTT(30) DEF Delete, NoRecord
  <2>5. CASE Tick
    BY <2>5 DEF Tick
  <2>6. ASSUME NEW t \in Tools, NEW s \in Reminders,
               \/ Schedule(t, s)
               \/ \E status \in {"paused", "cancelled"} : Stop(t, s, status)
               \/ \E from \in {"paused", "failed"} : Reschedule(t, s, from)
        PROVE  pc' = pc
    BY <2>6 DEF Schedule, Stop, Reschedule, Commit
  <2> QED
    BY <2>1, <2>2, <2>3, <2>4, <2>5, <2>6
       DEF Next, Scheduler, Notify, List, Install, Look, BatchDone, Wake,
           ReconcileTick, Start, Busy, RunEnds, Upsert, Crash
<1>2. RInv /\ [Next]_vars => [Holds]_vars
  BY <1>1
<1> QED
  BY <1>2, RInvInductive, PTL DEF Spec, StopHolds
=============================================================================
