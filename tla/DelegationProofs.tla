-------------------------- MODULE DelegationProofs --------------------------
(***************************************************************************)
(* Proofs about Delegation for any number of jobs, slots, spawn calls and    *)
(* wait calls: a parked wait has missed nothing, a final record stays, and   *)
(* the permits in the semaphore, with calls and with living tasks add up.    *)
(***************************************************************************)
EXTENDS Delegation, FiniteSetTheorems, TLAPS

Tasks == {"none", "prepared", "dropped", "done", "run", "relay", "finished"}
SpawnCalls == [pc : {"idle", "take", "prepare", "start"}, want : Int, held : Int,
               prepared : SUBSET Jobs]
WaitCalls == [pc : {"idle", "look", "looked", "parked"}, ids : SUBSET Jobs,
              woken : BOOLEAN]

Shapes ==
    /\ job \in [Jobs -> Records]
    /\ task \in [Jobs -> Tasks]
    /\ outcome \in [Jobs -> {"none", "completed", "failed"}]
    /\ spawn \in [Spawners -> SpawnCalls]
    /\ wait \in [Waiters -> WaitCalls]

\* A prepared job belongs to one spawn call and has not been started.
PreparedApart ==
    /\ \A s \in Spawners : \A j \in spawn[s].prepared : task[j] = "prepared"
    /\ \A s, t \in Spawners : s # t => spawn[s].prepared \cap spawn[t].prepared = {}

\* How far a job's task has come bounds what its record can say.
RecordOfTask ==
    \A j \in Jobs :
        /\ task[j] \in {"none", "prepared", "dropped"} => job[j].status = "none"
        /\ task[j] \in {"run", "relay"} => job[j].status \in {"running", "cancelled"}
        /\ job[j].status = "cancelled" => job[j].output = "cancel"

\* From the lookup on, a call that has not been notified has nothing to report.
Missed(w) == wait[w].pc \in {"looked", "parked"} /\ ~wait[w].woken
NothingMissed == \A w \in Waiters : Missed(w) => \A j \in wait[w].ids : ~Terminal(j)

DInv == Shapes /\ PreparedApart /\ RecordOfTask /\ NothingMissed

-----------------------------------------------------------------------------
(* A step that notifies leaves no unnotified call behind the lookup.        *)

LEMMA NotifyTyped ==
    ASSUME wait \in [Waiters -> WaitCalls], NotifyWaiters
    PROVE wait' \in [Waiters -> WaitCalls]
<1>1. SUFFICES ASSUME NEW w \in Waiters
      PROVE [wait[w] EXCEPT !.woken = wait[w].pc # "idle"] \in WaitCalls
  BY DEF NotifyWaiters
<1>2. (wait[w].pc # "idle") \in BOOLEAN
  OBVIOUS
<1> DEFINE b == wait[w].pc # "idle"
<1>3. b \in BOOLEAN
  BY <1>2
<1> HIDE DEF b
<1>4. [wait[w] EXCEPT !.woken = b] \in WaitCalls
  BY <1>3 DEF WaitCalls
<1> QED
  BY <1>4 DEF b

LEMMA NotifyWakes ==
    ASSUME wait \in [Waiters -> WaitCalls], NotifyWaiters
    PROVE NothingMissed'
<1>1. SUFFICES ASSUME NEW w \in Waiters, Missed(w)' PROVE FALSE
  BY DEF NothingMissed
<1>2. wait'[w] = [wait[w] EXCEPT !.woken = wait[w].pc # "idle"]
  BY DEF NotifyWaiters
<1>3. wait[w] \in WaitCalls
  OBVIOUS
<1>4. wait'[w].pc = wait[w].pc
  BY <1>2, <1>3 DEF WaitCalls
<1>5. wait[w].pc # "idle"
  BY <1>1, <1>4 DEF Missed
<1>6. wait'[w].woken = (wait[w].pc # "idle")
  BY <1>2, <1>3 DEF WaitCalls
<1>7. wait'[w].woken
  BY <1>5, <1>6
<1> QED
  BY <1>1, <1>7 DEF Missed

LEMMA InitDInv == Init => DInv
BY DEF Init, DInv, Shapes, PreparedApart, RecordOfTask, NothingMissed, Missed, Tasks,
   Records, Final, SpawnCalls, WaitCalls, NoJob, NoSpawn, NoWait

-----------------------------------------------------------------------------
(* Preservation, one lemma per group of actions.                            *)

LEMMA SpawnDInv ==
    ASSUME DInv, NEW s \in Spawners, SpawnCall(s) \/ SpawnStep(s)
    PROVE DInv'
<1> USE DEF DInv
<1>1. CASE SpawnCall(s)
  <2>0. PICK n \in 1..MaxJobs :
            spawn' = [spawn EXCEPT ![s].pc = "take", ![s].want = n]
    BY <1>1 DEF SpawnCall
  <2> DEFINE call == [spawn[s] EXCEPT !.pc = "take", !.want = n]
  <2>a. spawn[s] \in SpawnCalls /\ n \in Int
    BY SlotsAssumption DEF Shapes
  <2>b. call \in SpawnCalls /\ call.prepared = spawn[s].prepared
    BY <2>a DEF SpawnCalls
  <2>c. spawn' = [spawn EXCEPT ![s] = call]
    BY <2>0
  <2> HIDE DEF call
  <2>1. Shapes'
    BY <1>1, <2>b, <2>c DEF SpawnCall, Shapes
  <2>2. \A t \in Spawners : spawn'[t].prepared = spawn[t].prepared
    BY <2>b, <2>c DEF Shapes
  <2>3. PreparedApart'
    BY <1>1, <2>2 DEF SpawnCall, PreparedApart
  <2>4. RecordOfTask' /\ NothingMissed'
    BY <1>1 DEF SpawnCall, RecordOfTask, NothingMissed, Missed, Terminal
  <2> QED
    BY <2>1, <2>3, <2>4
<1>2. CASE SpawnTake(s)
  <2>1. Shapes'
    BY <1>2 DEF SpawnTake, Shapes, SpawnCalls, NoSpawn
  <2>2. \A t \in Spawners : spawn'[t].prepared \in {spawn[t].prepared, {}}
    BY <1>2 DEF SpawnTake, Shapes, SpawnCalls, NoSpawn
  <2>3. PreparedApart'
    BY <1>2, <2>2 DEF SpawnTake, PreparedApart
  <2>4. RecordOfTask' /\ NothingMissed'
    BY <1>2 DEF SpawnTake, RecordOfTask, NothingMissed, Missed, Terminal
  <2> QED
    BY <2>1, <2>3, <2>4
<1>3. CASE SpawnPrepare(s)
  <2>1. PICK j \in Jobs :
            /\ task[j] = "none"
            /\ task' = [task EXCEPT ![j] = "prepared"]
            /\ spawn' = [spawn EXCEPT
                 ![s].prepared = @ \cup {j},
                 ![s].pc = IF Cardinality(spawn[s].prepared \cup {j}) = spawn[s].want
                           THEN "start" ELSE "prepare"]
    BY <1>3 DEF SpawnPrepare, Lowest
  <2> DEFINE pc == IF Cardinality(spawn[s].prepared \cup {j}) = spawn[s].want
                   THEN "start" ELSE "prepare"
  <2>a. pc \in {"start", "prepare"}
    OBVIOUS
  <2>b. spawn' = [spawn EXCEPT ![s] =
                   [spawn[s] EXCEPT !.prepared = spawn[s].prepared \cup {j}, !.pc = pc]]
    BY <2>1
  <2> HIDE DEF pc
  <2> DEFINE call == [spawn[s] EXCEPT !.prepared = spawn[s].prepared \cup {j}, !.pc = pc]
  <2>c. call \in SpawnCalls /\ call.prepared = spawn[s].prepared \cup {j}
    BY <2>a DEF Shapes, SpawnCalls
  <2>d. spawn' = [spawn EXCEPT ![s] = call]
    BY <2>b
  <2> HIDE DEF call
  <2>e. task' \in [Jobs -> Tasks] /\ spawn' \in [Spawners -> SpawnCalls]
    BY <2>1, <2>c, <2>d, ZenonT(60) DEF Shapes, Tasks
  <2>f. job' = job /\ outcome' = outcome /\ wait' = wait
    BY <1>3 DEF SpawnPrepare
  <2>2. Shapes'
    BY <2>e, <2>f DEF Shapes
  <2>3. /\ spawn'[s].prepared = spawn[s].prepared \cup {j}
        /\ \A t \in Spawners \ {s} : spawn'[t] = spawn[t]
    BY <2>c, <2>d DEF Shapes
  <2>4. \A t \in Spawners : j \notin spawn[t].prepared
    BY <2>1 DEF PreparedApart
  <2>5. PreparedApart'
    <3>1. ASSUME NEW t \in Spawners, NEW i \in spawn'[t].prepared PROVE task'[i] = "prepared"
      BY <2>1, <2>3, <3>1 DEF PreparedApart, Shapes, SpawnCalls
    <3>2. ASSUME NEW t \in Spawners, NEW u \in Spawners, t # u
          PROVE spawn'[t].prepared \cap spawn'[u].prepared = {}
      BY <2>3, <2>4, <3>2 DEF PreparedApart
    <3> QED
      BY <3>1, <3>2 DEF PreparedApart
  <2>6. RecordOfTask' /\ NothingMissed'
    BY <2>1, <2>f DEF Shapes, RecordOfTask, NothingMissed, Missed, Terminal
  <2> QED
    BY <2>2, <2>5, <2>6
<1>4. CASE SpawnFails(s)
  <2>1. Shapes'
    BY <1>4 DEF SpawnFails, Shapes, SpawnCalls, NoSpawn, Tasks
  <2>2. spawn'[s].prepared = {} /\ \A t \in Spawners \ {s} : spawn'[t] = spawn[t]
    BY <1>4 DEF SpawnFails, Shapes, NoSpawn
  <2>3. \A i \in Jobs : i \notin spawn[s].prepared => task'[i] = task[i]
    BY <1>4 DEF SpawnFails
  <2>4. PreparedApart'
    <3>1. ASSUME NEW t \in Spawners, NEW i \in spawn'[t].prepared PROVE task'[i] = "prepared"
      BY <2>2, <2>3, <3>1 DEF PreparedApart, Shapes, SpawnCalls
    <3>2. ASSUME NEW t \in Spawners, NEW u \in Spawners, t # u
          PROVE spawn'[t].prepared \cap spawn'[u].prepared = {}
      BY <2>2, <3>2 DEF PreparedApart
    <3> QED
      BY <3>1, <3>2 DEF PreparedApart
  <2>5. RecordOfTask'
    BY <1>4 DEF SpawnFails, PreparedApart, RecordOfTask
  <2>6. NothingMissed'
    BY <1>4 DEF SpawnFails, NothingMissed, Missed, Terminal
  <2> QED
    BY <2>1, <2>4, <2>5, <2>6
<1>5. CASE SpawnStart(s)
  <2>1. PICK j \in Jobs :
            /\ j \in spawn[s].prepared
            /\ job' = [job EXCEPT ![j].status = "running"]
            /\ task' = [task EXCEPT ![j] = "run"]
            /\ spawn' = [spawn EXCEPT
                 ![s] = IF spawn[s].prepared = {j} THEN NoSpawn
                        ELSE [spawn[s] EXCEPT !.prepared = spawn[s].prepared \ {j},
                                              !.held = spawn[s].held - 1]]
    BY <1>5 DEF SpawnStart, Lowest
  <2>2. wait' \in [Waiters -> WaitCalls] /\ NothingMissed'
    BY <1>5, NotifyTyped, NotifyWakes DEF SpawnStart, Shapes
  <2> DEFINE left == spawn[s].prepared \ {j}
             held == spawn[s].held - 1
             rest == [spawn[s] EXCEPT !.prepared = left, !.held = held]
             call == IF spawn[s].prepared = {j} THEN NoSpawn ELSE rest
  <2>a. rest \in SpawnCalls /\ rest.prepared = spawn[s].prepared \ {j}
    <3>1. spawn[s] \in SpawnCalls
      BY DEF Shapes
    <3>2. left \in SUBSET Jobs /\ held \in Int
      BY <3>1 DEF SpawnCalls
    <3> HIDE DEF left, held
    <3>3. rest \in SpawnCalls /\ rest.prepared = left
      BY <3>1, <3>2 DEF SpawnCalls
    <3> QED
      BY <3>3 DEF left
  <2>b. NoSpawn \in SpawnCalls /\ NoSpawn.prepared = {}
    BY DEF SpawnCalls, NoSpawn
  <2>c. call \in SpawnCalls /\ call.prepared = spawn[s].prepared \ {j}
    <3> HIDE DEF rest
    <3> QED
      BY <2>a, <2>b
  <2>d. spawn' = [spawn EXCEPT ![s] = call]
    BY <2>1
  <2> HIDE DEF call
  <2>3. Shapes'
    <3>1. job' \in [Jobs -> Records] /\ task' \in [Jobs -> Tasks]
      BY <2>1 DEF Shapes, Records, Tasks
    <3>2. spawn' \in [Spawners -> SpawnCalls]
      BY <2>c, <2>d DEF Shapes
    <3> QED
      BY <1>5, <2>2, <3>1, <3>2 DEF SpawnStart, Shapes
  <2>4. /\ spawn'[s].prepared = spawn[s].prepared \ {j}
        /\ \A t \in Spawners \ {s} : spawn'[t] = spawn[t]
    BY <2>c, <2>d DEF Shapes
  <2>5. PreparedApart'
    <3>1. ASSUME NEW t \in Spawners, NEW i \in spawn'[t].prepared PROVE task'[i] = "prepared"
      <4>1. i # j /\ i \in spawn[t].prepared
        BY <2>1, <2>4, <3>1 DEF PreparedApart
      <4> QED
        BY <2>1, <4>1 DEF PreparedApart, Shapes, SpawnCalls
    <3>2. ASSUME NEW t \in Spawners, NEW u \in Spawners, t # u
          PROVE spawn'[t].prepared \cap spawn'[u].prepared = {}
      BY <2>4, <3>2 DEF PreparedApart
    <3> QED
      BY <3>1, <3>2 DEF PreparedApart
  <2>6. RecordOfTask'
    BY <2>1 DEF Shapes, Records, RecordOfTask
  <2> QED
    BY <2>2, <2>3, <2>5, <2>6
<1> QED
  BY <1>1, <1>2, <1>3, <1>4, <1>5 DEF SpawnStep

LEMMA TaskDInv ==
    ASSUME DInv, NEW j \in Jobs, TaskStep(j) \/ ToolReturns(j) \/ RelayEnds(j)
    PROVE DInv'
<1> USE DEF DInv
<1>1. CASE RunReturns(j)
  <2>1. Shapes'
    BY <1>1 DEF RunReturns, Shapes, Tasks
  <2>2. PreparedApart'
    BY <1>1 DEF RunReturns, Shapes, SpawnCalls, PreparedApart
  <2>3. RecordOfTask' /\ NothingMissed'
    BY <1>1 DEF RunReturns, Shapes, RecordOfTask, NothingMissed, Missed, Terminal
  <2> QED
    BY <2>1, <2>2, <2>3
<1>2. CASE Finish(j)
  <2>1. wait' \in [Waiters -> WaitCalls] /\ NothingMissed'
    BY <1>2, NotifyTyped, NotifyWakes DEF Finish, Shapes
  <2>2. Shapes'
    <3>1. Finished(j) \in Records
      BY DEF Finished, Shapes, Records, Final
    <3>2. job' \in [Jobs -> Records]
      BY <1>2, <3>1 DEF Finish, Shapes
    <3> QED
      BY <1>2, <2>1, <3>2 DEF Finish, Shapes, Tasks
  <2>3. PreparedApart'
    BY <1>2 DEF Finish, Shapes, SpawnCalls, PreparedApart
  <2>4. Finished(j).status = "cancelled" => Finished(j).output = "cancel"
    BY DEF Finished, Shapes, Records, RecordOfTask
  <2>5. RecordOfTask'
    BY <1>2, <2>4 DEF Finish, Shapes, RecordOfTask
  <2> QED
    BY <2>1, <2>2, <2>3, <2>5
<1>3. CASE SlotReturns(j)
  <2>1. Shapes' /\ PreparedApart'
    BY <1>3 DEF SlotReturns, Shapes, SpawnCalls, PreparedApart, Tasks
  <2>2. RecordOfTask' /\ NothingMissed'
    BY <1>3 DEF SlotReturns, Shapes, RecordOfTask, NothingMissed, Missed, Terminal
  <2> QED
    BY <2>1, <2>2
<1>4. CASE ToolReturns(j) \/ RelayEnds(j)
  BY <1>4 DEF ToolReturns, RelayEnds, Shapes, PreparedApart, RecordOfTask,
     NothingMissed, Missed, Terminal
<1> QED
  BY <1>1, <1>2, <1>3, <1>4 DEF TaskStep

LEMMA CancelDInv ==
    ASSUME DInv, NEW ids \in IdLists, Cancel(ids)
    PROVE DInv'
<1> USE DEF DInv
<1>1. wait' \in [Waiters -> WaitCalls] /\ NothingMissed'
  BY NotifyTyped, NotifyWakes DEF Cancel, Shapes
<1>2. Shapes'
  BY <1>1 DEF Cancel, Shapes, Records, Final
<1>3. PreparedApart'
  BY DEF Cancel, PreparedApart
<1>4. \A j \in ids : j \in Jobs /\ job[j].status # "none"
  BY DEF IdLists, Known
<1>5. RecordOfTask'
  BY <1>4 DEF Cancel, Shapes, Records, Final, Terminal, RecordOfTask
<1> QED
  BY <1>1, <1>2, <1>3, <1>5

LEMMA WaitDInv ==
    ASSUME DInv, NEW w \in Waiters, WaitStep(w) \/ \E ids \in IdLists : WaitCall(w, ids)
    PROVE DInv'
<1> USE DEF DInv
<1>0. wait[w] \in WaitCalls
  BY DEF Shapes
<1>1. CASE \E ids \in IdLists : WaitCall(w, ids)
  <2>1. PICK ids \in IdLists : WaitCall(w, ids)
    BY <1>1
  <2>2. ids \in SUBSET Jobs
    BY DEF IdLists, Known
  <2>3. [pc |-> "look", ids |-> ids, woken |-> FALSE] \in WaitCalls
    BY <2>2 DEF WaitCalls
  <2>4. Shapes' /\ PreparedApart' /\ RecordOfTask'
    BY <2>1, <2>3 DEF WaitCall, Shapes, PreparedApart, RecordOfTask
  <2>5. NothingMissed'
    BY <2>1 DEF WaitCall, Shapes, NothingMissed, Missed, Terminal
  <2> QED
    BY <2>4, <2>5
<1>2. CASE WaitLook(w)
  <2>1. [wait[w] EXCEPT !.pc = "looked"] \in WaitCalls /\ NoWait \in WaitCalls
    BY <1>0 DEF WaitCalls, NoWait
  <2>2. Shapes' /\ PreparedApart' /\ RecordOfTask'
    BY <1>2, <2>1 DEF WaitLook, Shapes, PreparedApart, RecordOfTask
  <2>3. NothingMissed'
    <3>1. CASE \E j \in wait[w].ids : Terminal(j)
      <4>1. wait'[w].pc = "idle" /\ \A v \in Waiters \ {w} : wait'[v] = wait[v]
        BY <1>2, <3>1 DEF WaitLook, Shapes, NoWait
      <4> QED
        BY <1>2, <4>1 DEF WaitLook, NothingMissed, Missed, Terminal
    <3>2. CASE \A j \in wait[w].ids : ~Terminal(j)
      <4>1. wait'[w].ids = wait[w].ids /\ \A v \in Waiters \ {w} : wait'[v] = wait[v]
        BY <1>0, <1>2, <3>2 DEF WaitLook, Shapes, WaitCalls
      <4> QED
        BY <1>2, <3>2, <4>1 DEF WaitLook, NothingMissed, Missed, Terminal
    <3> QED
      BY <3>1, <3>2
  <2> QED
    BY <2>2, <2>3
<1>3. CASE WaitPark(w)
  <2>1. Parked(w) \in WaitCalls
    BY <1>0 DEF WaitCalls, Parked
  <2>2. Shapes' /\ PreparedApart' /\ RecordOfTask'
    BY <1>3, <2>1 DEF WaitPark, Shapes, PreparedApart, RecordOfTask
  <2>3. /\ wait'[w].ids = wait[w].ids
        /\ wait'[w].woken = wait[w].woken
        /\ wait[w].pc = "looked"
        /\ \A v \in Waiters \ {w} : wait'[v] = wait[v]
    BY <1>0, <1>3 DEF WaitPark, Parked, Shapes, WaitCalls
  <2>4. NothingMissed'
    BY <1>3, <2>3 DEF WaitPark, NothingMissed, Missed, Terminal
  <2> QED
    BY <2>2, <2>4
<1>4. CASE WaitWakes(w)
  <2>1. [wait[w] EXCEPT !.pc = "look", !.woken = FALSE] \in WaitCalls
    BY <1>0 DEF WaitCalls
  <2>2. wait' = [wait EXCEPT ![w] = [wait[w] EXCEPT !.pc = "look", !.woken = FALSE]]
    BY <1>4 DEF WaitWakes
  <2>3. Shapes' /\ PreparedApart' /\ RecordOfTask'
    BY <1>4, <2>1, <2>2 DEF WaitWakes, Shapes, PreparedApart, RecordOfTask
  <2>4. wait'[w].pc = "look" /\ \A v \in Waiters \ {w} : wait'[v] = wait[v]
    BY <1>0, <2>2 DEF Shapes, WaitCalls
  <2>5. NothingMissed'
    BY <1>4, <2>4 DEF WaitWakes, NothingMissed, Missed, Terminal
  <2> QED
    BY <2>3, <2>5
<1>5. CASE WaitTimesOut(w)
  <2>1. NoWait \in WaitCalls
    BY DEF WaitCalls, NoWait
  <2>2. Shapes' /\ PreparedApart' /\ RecordOfTask'
    BY <1>5, <2>1 DEF WaitTimesOut, Shapes, PreparedApart, RecordOfTask
  <2>3. wait'[w].pc = "idle" /\ \A v \in Waiters \ {w} : wait'[v] = wait[v]
    BY <1>5 DEF WaitTimesOut, Shapes, NoWait
  <2>4. NothingMissed'
    BY <1>5, <2>3 DEF WaitTimesOut, NothingMissed, Missed, Terminal
  <2> QED
    BY <2>2, <2>4
<1> QED
  BY <1>1, <1>2, <1>3, <1>4, <1>5 DEF WaitStep

LEMMA NextDInv == DInv /\ [Next]_vars => DInv'
<1> SUFFICES ASSUME DInv, [Next]_vars PROVE DInv'
  OBVIOUS
<1>1. CASE \E s \in Spawners : SpawnCall(s) \/ SpawnStep(s)
  BY <1>1, SpawnDInv
<1>2. CASE \E w \in Waiters : WaitStep(w) \/ \E ids \in IdLists : WaitCall(w, ids)
  BY <1>2, WaitDInv
<1>3. CASE \E ids \in IdLists : Cancel(ids)
  BY <1>3, CancelDInv
<1>4. CASE \E j \in Jobs : TaskStep(j) \/ ToolReturns(j) \/ RelayEnds(j)
  BY <1>4, TaskDInv
<1>5. CASE ParentEnds \/ ParentDelivers \/ UNCHANGED vars
  BY <1>5 DEF ParentEnds, ParentDelivers, vars, DInv, Shapes, PreparedApart,
     RecordOfTask, NothingMissed, Missed, Terminal
<1> QED
  BY <1>1, <1>2, <1>3, <1>4, <1>5 DEF Next

LEMMA DInvHolds == Spec => []DInv
BY InitDInv, NextDInv, PTL DEF Spec

-----------------------------------------------------------------------------

\* A wait_sub_agents call that is parked and has not been notified has no
\* finished sub-agent to report: between wait_for_any_terminal's lookup and its
\* await no wake-up is lost, whatever spawns, finishes and cancellations happen.
THEOREM WaitersMissNothing == Spec => []NoLostWakeup
<1>1. DInv => NoLostWakeup
  BY DEF DInv, NothingMissed, Missed, NoLostWakeup
<1> QED
  BY <1>1, DInvHolds, PTL

\* A final record of the job store is never written again: neither a late
\* result (finish) nor a second cancellation (cancel_ids) changes it, and
\* insert_running never meets it.
THEOREM FinalRecordsStay == Spec => FinalStays
<1>1. DInv /\ [Next]_vars => [\A j \in Jobs : Terminal(j) => job'[j] = job[j]]_vars
  <2> SUFFICES ASSUME DInv, Next, NEW j \in Jobs, Terminal(j) PROVE job'[j] = job[j]
    OBVIOUS
  <2>1. job \in [Jobs -> Records] /\ job[j].status \in Final
    BY DEF DInv, Shapes, Terminal
  <2>2. ASSUME NEW s \in Spawners, SpawnStart(s) PROVE job'[j] = job[j]
    <3>1. PICK i \in Jobs : /\ i \in spawn[s].prepared
                            /\ job' = [job EXCEPT ![i].status = "running"]
      BY <2>2 DEF SpawnStart, Lowest
    <3>2. job[i].status = "none"
      BY <3>1 DEF DInv, PreparedApart, RecordOfTask
    <3> QED
      BY <2>1, <3>1, <3>2 DEF Final
  <2>3. ASSUME NEW i \in Jobs, Finish(i) PROVE job'[j] = job[j]
    <3>1. job' = [job EXCEPT ![i] = Finished(i)]
      BY <2>3 DEF Finish
    <3>2. CASE i = j
      <4>1. job[j].status = "cancelled" /\ job[j].output = "cancel"
        BY <2>1, <2>3, <3>2 DEF Finish, DInv, RecordOfTask, Final
      <4>2. Finished(j) = job[j]
        BY <2>1, <4>1 DEF Finished, Records
      <4> QED
        BY <2>1, <3>1, <3>2, <4>2
    <3> QED
      BY <2>1, <3>1, <3>2
  <2>4. ASSUME NEW ids \in IdLists, Cancel(ids) PROVE job'[j] = job[j]
    BY <2>4 DEF Cancel
  <2>5. CASE UNCHANGED job
    BY <2>5
  <2> QED
    BY <2>2, <2>3, <2>4, <2>5 DEF Next, SpawnCall, SpawnStep, SpawnTake, SpawnPrepare,
       SpawnFails, WaitStep, WaitLook, WaitPark, WaitWakes, WaitTimesOut, WaitCall,
       TaskStep, RunReturns, SlotReturns, ToolReturns, RelayEnds, ParentEnds, ParentDelivers
<1> QED
  BY <1>1, DInvHolds, PTL DEF Spec, FinalStays

-----------------------------------------------------------------------------
(* The slots: a permit is in the semaphore, with a spawn call that holds it, *)
(* or with a job whose task has not ended.                                   *)

Occupied == {j \in Jobs : task[j] \in Alive}

\* The permits that spawn calls hold, told apart by call and number, so that
\* nothing need be assumed of how many calls there are.
Permits(s, n) == {s} \X (1..n)
Held == {p \in Spawners \X (1..MaxJobs) : p[2] <= spawn[p[1]].held}

\* What each phase of a spawn call says of its permits and of its jobs.
CallShape ==
    \A s \in Spawners :
        /\ spawn[s].held \in 0..MaxJobs /\ spawn[s].want \in 0..MaxJobs
        /\ spawn[s].pc = "idle" => spawn[s].held = 0
        /\ spawn[s].pc = "take" =>
             spawn[s].held < spawn[s].want /\ spawn[s].prepared = {}
        /\ spawn[s].pc = "prepare" =>
             spawn[s].held = spawn[s].want /\ spawn[s].want > 0
        /\ spawn[s].pc = "start" =>
             spawn[s].held > 0 /\ spawn[s].held = Cardinality(spawn[s].prepared)

SlotsAdd ==
    /\ free \in Nat
    /\ IsFiniteSet(Held)
    /\ free + Cardinality(Held) + Cardinality(Occupied) = MaxJobs

SlotInv == CallShape /\ SlotsAdd

LEMMA PermitsCount ==
    ASSUME NEW s, NEW n \in Nat
    PROVE IsFiniteSet(Permits(s, n)) /\ Cardinality(Permits(s, n)) = n
<1>1. IsFiniteSet({s}) /\ Cardinality({s}) = 1
  BY FS_Singleton
<1>2. IsFiniteSet(1..n) /\ Cardinality(1..n) = n
  BY FS_Interval
<1>3. IsFiniteSet(Permits(s, n)) /\ Cardinality(Permits(s, n)) = Cardinality({s}) * Cardinality(1..n)
  BY <1>1, <1>2, FS_Product DEF Permits
<1> QED
  BY <1>1, <1>2, <1>3

LEMMA JobsFinite ==
    /\ IsFiniteSet(Jobs) /\ \A S \in SUBSET Jobs : IsFiniteSet(S) /\ Cardinality(S) \in Nat
<1>1. IsFiniteSet(Jobs)
  BY FS_Interval, SlotsAssumption DEF Jobs
<1> QED
  BY <1>1, FS_Subset, FS_CardinalityType

\* A call goes from the permits it held to m of them.
LEMMA HeldMoves ==
    ASSUME CallShape, IsFiniteSet(Held), NEW s \in Spawners, NEW m \in 0..MaxJobs,
           spawn'[s].held = m, \A t \in Spawners \ {s} : spawn'[t].held = spawn[t].held
    PROVE /\ IsFiniteSet(Held') /\ Cardinality(Held') \in Nat /\ Cardinality(Held) \in Nat
          /\ Cardinality(Held') = Cardinality(Held) - spawn[s].held + m
<1> DEFINE others == {p \in Held : p[1] # s}
           n == spawn[s].held
<1>0. MaxJobs \in Nat /\ n \in 0..MaxJobs /\ n \in Nat /\ m \in Nat
  BY SlotsAssumption DEF CallShape
<1>1. Held = others \cup Permits(s, n)
  <2>1. Held \subseteq others \cup Permits(s, n)
    BY <1>0 DEF Held, Permits
  <2>2. Permits(s, n) \subseteq Held
    BY <1>0 DEF Held, Permits
  <2> QED
    BY <2>1, <2>2
<1>2. Held' = others \cup Permits(s, m)
  <2>1. Held' \subseteq others \cup Permits(s, m)
    BY <1>0 DEF Held, Permits
  <2>2. Permits(s, m) \subseteq Held'
    BY <1>0 DEF Held, Permits
  <2>3. others \subseteq Held'
    BY DEF Held
  <2> QED
    BY <2>1, <2>2, <2>3
<1>3. others \cap Permits(s, n) = {} /\ others \cap Permits(s, m) = {}
  BY DEF Permits
<1>4. IsFiniteSet(others) /\ Cardinality(others) \in Nat
  BY FS_Subset, FS_CardinalityType
<1> HIDE DEF others, n
<1>5. IsFiniteSet(Held) /\ Cardinality(Held) = Cardinality(others) + n
  <2>1. IsFiniteSet(Permits(s, n)) /\ Cardinality(Permits(s, n)) = n
    BY <1>0, PermitsCount
  <2>2. Cardinality(Held) = Cardinality(others) + n - Cardinality({})
    BY <1>1, <1>3, <1>4, <2>1, FS_Union
  <2> QED
    BY <1>0, <1>4, <2>2, FS_EmptySet
<1>6. IsFiniteSet(others \cup Permits(s, m)) /\ Cardinality(others \cup Permits(s, m)) = Cardinality(others) + m
  <2>1. IsFiniteSet(Permits(s, m)) /\ Cardinality(Permits(s, m)) = m
    BY <1>0, PermitsCount
  <2>2. /\ IsFiniteSet(others \cup Permits(s, m))
        /\ Cardinality(others \cup Permits(s, m)) = Cardinality(others) + m - Cardinality({})
    BY <1>3, <1>4, <2>1, FS_Union
  <2> QED
    BY <1>0, <1>4, <2>2, FS_EmptySet
<1> QED
  BY <1>0, <1>2, <1>4, <1>5, <1>6 DEF n

\* The steps that leave the permits and the living tasks where they are.
LEMMA SlotsKept ==
    ASSUME SlotInv, UNCHANGED free, Occupied' = Occupied,
           \A t \in Spawners : spawn'[t].held = spawn[t].held
    PROVE SlotsAdd'
<1>1. Held' = Held
  BY DEF Held
<1> QED
  BY <1>1 DEF SlotInv, SlotsAdd

LEMMA InitSlotInv == Init => SlotInv
<1> SUFFICES ASSUME Init PROVE SlotInv
  OBVIOUS
<1>1. CallShape
  BY SlotsAssumption DEF Init, CallShape, NoSpawn
<1>2. Held = {}
  BY DEF Init, Held, NoSpawn
<1>3. Occupied = {}
  BY DEF Init, Occupied, Alive
<1>4. free = MaxJobs /\ MaxJobs \in Nat
  BY SlotsAssumption DEF Init
<1> QED
  BY <1>1, <1>2, <1>3, <1>4, FS_EmptySet DEF SlotInv, SlotsAdd

LEMMA SpawnSlotInv ==
    ASSUME DInv, SlotInv, NEW s \in Spawners, SpawnCall(s) \/ SpawnStep(s)
    PROVE SlotInv'
<1>0. /\ spawn[s] \in SpawnCalls /\ spawn \in [Spawners -> SpawnCalls]
      /\ task \in [Jobs -> Tasks]
      /\ MaxJobs \in Nat \ {0} /\ free \in Nat /\ spawn[s].held \in 0..MaxJobs
      /\ spawn[s].want \in 0..MaxJobs /\ spawn[s].prepared \in SUBSET Jobs
  BY SlotsAssumption DEF DInv, Shapes, SpawnCalls, SlotInv, SlotsAdd, CallShape
<1>c. Cardinality(Held) \in Nat /\ Cardinality(Occupied) \in Nat
  BY JobsFinite, FS_CardinalityType DEF SlotInv, SlotsAdd, Occupied
<1>n. NoSpawn.pc = "idle" /\ NoSpawn.held = 0 /\ NoSpawn.want = 0 /\ NoSpawn.prepared = {}
  BY DEF NoSpawn
<1>k. ASSUME NEW call \in SpawnCalls, spawn' = [spawn EXCEPT ![s] = call],
             call.held \in 0..MaxJobs, call.want \in 0..MaxJobs,
             call.pc = "idle" => call.held = 0,
             call.pc = "take" => call.held < call.want /\ call.prepared = {},
             call.pc = "prepare" => call.held = call.want /\ call.want > 0,
             call.pc = "start" => call.held > 0 /\ call.held = Cardinality(call.prepared)
      PROVE  CallShape' /\ spawn'[s] = call /\ \A t \in Spawners \ {s} : spawn'[t] = spawn[t]
  BY <1>0, <1>k DEF SlotInv, CallShape
<1>z. NoSpawn \in SpawnCalls /\ 0 \in 0..MaxJobs
  BY <1>0 DEF NoSpawn, SpawnCalls
\* The call returns its permits and forgets its jobs.
<1>g. ASSUME spawn' = [spawn EXCEPT ![s] = NoSpawn], free' = free + spawn[s].held,
             Occupied' = Occupied
      PROVE  SlotInv'
  <2>1. CallShape' /\ spawn'[s] = NoSpawn /\ \A t \in Spawners \ {s} : spawn'[t] = spawn[t]
    BY <1>g, <1>k, <1>n, <1>z
  <2>2. /\ IsFiniteSet(Held') /\ Cardinality(Held') \in Nat
        /\ Cardinality(Held') = Cardinality(Held) - spawn[s].held + 0
    BY <1>n, <1>z, <2>1, HeldMoves DEF SlotInv, SlotsAdd
  <2> QED
    BY <1>0, <1>c, <1>g, <2>1, <2>2 DEF SlotInv, SlotsAdd
<1>1. CASE SpawnCall(s)
  <2>1. PICK n \in 1..MaxJobs :
            spawn' = [spawn EXCEPT ![s].pc = "take", ![s].want = n]
    BY <1>1 DEF SpawnCall
  <2>2. spawn[s] = NoSpawn /\ UNCHANGED <<free, task>>
    BY <1>1 DEF SpawnCall
  <2>3. PICK call \in SpawnCalls :
            /\ call = [spawn[s] EXCEPT !.pc = "take", !.want = n]
            /\ call.pc = "take" /\ call.want = n /\ call.held = 0 /\ call.prepared = {}
    <3>1. n \in Int
      BY <1>0
    <3>2. [spawn[s] EXCEPT !.pc = "take", !.want = n] \in SpawnCalls
      BY <1>0, <3>1 DEF SpawnCalls
    <3> QED
      BY <1>0, <1>n, <2>2, <3>2 DEF SpawnCalls
  <2>4. spawn' = [spawn EXCEPT ![s] = call]
    BY <2>1, <2>3
  <2>5. CallShape' /\ spawn'[s] = call /\ \A t \in Spawners \ {s} : spawn'[t] = spawn[t]
    <3>1. call.held \in 0..MaxJobs /\ call.want \in 0..MaxJobs /\ call.held < call.want
      BY <1>0, <2>3
    <3> QED
      BY <1>k, <2>3, <2>4, <3>1
  <2>6. \A t \in Spawners : spawn'[t].held = spawn[t].held
    BY <1>n, <2>2, <2>3, <2>5
  <2>7. SlotsAdd'
    BY <2>2, <2>6, SlotsKept DEF Occupied
  <2> QED
    BY <2>5, <2>7 DEF SlotInv
<1>2. CASE SpawnTake(s)
  <2>0. Occupied' = Occupied
    BY <1>2 DEF SpawnTake, Occupied
  <2>1. CASE SlotFree
    <3> DEFINE pc == IF spawn[s].held + 1 = spawn[s].want THEN "prepare" ELSE "take"
    <3>1. free > 0 /\ free' = free - 1 /\ spawn[s].held < spawn[s].want /\ spawn[s].prepared = {}
      BY <1>2, <2>1 DEF SpawnTake, SlotFree, SlotInv, CallShape
    <3>2. PICK call \in SpawnCalls :
              /\ spawn' = [spawn EXCEPT ![s] = call]
              /\ call.held = spawn[s].held + 1 /\ call.pc = pc
              /\ call.want = spawn[s].want /\ call.prepared = {}
      <4>1. spawn' = [spawn EXCEPT ![s] =
                       [spawn[s] EXCEPT !.held = spawn[s].held + 1, !.pc = pc]]
        BY <1>0, <1>2, <2>1 DEF SpawnTake, SpawnCalls
      <4>2. pc \in {"prepare", "take"}
        OBVIOUS
      <4> DEFINE h == spawn[s].held + 1
      <4>3. h \in Int
        BY <1>0
      <4> HIDE DEF pc, h
      <4>4. [spawn[s] EXCEPT !.held = h, !.pc = pc] \in SpawnCalls
        BY <1>0, <4>2, <4>3 DEF SpawnCalls
      <4> QED
        BY <1>0, <3>1, <4>1, <4>4 DEF SpawnCalls, h
    <3>3. /\ call.held \in 0..MaxJobs /\ call.want \in 0..MaxJobs /\ call.want > 0
          /\ call.pc = "prepare" => call.held = call.want
          /\ call.pc = "take" => call.held < call.want
          /\ call.pc \in {"prepare", "take"}
      BY <1>0, <3>1, <3>2
    <3>4. CallShape' /\ spawn'[s] = call /\ \A t \in Spawners \ {s} : spawn'[t] = spawn[t]
      BY <1>k, <3>2, <3>3
    <3>5. /\ IsFiniteSet(Held') /\ Cardinality(Held') \in Nat
          /\ Cardinality(Held') = Cardinality(Held) - spawn[s].held + call.held
      BY <3>3, <3>4, HeldMoves DEF SlotInv, SlotsAdd
    <3> QED
      BY <1>0, <1>c, <2>0, <3>1, <3>2, <3>4, <3>5 DEF SlotInv, SlotsAdd
  <2>2. CASE ~SlotFree
    BY <1>2, <1>g, <2>0, <2>2 DEF SpawnTake
  <2> QED
    BY <2>1, <2>2
<1>3. CASE SpawnPrepare(s)
  <2>1. PICK j \in Jobs :
            /\ task[j] = "none"
            /\ task' = [task EXCEPT ![j] = "prepared"]
            /\ spawn' = [spawn EXCEPT
                 ![s].prepared = @ \cup {j},
                 ![s].pc = IF Cardinality(spawn[s].prepared \cup {j}) = spawn[s].want
                           THEN "start" ELSE "prepare"]
    BY <1>3 DEF SpawnPrepare, Lowest
  <2>2. UNCHANGED free /\ spawn[s].held = spawn[s].want /\ spawn[s].want > 0
    BY <1>3 DEF SpawnPrepare, SlotInv, CallShape
  <2> DEFINE jobs == spawn[s].prepared \cup {j}
             pc == IF Cardinality(jobs) = spawn[s].want THEN "start" ELSE "prepare"
  <2>3. PICK call \in SpawnCalls :
            /\ spawn' = [spawn EXCEPT ![s] = call]
            /\ call.held = spawn[s].held /\ call.want = spawn[s].want
            /\ call.prepared = jobs /\ call.pc = pc
    <3>1. spawn' = [spawn EXCEPT ![s] = [spawn[s] EXCEPT !.prepared = jobs, !.pc = pc]]
      BY <2>1
    <3>2. pc \in {"prepare", "start"} /\ jobs \in SUBSET Jobs
      BY <1>0
    <3> HIDE DEF pc, jobs
    <3>3. [spawn[s] EXCEPT !.prepared = jobs, !.pc = pc] \in SpawnCalls
      BY <1>0, <3>2 DEF SpawnCalls
    <3> QED
      BY <1>0, <3>1, <3>3 DEF SpawnCalls
  <2>4. CallShape' /\ spawn'[s] = call /\ \A t \in Spawners \ {s} : spawn'[t] = spawn[t]
    BY <1>0, <1>k, <2>2, <2>3
  <2>5. Occupied' = Occupied
    BY <1>0, <2>1 DEF Occupied, Alive
  <2>6. SlotsAdd'
    BY <2>2, <2>3, <2>4, <2>5, SlotsKept
  <2> QED
    BY <2>4, <2>6 DEF SlotInv
<1>4. CASE SpawnFails(s)
  <2>1. Occupied' = Occupied
    BY <1>0, <1>4 DEF SpawnFails, Occupied, Alive, DInv, PreparedApart
  <2> QED
    BY <1>4, <1>g, <2>1 DEF SpawnFails
<1>5. CASE SpawnStart(s)
  <2>1. PICK j \in Jobs :
            /\ j \in spawn[s].prepared
            /\ task' = [task EXCEPT ![j] = "run"]
            /\ spawn' = [spawn EXCEPT
                 ![s] = IF spawn[s].prepared = {j} THEN NoSpawn
                        ELSE [spawn[s] EXCEPT !.prepared = spawn[s].prepared \ {j},
                                              !.held = spawn[s].held - 1]]
    BY <1>5 DEF SpawnStart, Lowest
  <2>2. /\ UNCHANGED free /\ spawn[s].pc = "start" /\ spawn[s].held > 0
        /\ spawn[s].held = Cardinality(spawn[s].prepared)
    BY <1>5 DEF SpawnStart, SlotInv, CallShape
  <2>3. IsFiniteSet(spawn[s].prepared) /\ Cardinality(spawn[s].prepared) \in Nat
    BY <1>0, JobsFinite
  <2> DEFINE left == spawn[s].prepared \ {j}
             held == spawn[s].held - 1
             rest == [spawn[s] EXCEPT !.prepared = left, !.held = held]
  <2>4. IsFiniteSet(left) /\ Cardinality(left) = held
    BY <2>1, <2>2, <2>3, FS_RemoveElement
  <2>5. held \in 0..MaxJobs /\ held \in Int /\ left \in SUBSET Jobs
    BY <1>0, <2>2
  <2>6. rest \in SpawnCalls /\ rest.prepared = left /\ rest.held = held
        /\ rest.pc = "start" /\ rest.want = spawn[s].want
    <3> HIDE DEF left, held
    <3> QED
      BY <1>0, <2>2, <2>5 DEF SpawnCalls
  <2>7. PICK call \in SpawnCalls :
            /\ spawn' = [spawn EXCEPT ![s] = call]
            /\ call = IF left = {} THEN NoSpawn ELSE rest
    <3>1. spawn[s].prepared = {j} <=> left = {}
      BY <2>1
    <3> HIDE DEF rest
    <3> QED
      BY <1>z, <2>1, <2>6, <3>1 DEF rest
  <2>8. call.held = held
    <3>1. left = {} => held = 0
      BY <2>4, FS_EmptySet
    <3> HIDE DEF rest, left, held
    <3> QED
      BY <1>n, <2>6, <2>7, <3>1
  <2>9. CallShape' /\ spawn'[s] = call /\ \A t \in Spawners \ {s} : spawn'[t] = spawn[t]
    <3>1. CASE left = {}
      BY <1>k, <1>n, <1>z, <2>7, <3>1
    <3>2. CASE left # {}
      <4>1. held > 0
        <5>1. Cardinality(left) # 0
          BY <2>4, <3>2, FS_EmptySet
        <5> QED
          BY <2>4, <2>5, <5>1
      <4> HIDE DEF rest, left, held
      <4>2. call = rest
        BY <2>7, <3>2
      <4> QED
        BY <1>0, <1>k, <2>4, <2>5, <2>6, <2>7, <4>1, <4>2
    <3> QED
      BY <3>1, <3>2
  <2>10. IsFiniteSet(Held') /\ Cardinality(Held') = Cardinality(Held) - 1
    <3>1. Cardinality(Held') = Cardinality(Held) - spawn[s].held + held /\ IsFiniteSet(Held')
      <4> HIDE DEF held
      <4> QED
        BY <2>5, <2>8, <2>9, HeldMoves DEF SlotInv, SlotsAdd
    <3> QED
      BY <1>0, <1>c, <3>1
  <2>11. Cardinality(Occupied') = Cardinality(Occupied) + 1
    <3>1. Occupied' = Occupied \cup {j}
      BY <1>0, <2>1 DEF Occupied, Alive
    <3>2. j \notin Occupied
      BY <2>1 DEF Occupied, Alive, DInv, PreparedApart
    <3>3. IsFiniteSet(Occupied)
      BY JobsFinite DEF Occupied
    <3> QED
      BY <3>1, <3>2, <3>3, FS_AddElement
  <2> QED
    BY <1>0, <1>c, <2>2, <2>9, <2>10, <2>11 DEF SlotInv, SlotsAdd
<1> QED
  BY <1>1, <1>2, <1>3, <1>4, <1>5 DEF SpawnStep

LEMMA NextSlotInv == DInv /\ SlotInv /\ [Next]_vars => SlotInv'
<1> SUFFICES ASSUME DInv, SlotInv, [Next]_vars PROVE SlotInv'
  OBVIOUS
<1>0. task \in [Jobs -> Tasks] /\ free \in Nat
  BY DEF DInv, Shapes, SlotInv, SlotsAdd
<1>1. CASE \E s \in Spawners : SpawnCall(s) \/ SpawnStep(s)
  BY <1>1, SpawnSlotInv
<1>k. ASSUME UNCHANGED <<spawn, free>>, Occupied' = Occupied PROVE SlotInv'
  <2>1. CallShape'
    BY <1>k DEF SlotInv, CallShape
  <2> QED
    BY <1>k, <2>1, SlotsKept DEF SlotInv
<1>2. ASSUME NEW j \in Jobs, SlotReturns(j) PROVE SlotInv'
  <2>1. Occupied' = Occupied \ {j} /\ j \in Occupied
    BY <1>0, <1>2 DEF SlotReturns, Occupied, Alive
  <2>2. IsFiniteSet(Occupied)
    BY JobsFinite DEF Occupied
  <2>3. Cardinality(Occupied') = Cardinality(Occupied) - 1
    BY <2>1, <2>2, FS_RemoveElement
  <2>4. Held' = Held /\ CallShape' /\ free' = free + 1
    BY <1>2 DEF SlotReturns, Held, SlotInv, CallShape
  <2>5. Cardinality(Held) \in Nat /\ Cardinality(Occupied) \in Nat
    BY <2>2, FS_CardinalityType DEF SlotInv, SlotsAdd
  <2> QED
    BY <1>0, <2>3, <2>4, <2>5 DEF SlotInv, SlotsAdd
<1>3. ASSUME NEW j \in Jobs, RunReturns(j) \/ Finish(j) PROVE SlotInv'
  <2>1. UNCHANGED <<spawn, free>> /\ Occupied' = Occupied
    BY <1>0, <1>3 DEF RunReturns, Finish, Occupied, Alive
  <2> QED
    BY <1>k, <2>1
<1>4. CASE UNCHANGED <<spawn, free, task>>
  BY <1>4, <1>k DEF Occupied
<1>5. ASSUME NEW w \in Waiters, WaitStep(w) \/ \E ids \in IdLists : WaitCall(w, ids)
      PROVE UNCHANGED <<spawn, free, task>>
  BY <1>5 DEF WaitStep, WaitCall, WaitLook, WaitPark, WaitWakes, WaitTimesOut
<1>6. ASSUME NEW ids \in IdLists, Cancel(ids) PROVE UNCHANGED <<spawn, free, task>>
  BY <1>6 DEF Cancel
<1>7. ASSUME NEW j \in Jobs, ToolReturns(j) \/ RelayEnds(j) PROVE UNCHANGED <<spawn, free, task>>
  BY <1>7 DEF ToolReturns, RelayEnds
<1>8. ASSUME ParentEnds \/ ParentDelivers \/ UNCHANGED vars PROVE UNCHANGED <<spawn, free, task>>
  BY <1>8 DEF ParentEnds, ParentDelivers, vars
<1> QED
  BY <1>1, <1>2, <1>3, <1>4, <1>5, <1>6, <1>7, <1>8 DEF Next, TaskStep

LEMMA SlotInvHolds == Spec => []SlotInv
BY DInvHolds, InitSlotInv, NextSlotInv, PTL DEF Spec

\* However many spawn calls race for the slots, are refused, fail half-way or are
\* cancelled, at most MaxJobs tasks are alive: each has the permit that its spawn
\* call took (try_acquire_slots) until its future ends, so a cancelled job that
\* is still winding down counts.
THEOREM SlotsBound == Spec => []SlotsBoundTasks
<1>1. SlotInv => SlotsBoundTasks
  <2> SUFFICES ASSUME SlotInv PROVE Cardinality(Occupied) <= MaxJobs
    BY DEF SlotsBoundTasks, Occupied
  <2>1. Cardinality(Held) \in Nat /\ Cardinality(Occupied) \in Nat
    BY JobsFinite, FS_CardinalityType DEF SlotInv, SlotsAdd, Occupied
  <2> QED
    BY <2>1, SlotsAssumption DEF SlotInv, SlotsAdd
<1> QED
  BY <1>1, SlotInvHolds, PTL


-----------------------------------------------------------------------------
(* Type correctness.                                                        *)

Channels ==
    /\ senders \in [Jobs -> SUBSET {"own", "catalog", "browser", "tool"}]
    /\ relay \in [Jobs -> {"none", "open", "closed"}]
    /\ parent \in {"run", "ended", "delivered"}

LEMMA ChannelsHold == Spec => []Channels
<1>1. Init => Channels
  BY DEF Init, Channels
<1>2. Channels /\ [Next]_vars => Channels'
  <2> SUFFICES ASSUME Channels, [Next]_vars PROVE Channels'
    OBVIOUS
  <2>1. ASSUME NEW s \in Spawners, SpawnCall(s) \/ SpawnStep(s) PROVE Channels'
    <3>1. CASE SpawnPrepare(s)
      <4>1. PICK j \in Jobs :
                /\ relay' = [relay EXCEPT ![j] = "open"]
                /\ senders' = [senders EXCEPT ![j] =
                     {"own", "catalog"} \cup (IF Browser THEN {"browser"} ELSE {})]
        BY <3>1 DEF SpawnPrepare
      <4>2. {"own", "catalog"} \cup (IF Browser THEN {"browser"} ELSE {})
               \in SUBSET {"own", "catalog", "browser", "tool"}
        OBVIOUS
      <4>3. parent' = parent
        BY <3>1 DEF SpawnPrepare
      <4> QED
        BY <4>1, <4>2, <4>3 DEF Channels
    <3>2. CASE SpawnFails(s)
      BY <3>2 DEF SpawnFails, Channels
    <3> QED
      BY <2>1, <3>1, <3>2 DEF SpawnCall, SpawnStep, SpawnTake, SpawnStart, Channels
  <2>2. ASSUME NEW w \in Waiters, WaitStep(w) \/ \E ids \in IdLists : WaitCall(w, ids)
        PROVE Channels'
    BY <2>2 DEF WaitStep, WaitCall, WaitLook, WaitPark, WaitWakes, WaitTimesOut, Channels
  <2>3. ASSUME NEW ids \in IdLists, Cancel(ids) PROVE Channels'
    BY <2>3 DEF Cancel, Channels
  <2>4. ASSUME NEW j \in Jobs, TaskStep(j) \/ ToolReturns(j) \/ RelayEnds(j) PROVE Channels'
    BY <2>4 DEF TaskStep, RunReturns, Finish, SlotReturns, ToolReturns, RelayEnds,
       HeldAfterRun, Channels
  <2>5. CASE ParentEnds \/ ParentDelivers \/ UNCHANGED vars
    BY <2>5 DEF ParentEnds, ParentDelivers, vars, Channels
  <2> QED
    BY <2>1, <2>2, <2>3, <2>4, <2>5 DEF Next
<1> QED
  BY <1>1, <1>2, PTL DEF Spec

\* Every reachable state of the store, the spawn and wait calls, the relays and
\* the parent is well typed; in particular the semaphore never holds more than
\* MaxJobs permits, whatever is returned to it.
THEOREM TypeCorrect == Spec => []TypeOK
<1>1. DInv /\ SlotInv /\ Channels => TypeOK
  <2> SUFFICES ASSUME DInv, SlotInv, Channels PROVE TypeOK
    OBVIOUS
  <2>1. free \in 0..MaxJobs
    <3>1. Cardinality(Held) \in Nat /\ Cardinality(Occupied) \in Nat
      BY JobsFinite, FS_CardinalityType DEF SlotInv, SlotsAdd, Occupied
    <3> QED
      BY <3>1, SlotsAssumption DEF SlotInv, SlotsAdd
  <2>2. spawn \in [Spawners -> [pc : {"idle", "take", "prepare", "start"},
                                want : 0..MaxJobs, held : 0..MaxJobs,
                                prepared : SUBSET Jobs]]
    BY DEF DInv, Shapes, SpawnCalls, SlotInv, CallShape
  <2>3. /\ job \in [Jobs -> Records]
        /\ task \in [Jobs -> {"none", "prepared", "dropped", "done"} \cup Alive]
        /\ outcome \in [Jobs -> {"none"} \cup Final]
        /\ wait \in [Waiters -> [pc : {"idle", "look", "looked", "parked"},
                                 ids : SUBSET Jobs, woken : BOOLEAN]]
    BY DEF DInv, Shapes, Tasks, Alive, Final, WaitCalls
  <2> QED
    BY <2>1, <2>2, <2>3 DEF TypeOK, Channels
<1> QED
  BY <1>1, DInvHolds, SlotInvHolds, ChannelsHold, PTL
=============================================================================
