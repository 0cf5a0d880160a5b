--------------------------- MODULE WebTasksProofs ---------------------------
(***************************************************************************)
(* Proofs about WebTasks for any number of tasks, requests, faults and       *)
(* restarts, when requests come one after the other (~Overlap) and no writer *)
(* comes between a load of a record and its save (~Interleave).              *)
(***************************************************************************)
EXTENDS WebTasks, TLAPS

\* A run is registered with the manager and not through.
Registered == {"registered", "recorded"} \cup InOuter \cup Locking \cup Persisting
Ended == {"done", "lost"}
CancelBusy == {"loaded", "saved", "cleared", "signalled"}

\* Until its task's cancel has aborted it, a registered run holds the session.
Holds(r) == phase[r] \in Registered /\ cancel[taskOf[r]] # "done"

-----------------------------------------------------------------------------
(* The parts of the inductive invariant.                                    *)

\* A run that has begun has a task, and no other run of that task is under way.
RunsApart ==
    /\ \A r \in Runs : phase[r] # "none" => taskOf[r] \in Tasks
    /\ \A r \in Runs : phase[r] = "none" => taskOf[r] = NoTask
    /\ \A r, s \in Runs :
         taskOf[r] = taskOf[s] /\ taskOf[r] # NoTask /\ r # s =>
             phase[r] \in Ended \/ phase[s] \in Ended

\* At most one request, cancel or background save of the session is in flight.
OneRequest ==
    /\ \A r, s \in Runs :
         phase[r] \in Requested /\ phase[s] \in Requested => r = s
    /\ \A t, u \in Tasks :
         cancel[t] \in CancelBusy /\ cancel[u] \in CancelBusy => t = u
    /\ \A t, u \in Tasks : t \in late /\ u \in late => t = u
    /\ \A r \in Runs, t \in Tasks :
         phase[r] \in Requested => cancel[t] \notin CancelBusy /\ t \notin late
    /\ \A t, u \in Tasks : t \in late => cancel[u] \notin CancelBusy

\* A record and a cancel belong to a task that some run has created.
Known(t) == \E r \in Runs : taskOf[r] = t
RecordsKnown ==
    \A t \in Tasks : record[t] # "none" \/ cancel[t] # "none" => Known(t)

\* What a request under way has found holds until it writes the record.
CreateFresh ==
    \A r \in Runs \ resumed :
        phase[r] \in {"checked", "snapshotted", "registered"} =>
            /\ record[taskOf[r]] = "none"
            /\ \A s \in Runs : taskOf[s] = taskOf[r] => s = r
ResumeWaiting ==
    /\ \A r \in Runs : phase[r] = "recorded" => r \in resumed
    /\ \A r \in resumed :
         /\ phase[r] \in {"checked", "registered"} => record[taskOf[r]] = "waiting"
         /\ phase[r] = "recorded" => record[taskOf[r]] = "running"
         /\ phase[r] \notin {"none", "snapshotted"}

\* A cancelled record is never loaded for an update, and a cancel saves before
\* it signals; what is only in the cache is running.
Final ==
    /\ \A r \in Runs : phase[r] = "loaded" => record[taskOf[r]] # "cancelled"
    /\ \A r \in Runs, t \in Tasks : phase[r] = "loaded" => cancel[t] # "loaded"
    /\ \A t \in Tasks : cancel[t] \in {"saved", "cleared", "signalled", "done"} =>
                            record[t] = "cancelled"
    /\ \A t \in unflushed : record[t] = "running"
    /\ \A r \in Runs : phase[r] \in {"spawned", "handled", "probing"} \cup Locking =>
           record[taskOf[r]] \in {"running", "cancelled"}
    /\ \A r \in Runs : phase[r] \in Persisting => outcome[r] # "none"

\* One run holds the session: the runtime maps say so until its cancel signals,
\* the session's token is its own, and nobody holds it while a create or a
\* resume is only checked.
OneHolder ==
    /\ \A r, s \in Runs : Holds(r) /\ Holds(s) => r = s
    /\ \A r \in Runs : Holds(r) /\ cancel[taskOf[r]] # "signalled" =>
           taskOf[r] \in running /\ meta[taskOf[r]] = "running"
    /\ \A r, s \in Runs : phase[r] \in {"checked", "snapshotted"} => ~Holds(s)
    /\ \A r \in Runs : Holds(r) => token = r
    /\ \A t \in Tasks : cancel[t] \in {"signalled", "done"} => t \notin running

\* The session record points to a waiting task only if that is the task of the
\* run that holds the session, and of the request or save in flight.
ActiveWaiting == active # NoTask /\ record[active] = "waiting"
WaitingIsHolders ==
    /\ \A r \in Runs : Holds(r) \/ phase[r] \in Requested =>
           (ActiveWaiting => active = taskOf[r])
    /\ \A t \in late : ActiveWaiting => active = t
    /\ \A t \in late, r \in Runs : Holds(r) => taskOf[r] = t

\* The token of a run is the one its executor's session works with, and it is
\* cancelled once its task's cancel has signalled.
TokensReach ==
    \A r \in Runs :
        /\ phase[r] \in {"handled", "probing"} \cup Locking => held[r] = r
        /\ phase[r] \in {"probing"} \cup Locking => installed = r
        /\ phase[r] \in {"spawned", "handled", "probing"} \cup Locking
           /\ cancel[taskOf[r]] \in {"signalled", "done"} => r \in cancelled
        /\ phase[r] \in Requested \cup InOuter => cancel[taskOf[r]] # "done"

\* Who keeps the runtime maps busy.
BusyForAReason ==
    \A t \in running : meta[t] = "running" =>
        \E r \in Runs :
            /\ taskOf[r] = t
            /\ \/ phase[r] \in Registered
               \/ /\ phase[r] = "lost"
                  /\ \/ r \notin resumed
                     \/ record[t] \in ActiveStatus
                     \/ record[t] = "cancelled" /\ cancel[t] \in CancelBusy \cup {"lost"}

\* Without faults, restarts and cancels an active record is the holder's, or
\* the waiting one the session points to.
CalmRecords ==
    Calm =>
      /\ cancelled = {}
      /\ \A r \in Runs : outcome[r] # "cancelled"
      /\ \A r \in Runs : phase[r] = "settling" => record[taskOf[r]] # "running"
      /\ \A t \in Tasks :
        /\ record[t] = "running" => \E r \in Runs : taskOf[r] = t /\ Holds(r)
        /\ record[t] = "waiting" =>
             active = t \/ \E r \in Runs : taskOf[r] = t /\ phase[r] = "saved"
        /\ record[t] # "cancelled"
SavedOutcome ==
    \A r \in Runs : phase[r] = "saved" =>
        record[taskOf[r]] \in {outcome[r], "cancelled"} \cup
            (IF outcome[r] = "refused" THEN {"failed"} ELSE {})

WInv ==
    /\ TypeOK /\ RunsApart /\ OneRequest /\ RecordsKnown /\ CreateFresh
    /\ ResumeWaiting /\ Final /\ OneHolder /\ WaitingIsHolders /\ TokensReach
    /\ BusyForAReason /\ CalmRecords /\ SavedOutcome

-----------------------------------------------------------------------------
(* Every action preserves the invariant.                                    *)

USE NamesAssumption, BoundsAssumption
    DEF Registered, Ended, CancelBusy, Holds, Requested, InOuter, Locking,
        Persisting, ActiveStatus, Goto, store, runtime, agent, request, bounds

LEMMA CheckCreateW ==
    ASSUME WInv, ~Overlap, ~Interleave, NEW r \in Runs, NEW t \in Tasks,
           CheckCreate(r, t)
    PROVE  WInv'
<1> USE DEF WInv, CheckCreate, MayRequest, InFlight, Rejects,
      RuntimeBusy
<1>1. (TypeOK /\ OneRequest /\ ResumeWaiting /\ Final /\ WaitingIsHolders /\
      BusyForAReason /\ CalmRecords /\ SavedOutcome)'
  BY DEF TypeOK, RecordStatus, MetaStatus, Phase, Outcome, CancelPhase,
     OneRequest, ResumeWaiting, Final, WaitingIsHolders, ActiveWaiting,
     BusyForAReason, CalmRecords, Calm, SavedOutcome
<1>2. RunsApart'
  BY DEF RunsApart, TypeOK, RecordStatus, MetaStatus, Phase, Outcome,
     CancelPhase
<1>3. (RecordsKnown /\ OneHolder)'
  BY DEF RecordsKnown, Known, OneHolder, RunsApart
<1>4. (CreateFresh /\ TokensReach)'
  BY DEF CreateFresh, TokensReach, TypeOK, RecordStatus, MetaStatus, Phase,
     Outcome, CancelPhase, RecordsKnown, Known
<1> QED BY <1>1, <1>2, <1>3, <1>4 DEF WInv

LEMMA CheckResumeW ==
    ASSUME WInv, ~Overlap, ~Interleave, NEW r \in Runs, NEW t \in Tasks,
           CheckResume(r, t)
    PROVE  WInv'
<1> USE DEF WInv, CheckResume, MayResume, InFlight
<1>1. (TypeOK /\ OneRequest /\ CreateFresh /\ Final /\ BusyForAReason /\
      CalmRecords /\ SavedOutcome)'
  BY DEF TypeOK, RecordStatus, MetaStatus, Phase, Outcome, CancelPhase,
     OneRequest, CreateFresh, Final, BusyForAReason, CalmRecords, Calm,
     SavedOutcome
<1>2. (RunsApart /\ ResumeWaiting /\ WaitingIsHolders)'
  BY DEF RunsApart, ResumeWaiting, WaitingIsHolders, ActiveWaiting, TypeOK,
     RecordStatus, MetaStatus, Phase, Outcome, CancelPhase
<1>3. RecordsKnown'
  BY DEF RecordsKnown, Known, RunsApart
<1>4. OneHolder'
  BY DEF OneHolder, WaitingIsHolders, ActiveWaiting
<1>5. TokensReach'
  BY DEF TokensReach, TypeOK, RecordStatus, MetaStatus, Phase, Outcome,
     CancelPhase, Final
<1> QED BY <1>1, <1>2, <1>3, <1>4, <1>5 DEF WInv

LEMMA SnapshotMemoryW ==
    ASSUME WInv, ~Overlap, ~Interleave, NEW r \in Runs, SnapshotMemory(r)
    PROVE  WInv'
<1> USE DEF WInv, SnapshotMemory, LockFree
<1>1. (TypeOK /\ RunsApart /\ OneRequest /\ RecordsKnown /\ CreateFresh /\
      ResumeWaiting /\ Final /\ OneHolder /\ WaitingIsHolders /\ TokensReach
      /\ BusyForAReason /\ CalmRecords /\ SavedOutcome)'
  BY DEF TypeOK, RecordStatus, MetaStatus, Phase, Outcome, CancelPhase,
     RunsApart, OneRequest, RecordsKnown, Known, CreateFresh, ResumeWaiting,
     Final, OneHolder, WaitingIsHolders, ActiveWaiting, TokensReach,
     BusyForAReason, CalmRecords, Calm, SavedOutcome
<1> QED BY <1>1 DEF WInv

LEMMA RegisterW ==
    ASSUME WInv, ~Overlap, ~Interleave, NEW r \in Runs, Register(r)
    PROVE  WInv'
<1> USE DEF WInv, Register
<1>1. (RunsApart /\ OneRequest /\ RecordsKnown /\ CreateFresh /\ ResumeWaiting
      /\ Final /\ TokensReach /\ CalmRecords /\ SavedOutcome)'
  BY DEF RunsApart, OneRequest, RecordsKnown, Known, CreateFresh,
     ResumeWaiting, Final, TokensReach, CalmRecords, Calm, SavedOutcome
<1>2. TypeOK'
  BY DEF TypeOK, RecordStatus, MetaStatus, Phase, Outcome, CancelPhase,
     RunsApart
<1>3. BusyForAReason'
  BY DEF BusyForAReason, TypeOK, RecordStatus, MetaStatus, Phase, Outcome,
     CancelPhase
<1>4. WaitingIsHolders'
  BY DEF WaitingIsHolders, ActiveWaiting, TypeOK, RecordStatus, MetaStatus,
     Phase, Outcome, CancelPhase, OneRequest
<1>5. OneHolder'
  BY DEF OneHolder, TypeOK, RecordStatus, MetaStatus, Phase, Outcome,
     CancelPhase, RunsApart, OneRequest, TokensReach
<1> QED BY <1>1, <1>2, <1>3, <1>4, <1>5 DEF WInv

LEMMA SpawnCreatedW ==
    ASSUME WInv, ~Overlap, ~Interleave, NEW r \in Runs, SpawnCreated(r)
    PROVE  WInv'
<1> USE DEF WInv, SpawnCreated
<1>1. (RunsApart /\ RecordsKnown /\ OneHolder /\ BusyForAReason)'
  BY DEF RunsApart, RecordsKnown, Known, OneHolder, BusyForAReason
<1>2. TypeOK'
  BY DEF TypeOK, RecordStatus, MetaStatus, Phase, Outcome, CancelPhase,
     RunsApart
<1>3. (OneRequest /\ CreateFresh)'
  BY DEF OneRequest, CreateFresh, TypeOK, RecordStatus, MetaStatus, Phase,
     Outcome, CancelPhase
<1>4. ResumeWaiting'
  BY DEF ResumeWaiting, CreateFresh
<1>5. (WaitingIsHolders /\ CalmRecords /\ SavedOutcome)'
  BY DEF WaitingIsHolders, ActiveWaiting, CalmRecords, Calm, SavedOutcome,
     OneHolder, TokensReach
<1>6. TokensReach'
  BY DEF TokensReach, RunsApart, OneRequest
<1>7. Final'
  BY DEF Final, TypeOK, RecordStatus, MetaStatus, Phase, Outcome, CancelPhase,
     RunsApart, CreateFresh
<1> QED BY <1>1, <1>2, <1>3, <1>4, <1>5, <1>6, <1>7 DEF WInv

LEMMA RecordResumedW ==
    ASSUME WInv, ~Overlap, ~Interleave, NEW r \in Runs, RecordResumed(r)
    PROVE  WInv'
<1> USE DEF WInv, RecordResumed, MayLoad
<1>1. (RunsApart /\ OneRequest /\ RecordsKnown /\ CreateFresh /\ OneHolder /\
      WaitingIsHolders /\ TokensReach /\ BusyForAReason)'
  BY DEF RunsApart, OneRequest, RecordsKnown, Known, CreateFresh, OneHolder,
     WaitingIsHolders, ActiveWaiting, TokensReach, BusyForAReason
<1>2. TypeOK'
  BY DEF TypeOK, RecordStatus, MetaStatus, Phase, Outcome, CancelPhase,
     RunsApart
<1>3. Final'
  BY DEF Final, ResumeWaiting
<1>4. ResumeWaiting'
  BY DEF ResumeWaiting, TypeOK, RecordStatus, MetaStatus, Phase, Outcome,
     CancelPhase, RunsApart
<1>5. (CalmRecords /\ SavedOutcome)'
  BY DEF CalmRecords, Calm, SavedOutcome, OneHolder, TokensReach
<1> QED BY <1>1, <1>2, <1>3, <1>4, <1>5 DEF WInv

LEMMA SpawnResumedW ==
    ASSUME WInv, ~Overlap, ~Interleave, NEW r \in Runs, SpawnResumed(r)
    PROVE  WInv'
<1> USE DEF WInv, SpawnResumed
<1>1. (TypeOK /\ RunsApart /\ OneRequest /\ RecordsKnown /\ CreateFresh /\
      ResumeWaiting /\ OneHolder /\ BusyForAReason /\ SavedOutcome)'
  BY DEF TypeOK, RecordStatus, MetaStatus, Phase, Outcome, CancelPhase,
     RunsApart, OneRequest, RecordsKnown, Known, CreateFresh, ResumeWaiting,
     OneHolder, BusyForAReason, SavedOutcome
<1>2. Final'
  BY DEF Final, ResumeWaiting
<1>3. CalmRecords'
  BY DEF CalmRecords, Calm, WaitingIsHolders, ActiveWaiting
<1>4. WaitingIsHolders'
  BY DEF WaitingIsHolders, ActiveWaiting, OneHolder, TokensReach
<1>5. TokensReach'
  BY DEF TokensReach, RunsApart, OneRequest
<1> QED BY <1>1, <1>2, <1>3, <1>4, <1>5 DEF WInv

LEMMA TakeHandlesW ==
    ASSUME WInv, ~Overlap, ~Interleave, NEW r \in Runs, TakeHandles(r)
    PROVE  WInv'
<1> USE DEF WInv, TakeHandles
<1>1. (TypeOK /\ RunsApart /\ OneRequest /\ RecordsKnown /\ CreateFresh /\
      ResumeWaiting /\ Final /\ OneHolder /\ WaitingIsHolders /\
      BusyForAReason /\ CalmRecords /\ SavedOutcome)'
  BY DEF TypeOK, RecordStatus, MetaStatus, Phase, Outcome, CancelPhase,
     RunsApart, OneRequest, RecordsKnown, Known, CreateFresh, ResumeWaiting,
     Final, OneHolder, WaitingIsHolders, ActiveWaiting, BusyForAReason,
     CalmRecords, Calm, SavedOutcome
<1>2. TokensReach'
  BY DEF TokensReach, TypeOK, RecordStatus, MetaStatus, Phase, Outcome,
     CancelPhase, OneHolder
<1> QED BY <1>1, <1>2 DEF WInv

LEMMA InstallW ==
    ASSUME WInv, ~Overlap, ~Interleave, NEW r \in Runs, Install(r)
    PROVE  WInv'
<1> USE DEF WInv, Install, LockFree
<1>1. (TypeOK /\ RunsApart /\ OneRequest /\ RecordsKnown /\ CreateFresh /\
      ResumeWaiting /\ Final /\ OneHolder /\ WaitingIsHolders /\
      BusyForAReason /\ CalmRecords /\ SavedOutcome)'
  BY DEF TypeOK, RecordStatus, MetaStatus, Phase, Outcome, CancelPhase,
     RunsApart, OneRequest, RecordsKnown, Known, CreateFresh, ResumeWaiting,
     Final, OneHolder, WaitingIsHolders, ActiveWaiting, BusyForAReason,
     CalmRecords, Calm, SavedOutcome
<1>2. TokensReach'
  BY DEF TokensReach, OneHolder
<1> QED BY <1>1, <1>2 DEF WInv

LEMMA ProbeEndsW ==
    ASSUME WInv, ~Overlap, ~Interleave, NEW r \in Runs, ProbeEnds(r)
    PROVE  WInv'
<1> USE DEF WInv, ProbeEnds
<1>1. (TypeOK /\ RecordsKnown)'
  BY DEF TypeOK, RecordStatus, MetaStatus, Phase, Outcome, CancelPhase,
     RecordsKnown, Known
<1>2. (RunsApart /\ OneRequest /\ CreateFresh /\ ResumeWaiting /\ Final /\
      OneHolder /\ WaitingIsHolders /\ TokensReach /\ BusyForAReason /\
      CalmRecords /\ SavedOutcome)'
  BY SMTT(30) DEF RunsApart, OneRequest, CreateFresh, ResumeWaiting, Final, OneHolder,
     WaitingIsHolders, ActiveWaiting, TokensReach, BusyForAReason,
     CalmRecords, Calm, SavedOutcome, TypeOK, RecordStatus, MetaStatus, Phase,
     Outcome, CancelPhase
<1> QED BY <1>1, <1>2 DEF WInv

LEMMA ExecuteW ==
    ASSUME WInv, ~Overlap, ~Interleave, NEW r \in Runs, Execute(r)
    PROVE  WInv'
<1> USE DEF WInv, Execute
<1>1. RecordsKnown'
  BY DEF RecordsKnown, Known
<1>2. (RunsApart /\ OneRequest /\ CreateFresh /\ ResumeWaiting /\ Final /\
      OneHolder /\ WaitingIsHolders /\ TokensReach /\ BusyForAReason /\
      CalmRecords /\ SavedOutcome)'
  BY DEF RunsApart, OneRequest, CreateFresh, ResumeWaiting, Final, OneHolder,
     WaitingIsHolders, ActiveWaiting, TokensReach, BusyForAReason,
     CalmRecords, Calm, SavedOutcome, TypeOK, RecordStatus, MetaStatus, Phase,
     Outcome, CancelPhase
<1>3. TypeOK'
  <2>1. phase' \in [Runs -> Phase] /\ outcome' \in [Runs -> Outcome]
    BY DEF TypeOK, Phase, Outcome
  <2> QED
    BY <2>1 DEF TypeOK
<1> QED BY <1>1, <1>2, <1>3 DEF WInv

LEMMA AgentReturnsW ==
    ASSUME WInv, ~Overlap, ~Interleave, NEW r \in Runs, NEW o \in
           {"completed", "waiting", "failed"}, AgentReturns(r, o)
    PROVE  WInv'
<1> USE DEF WInv, AgentReturns
<1>1. (TypeOK /\ RunsApart /\ OneRequest /\ RecordsKnown /\ CreateFresh /\
      ResumeWaiting /\ OneHolder /\ WaitingIsHolders /\ TokensReach /\
      BusyForAReason /\ CalmRecords /\ SavedOutcome)'
  BY DEF TypeOK, RecordStatus, MetaStatus, Phase, Outcome, CancelPhase,
     RunsApart, OneRequest, RecordsKnown, Known, CreateFresh, ResumeWaiting,
     OneHolder, WaitingIsHolders, ActiveWaiting, TokensReach, BusyForAReason,
     CalmRecords, Calm, SavedOutcome
<1>2. Final'
  BY DEF Final, TypeOK, RecordStatus, MetaStatus, Phase, Outcome, CancelPhase
<1> QED BY <1>1, <1>2 DEF WInv

LEMMA LoadRecordW ==
    ASSUME WInv, ~Overlap, ~Interleave, NEW r \in Runs, LoadRecord(r)
    PROVE  WInv'
<1> USE DEF WInv, LoadRecord, MayLoad
<1>1. (TypeOK /\ RunsApart /\ OneRequest /\ RecordsKnown /\ CreateFresh /\
      ResumeWaiting /\ Final /\ OneHolder /\ WaitingIsHolders /\ TokensReach
      /\ BusyForAReason /\ CalmRecords /\ SavedOutcome)'
  BY DEF TypeOK, RecordStatus, MetaStatus, Phase, Outcome, CancelPhase,
     RunsApart, OneRequest, RecordsKnown, Known, CreateFresh, ResumeWaiting,
     Final, OneHolder, WaitingIsHolders, ActiveWaiting, TokensReach,
     BusyForAReason, CalmRecords, Calm, SavedOutcome
<1> QED BY <1>1 DEF WInv

LEMMA SaveRecordW ==
    ASSUME WInv, ~Overlap, ~Interleave, NEW r \in Runs, SaveRecord(r)
    PROVE  WInv'
<1> USE DEF WInv, SaveRecord
<1>1. (RunsApart /\ OneRequest /\ RecordsKnown /\ CreateFresh /\ OneHolder /\
      TokensReach /\ BusyForAReason)'
  BY DEF RunsApart, OneRequest, RecordsKnown, Known, CreateFresh, OneHolder,
     TokensReach, BusyForAReason
<1>2. TypeOK'
  BY DEF TypeOK, RecordStatus, MetaStatus, Phase, Outcome, CancelPhase,
     RunsApart
<1>3. CalmRecords'
  BY DEF CalmRecords, Calm, TypeOK, RecordStatus, MetaStatus, Phase, Outcome,
     CancelPhase
<1>4. (ResumeWaiting /\ Final /\ SavedOutcome)'
  BY DEF ResumeWaiting, Final, SavedOutcome, TypeOK, RecordStatus, MetaStatus,
     Phase, Outcome, CancelPhase, RunsApart
<1>5. WaitingIsHolders'
  BY DEF WaitingIsHolders, ActiveWaiting, RunsApart, Final, OneHolder,
     TokensReach
<1> QED BY <1>1, <1>2, <1>3, <1>4, <1>5 DEF WInv

LEMMA UpdateSessionW ==
    ASSUME WInv, ~Overlap, ~Interleave, NEW r \in Runs, UpdateSession(r)
    PROVE  WInv'
<1> USE DEF WInv, UpdateSession
<1>1. (TypeOK /\ RunsApart /\ OneRequest /\ RecordsKnown /\ CreateFresh /\
      ResumeWaiting /\ Final /\ OneHolder /\ TokensReach /\ BusyForAReason /\
      SavedOutcome)'
  BY DEF TypeOK, RecordStatus, MetaStatus, Phase, Outcome, CancelPhase,
     RunsApart, OneRequest, RecordsKnown, Known, CreateFresh, ResumeWaiting,
     Final, OneHolder, TokensReach, BusyForAReason, SavedOutcome
<1>2. WaitingIsHolders'
  BY DEF WaitingIsHolders, ActiveWaiting, RunsApart, Final, OneHolder,
     TokensReach
<1>3. CalmRecords'
  BY DEF CalmRecords, Calm, TypeOK, RecordStatus, MetaStatus, Phase, Outcome,
     CancelPhase, RunsApart, WaitingIsHolders, ActiveWaiting, SavedOutcome
<1> QED BY <1>1, <1>2, <1>3 DEF WInv

LEMMA SettleW ==
    ASSUME WInv, ~Overlap, ~Interleave, NEW r \in Runs, Settle(r)
    PROVE  WInv'
<1> USE DEF WInv
<1> DEFINE t == taskOf[r]
<1>0. /\ phase[r] = "settling" /\ phase' = [phase EXCEPT ![r] = "done"]
      /\ UNCHANGED <<store, agent, request, held, outcome, cancel, bounds>>
  BY DEF Settle
<1>1. t \in Tasks /\ outcome[r] \in Outcome \ {"none"}
  BY <1>0 DEF RunsApart, Final, TypeOK
<1>2. /\ running' = running \ {t} /\ token' = token
      /\ \E m \in MetaStatus : meta' = [meta EXCEPT ![t] = m]
      /\ cancelled' \in SUBSET Runs /\ cancelled \subseteq cancelled'
      /\ outcome[r] # "cancelled" => cancelled' = cancelled
  <2>1. CASE outcome[r] = "cancelled"
    BY <1>1, <2>1 DEF Settle, SignalCancel, TypeOK, MetaStatus
  <2>2. CASE outcome[r] \in {"completed", "waiting"}
    BY <1>1, <2>2 DEF Settle, EndTask, TypeOK, MetaStatus
  <2>3. CASE outcome[r] \in {"failed", "refused"}
    BY <1>1, <2>3 DEF Settle, EndTask, TypeOK, MetaStatus
  <2> QED
    BY <1>1, <2>1, <2>2, <2>3 DEF Outcome
<1>3. TypeOK'
  BY <1>0, <1>1, <1>2 DEF TypeOK, Phase
<1>4. (RunsApart /\ OneRequest /\ RecordsKnown /\ CreateFresh /\ ResumeWaiting
       /\ Final /\ WaitingIsHolders /\ SavedOutcome)'
  BY <1>0 DEF RunsApart, OneRequest, RecordsKnown, Known, CreateFresh, ResumeWaiting,
     Final, WaitingIsHolders, ActiveWaiting, SavedOutcome, TypeOK
<1>5. OneHolder'
  BY <1>0, <1>1, <1>2 DEF OneHolder, RunsApart, TypeOK
<1>6. TokensReach'
  BY <1>0, <1>2 DEF TokensReach, TypeOK
<1>7. BusyForAReason'
  BY <1>0, <1>1, <1>2 DEF BusyForAReason, TypeOK
<1>8. CalmRecords'
  BY <1>0, <1>1, <1>2 DEF CalmRecords, Calm, TypeOK, RunsApart, OneHolder
<1> QED
  BY <1>3, <1>4, <1>5, <1>6, <1>7, <1>8

LEMMA RequestLostW ==
    ASSUME WInv, ~Overlap, ~Interleave, NEW r \in Runs, RequestLost(r)
    PROVE  WInv'
<1> USE DEF WInv, RequestLost, Fault
<1>1. (TypeOK /\ RunsApart /\ OneRequest /\ RecordsKnown /\ CreateFresh /\
      ResumeWaiting /\ Final /\ OneHolder /\ WaitingIsHolders /\ TokensReach
      /\ SavedOutcome)'
  BY DEF TypeOK, RecordStatus, MetaStatus, Phase, Outcome, CancelPhase,
     RunsApart, OneRequest, RecordsKnown, Known, CreateFresh, ResumeWaiting,
     Final, OneHolder, WaitingIsHolders, ActiveWaiting, TokensReach,
     SavedOutcome
<1>2. BusyForAReason'
  BY DEF BusyForAReason, ResumeWaiting
<1>3. CalmRecords'
  BY DEF CalmRecords, Calm, TypeOK, RecordStatus, MetaStatus, Phase, Outcome,
     CancelPhase
<1> QED BY <1>1, <1>2, <1>3 DEF WInv

LEMMA PersistFailsW ==
    ASSUME WInv, ~Overlap, ~Interleave, NEW r \in Runs, PersistFails(r)
    PROVE  WInv'
<1> USE DEF WInv, PersistFails, Fault
<1>1. (TypeOK /\ RunsApart /\ OneRequest /\ RecordsKnown /\ CreateFresh /\
      ResumeWaiting /\ Final /\ OneHolder /\ WaitingIsHolders /\ TokensReach
      /\ BusyForAReason /\ SavedOutcome)'
  BY DEF TypeOK, RecordStatus, MetaStatus, Phase, Outcome, CancelPhase,
     RunsApart, OneRequest, RecordsKnown, Known, CreateFresh, ResumeWaiting,
     Final, OneHolder, WaitingIsHolders, ActiveWaiting, TokensReach,
     BusyForAReason, SavedOutcome
<1>2. CalmRecords'
  BY DEF CalmRecords, Calm, TypeOK, RecordStatus, MetaStatus, Phase, Outcome,
     CancelPhase
<1> QED BY <1>1, <1>2 DEF WInv

LEMMA CancelLoadsW ==
    ASSUME WInv, ~Overlap, ~Interleave, NEW t \in Tasks, CancelLoads(t)
    PROVE  WInv'
<1> USE DEF WInv, CancelLoads, CancelTo, MayRequest, MayLoad, InFlight
<1>1. (TypeOK /\ RunsApart /\ OneRequest /\ RecordsKnown /\ CreateFresh /\
      ResumeWaiting /\ Final /\ OneHolder /\ WaitingIsHolders /\ TokensReach
      /\ BusyForAReason /\ CalmRecords /\ SavedOutcome)'
  BY DEF TypeOK, RecordStatus, MetaStatus, Phase, Outcome, CancelPhase,
     RunsApart, OneRequest, RecordsKnown, Known, CreateFresh, ResumeWaiting,
     Final, OneHolder, WaitingIsHolders, ActiveWaiting, TokensReach,
     BusyForAReason, CalmRecords, Calm, SavedOutcome
<1> QED BY <1>1 DEF WInv

LEMMA CancelSavesW ==
    ASSUME WInv, ~Overlap, ~Interleave, NEW t \in Tasks, CancelSaves(t)
    PROVE  WInv'
<1> USE DEF WInv, CancelSaves, CancelTo
<1>1. (TypeOK /\ RunsApart /\ OneRequest /\ RecordsKnown /\ OneHolder /\
      WaitingIsHolders /\ TokensReach /\ BusyForAReason /\ CalmRecords /\
      SavedOutcome)'
  BY DEF TypeOK, RecordStatus, MetaStatus, Phase, Outcome, CancelPhase,
     RunsApart, OneRequest, RecordsKnown, Known, OneHolder, WaitingIsHolders,
     ActiveWaiting, TokensReach, BusyForAReason, CalmRecords, Calm,
     SavedOutcome
<1>2. CreateFresh'
  BY DEF CreateFresh, OneRequest
<1>3. Final'
  BY DEF Final, TypeOK, RecordStatus, MetaStatus, Phase, Outcome, CancelPhase
<1>4. ResumeWaiting'
  BY DEF ResumeWaiting, TypeOK, RecordStatus, MetaStatus, Phase, Outcome,
     CancelPhase, OneRequest
<1> QED BY <1>1, <1>2, <1>3, <1>4 DEF WInv

LEMMA CancelClearsSessionW ==
    ASSUME WInv, ~Overlap, ~Interleave, NEW t \in Tasks,
           CancelClearsSession(t)
    PROVE  WInv'
<1> USE DEF WInv, CancelClearsSession, CancelTo
<1>1. (TypeOK /\ RunsApart /\ OneRequest /\ RecordsKnown /\ CreateFresh /\
      ResumeWaiting /\ Final /\ OneHolder /\ WaitingIsHolders /\ TokensReach
      /\ BusyForAReason /\ CalmRecords /\ SavedOutcome)'
  BY DEF TypeOK, RecordStatus, MetaStatus, Phase, Outcome, CancelPhase,
     RunsApart, OneRequest, RecordsKnown, Known, CreateFresh, ResumeWaiting,
     Final, OneHolder, WaitingIsHolders, ActiveWaiting, TokensReach,
     BusyForAReason, CalmRecords, Calm, SavedOutcome
<1> QED BY <1>1 DEF WInv

LEMMA CancelSignalsW ==
    ASSUME WInv, ~Overlap, ~Interleave, NEW t \in Tasks, CancelSignals(t)
    PROVE  WInv'
<1> USE DEF WInv, CancelSignals, CancelTo, SignalCancel
<1>1. (TypeOK /\ RunsApart /\ OneRequest /\ RecordsKnown /\ CreateFresh /\
      ResumeWaiting /\ Final /\ WaitingIsHolders /\ BusyForAReason /\
      CalmRecords /\ SavedOutcome)'
  BY DEF TypeOK, RecordStatus, MetaStatus, Phase, Outcome, CancelPhase,
     RunsApart, OneRequest, RecordsKnown, Known, CreateFresh, ResumeWaiting,
     Final, WaitingIsHolders, ActiveWaiting, BusyForAReason, CalmRecords,
     Calm, SavedOutcome
<1>2. OneHolder'
  BY DEF OneHolder, TypeOK, RecordStatus, MetaStatus, Phase, Outcome,
     CancelPhase
<1>3. TokensReach'
  BY DEF TokensReach, OneHolder
<1> QED BY <1>1, <1>2, <1>3 DEF WInv

LEMMA CancelAbortsW ==
    ASSUME WInv, ~Overlap, ~Interleave, NEW t \in Tasks, CancelAborts(t)
    PROVE  WInv'
<1> USE DEF WInv, CancelAborts, CancelTo, Abortable
<1>1. (TypeOK /\ RunsApart /\ OneRequest /\ RecordsKnown /\ CreateFresh /\
      Final /\ OneHolder /\ WaitingIsHolders /\ CalmRecords /\ SavedOutcome)'
  BY DEF TypeOK, RecordStatus, MetaStatus, Phase, Outcome, CancelPhase,
     RunsApart, OneRequest, RecordsKnown, Known, CreateFresh, Final,
     OneHolder, WaitingIsHolders, ActiveWaiting, CalmRecords, Calm,
     SavedOutcome
<1>2. ResumeWaiting'
  BY DEF ResumeWaiting, TypeOK, RecordStatus, MetaStatus, Phase, Outcome,
     CancelPhase
<1>3. TokensReach'
  BY DEF TokensReach, OneRequest
<1>4. BusyForAReason'
  BY DEF BusyForAReason, OneHolder
<1> QED BY <1>1, <1>2, <1>3, <1>4 DEF WInv

LEMMA SaveSessionLateW ==
    ASSUME WInv, ~Overlap, ~Interleave, NEW t \in Tasks, SaveSessionLate(t)
    PROVE  WInv'
<1> USE DEF WInv, SaveSessionLate
<1>1. (TypeOK /\ RunsApart /\ OneRequest /\ RecordsKnown /\ CreateFresh /\
      ResumeWaiting /\ Final /\ OneHolder /\ TokensReach /\ BusyForAReason /\
      SavedOutcome)'
  BY DEF TypeOK, RecordStatus, MetaStatus, Phase, Outcome, CancelPhase,
     RunsApart, OneRequest, RecordsKnown, Known, CreateFresh, ResumeWaiting,
     Final, OneHolder, TokensReach, BusyForAReason, SavedOutcome
<1>2. CalmRecords'
  BY DEF CalmRecords, Calm, WaitingIsHolders, ActiveWaiting
<1>3. WaitingIsHolders'
  BY DEF WaitingIsHolders, ActiveWaiting, TypeOK, RecordStatus, MetaStatus,
     Phase, Outcome, CancelPhase, OneRequest
<1> QED BY <1>1, <1>2, <1>3 DEF WInv

LEMMA FlushInitialW ==
    ASSUME WInv, ~Overlap, ~Interleave, NEW t \in Tasks, FlushInitial(t)
    PROVE  WInv'
<1> USE DEF WInv, FlushInitial
<1>1. (TypeOK /\ RunsApart /\ OneRequest /\ RecordsKnown /\ CreateFresh /\
      ResumeWaiting /\ Final /\ OneHolder /\ WaitingIsHolders /\ TokensReach
      /\ BusyForAReason /\ CalmRecords /\ SavedOutcome)'
  BY DEF TypeOK, RecordStatus, MetaStatus, Phase, Outcome, CancelPhase,
     RunsApart, OneRequest, RecordsKnown, Known, CreateFresh, ResumeWaiting,
     Final, OneHolder, WaitingIsHolders, ActiveWaiting, TokensReach,
     BusyForAReason, CalmRecords, Calm, SavedOutcome
<1> QED BY <1>1 DEF WInv

LEMMA CancelLostW ==
    ASSUME WInv, ~Overlap, ~Interleave, NEW t \in Tasks, CancelLost(t)
    PROVE  WInv'
<1> USE DEF WInv, CancelLost, CancelTo, Fault
<1>1. (TypeOK /\ RunsApart /\ OneRequest /\ RecordsKnown /\ CreateFresh /\
      ResumeWaiting /\ Final /\ OneHolder /\ WaitingIsHolders /\ TokensReach
      /\ BusyForAReason /\ CalmRecords /\ SavedOutcome)'
  BY DEF TypeOK, RecordStatus, MetaStatus, Phase, Outcome, CancelPhase,
     RunsApart, OneRequest, RecordsKnown, Known, CreateFresh, ResumeWaiting,
     Final, OneHolder, WaitingIsHolders, ActiveWaiting, TokensReach,
     BusyForAReason, CalmRecords, Calm, SavedOutcome
<1> QED BY <1>1 DEF WInv

LEMMA LateSaveFailsW ==
    ASSUME WInv, ~Overlap, ~Interleave, NEW t \in Tasks, LateSaveFails(t)
    PROVE  WInv'
<1> USE DEF WInv, LateSaveFails, Fault
<1>1. (TypeOK /\ RunsApart /\ OneRequest /\ RecordsKnown /\ CreateFresh /\
      ResumeWaiting /\ Final /\ OneHolder /\ WaitingIsHolders /\ TokensReach
      /\ BusyForAReason /\ SavedOutcome)'
  BY DEF TypeOK, RecordStatus, MetaStatus, Phase, Outcome, CancelPhase,
     RunsApart, OneRequest, RecordsKnown, Known, CreateFresh, ResumeWaiting,
     Final, OneHolder, WaitingIsHolders, ActiveWaiting, TokensReach,
     BusyForAReason, SavedOutcome
<1>2. CalmRecords'
  BY DEF CalmRecords, Calm, TypeOK, RecordStatus, MetaStatus, Phase, Outcome,
     CancelPhase
<1> QED BY <1>1, <1>2 DEF WInv

LEMMA RestartW ==
    ASSUME WInv, ~Overlap, ~Interleave, Restart
    PROVE  WInv'
<1> USE DEF WInv, Restart
<1>1. (RunsApart /\ OneRequest /\ RecordsKnown /\ CreateFresh /\ Final /\
      OneHolder /\ WaitingIsHolders /\ TokensReach /\ BusyForAReason /\
      SavedOutcome)'
  BY DEF RunsApart, OneRequest, RecordsKnown, Known, CreateFresh, Final,
     OneHolder, WaitingIsHolders, ActiveWaiting, TokensReach, BusyForAReason,
     SavedOutcome
<1>2. (ResumeWaiting /\ CalmRecords)'
  BY DEF ResumeWaiting, CalmRecords, Calm, TypeOK, RecordStatus, MetaStatus,
     Phase, Outcome, CancelPhase
<1>3. TypeOK'
  <2>1. \A t \in Tasks : record'[t] \in {"none", "interrupted", record[t]}
    OBVIOUS
  <2>2. record' \in [Tasks -> RecordStatus]
    BY <2>1 DEF TypeOK, RecordStatus
  <2>3. phase' \in [Runs -> Phase] /\ cancel' \in [Tasks -> CancelPhase]
    BY DEF TypeOK, Phase, CancelPhase
  <2>4. active' \in Tasks \cup {NoTask} /\ meta' \in [Tasks -> MetaStatus]
    BY DEF TypeOK, MetaStatus
  <2>5. UNCHANGED <<cancelled, taskOf, resumed, held, outcome, faults>>
    OBVIOUS
  <2>6. restarts' \in 0..MaxRestarts
    BY DEF TypeOK
  <2> QED
    BY <2>2, <2>3, <2>4, <2>5, <2>6 DEF TypeOK
<1> QED BY <1>1, <1>2, <1>3 DEF WInv

-----------------------------------------------------------------------------
(* The theorems.                                                             *)

LEMMA InitW == Init => WInv
<1> SUFFICES ASSUME Init PROVE WInv
  OBVIOUS
<1> USE DEF Init
<1>1. TypeOK
  <2>1. faults \in 0..MaxFaults /\ restarts \in 0..MaxRestarts
    OBVIOUS
  <2>2. /\ record \in [Tasks -> RecordStatus] /\ meta \in [Tasks -> MetaStatus]
        /\ phase \in [Runs -> Phase] /\ taskOf \in [Runs -> Tasks \cup {NoTask}]
        /\ held \in [Runs -> Runs \cup {NoRun}] /\ outcome \in [Runs -> Outcome]
        /\ cancel \in [Tasks -> CancelPhase]
    BY DEF RecordStatus, MetaStatus, Phase, Outcome, CancelPhase
  <2> QED
    BY <2>1, <2>2 DEF TypeOK
<1>2. RunsApart /\ OneRequest /\ RecordsKnown /\ CreateFresh
  BY DEF RunsApart, OneRequest, RecordsKnown, CreateFresh
<1>3. ResumeWaiting /\ Final /\ OneHolder /\ WaitingIsHolders
  BY DEF ResumeWaiting, Final, OneHolder, WaitingIsHolders
<1>4. TokensReach /\ BusyForAReason /\ CalmRecords /\ SavedOutcome
  BY DEF TokensReach, BusyForAReason, CalmRecords, SavedOutcome
<1> QED BY <1>1, <1>2, <1>3, <1>4 DEF WInv

LEMMA NextW ==
    ASSUME WInv, ~Overlap, ~Interleave, [Next]_vars
    PROVE  WInv'
<1>1. ASSUME NEW r \in Runs, NEW t \in Tasks, CheckCreate(r, t) \/ CheckResume(r, t)
      PROVE  WInv'
  BY <1>1, CheckCreateW, CheckResumeW
<1>2. ASSUME NEW r \in Runs, RunStep(r) \/ RequestLost(r) \/ PersistFails(r)
      PROVE  WInv'
  <2>1. ASSUME NEW o \in {"completed", "waiting", "failed"}, AgentReturns(r, o)
        PROVE  WInv'
    BY <2>1, AgentReturnsW
  <2> QED
    BY <1>2, <2>1, SnapshotMemoryW, RegisterW, SpawnCreatedW, RecordResumedW,
       SpawnResumedW, TakeHandlesW, InstallW, ProbeEndsW, ExecuteW, LoadRecordW,
       SaveRecordW, UpdateSessionW, SettleW, RequestLostW, PersistFailsW
       DEF RunStep
<1>3. ASSUME NEW t \in Tasks,
             CancelStep(t) \/ SaveSessionLate(t) \/ FlushInitial(t)
             \/ CancelLost(t) \/ LateSaveFails(t)
      PROVE  WInv'
  BY <1>3, CancelLoadsW, CancelSavesW, CancelClearsSessionW, CancelSignalsW,
     CancelAbortsW, SaveSessionLateW, FlushInitialW, CancelLostW, LateSaveFailsW
     DEF CancelStep
<1>4. CASE UNCHANGED vars
  BY <1>4 DEF vars, WInv, TypeOK, RunsApart, OneRequest, RecordsKnown, Known,
     CreateFresh, ResumeWaiting, Final, OneHolder, WaitingIsHolders, ActiveWaiting,
     TokensReach, BusyForAReason, CalmRecords, Calm, SavedOutcome
<1> QED
  BY <1>1, <1>2, <1>3, <1>4, RestartW DEF Next

LEMMA WInvInductive ==
    ASSUME ~Overlap, ~Interleave
    PROVE  Spec => []WInv
<1>1. Init => WInv
  BY InitW
<1>2. WInv /\ [Next]_vars => WInv'
  BY NextW
<1> QED
  BY <1>1, <1>2, PTL DEF Spec

\* Every reachable state of the session's tasks is well typed.
THEOREM TypeCorrect ==
    ASSUME ~Overlap, ~Interleave
    PROVE  Spec => []TypeOK
<1>1. WInv => TypeOK
  BY DEF WInv
<1> QED
  BY <1>1, WInvInductive, PTL

\* reject_active_task never lets two tasks run at once, and without faults,
\* restarts and cancels a task runs beside no other running or waiting record:
\* an active record is the one of the run that holds the session.
THEOREM OneTaskAtATime ==
    ASSUME ~Overlap, ~Interleave
    PROVE  Spec => []OneActiveTask
<1>1. WInv => OneActiveTask
  <2> SUFFICES ASSUME WInv, NEW t \in Tasks, NEW u \in Tasks,
                      record[t] = "running", Working(t),
                      \/ record[u] = "running" /\ Working(u)
                      \/ record[u] \in ActiveStatus /\ Calm
               PROVE  t = u
    BY DEF OneActiveTask
  <2>1. ASSUME NEW v \in Tasks, record[v] = "running", Working(v)
        PROVE  \E r \in Runs : taskOf[r] = v /\ (Holds(r) \/ phase[r] \in Requested)
    BY <2>1 DEF Working, WInv, TypeOK, Phase, Final
  <2>2. ASSUME NEW v \in Tasks, record[v] = "running", Working(v)
        PROVE  \E r \in Runs : taskOf[r] = v /\ Holds(r)
    BY <2>1, <2>2 DEF WInv, CreateFresh, ResumeWaiting, Final, TokensReach
  <2>3. CASE record[u] = "running"
    BY <2>2, <2>3 DEF WInv, OneHolder, CalmRecords
  <2>4. CASE record[u] = "waiting" /\ Calm
    <3>1. PICK r \in Runs : taskOf[r] = t /\ Holds(r)
      BY <2>2
    <3>2. CASE active = u
      BY <2>4, <3>1, <3>2 DEF WInv, WaitingIsHolders, ActiveWaiting
    <3>3. CASE \E s \in Runs : taskOf[s] = u /\ phase[s] = "saved"
      BY <2>4, <3>1, <3>3 DEF WInv, OneHolder, Calm
    <3> QED
      BY <2>4, <3>2, <3>3 DEF WInv, CalmRecords
  <2> QED
    BY <2>3, <2>4
<1> QED
  BY <1>1, WInvInductive, PTL

\* Once the cancel route has answered, no run of the task is where the abort
\* handle would have reached it, and one that still works does so with a
\* cancelled token.
THEOREM CancelStops ==
    ASSUME ~Overlap, ~Interleave
    PROVE  Spec => []CancelStopsTheRun
<1>1. WInv => CancelStopsTheRun
  BY DEF WInv, CancelStopsTheRun, TokensReach
<1> QED
  BY <1>1, WInvInductive, PTL

\* No outcome, resume or restart brings a cancelled record back.
THEOREM CancelledStays ==
    ASSUME ~Overlap, ~Interleave
    PROVE  Spec => CancelIsFinal
<1> DEFINE Stays == \A t \in Tasks : record[t] = "cancelled" => record'[t] = "cancelled"
<1>1. ASSUME WInv, Next PROVE Stays
  <2> SUFFICES ASSUME NEW t \in Tasks, record[t] = "cancelled"
               PROVE  record'[t] = "cancelled"
    OBVIOUS
  <2> USE <1>1 DEF WInv, TypeOK
  <2>1. ASSUME NEW r \in Runs, RunStep(r) PROVE record'[t] = "cancelled"
    <3>1. CASE SpawnCreated(r)
      BY <3>1 DEF SpawnCreated, CreateFresh
    <3>2. CASE RecordResumed(r)
      BY <3>2 DEF RecordResumed, ResumeWaiting
    <3>3. CASE SaveRecord(r)
      BY <3>3 DEF SaveRecord, Final
    <3>4. CASE UNCHANGED record
      BY <3>4
    <3> QED
      BY <2>1, <3>1, <3>2, <3>3, <3>4
         DEF RunStep, SnapshotMemory, Register, SpawnResumed, TakeHandles, Install,
             ProbeEnds, Execute, AgentReturns, LoadRecord, UpdateSession, Settle
  <2>2. ASSUME NEW u \in Tasks, CancelStep(u) PROVE record'[t] = "cancelled"
    BY <2>2 DEF CancelStep, CancelLoads, CancelSaves, CancelClearsSession,
       CancelSignals, CancelAborts
  <2>3. CASE Restart
    BY <2>3 DEF Restart, Final
  <2>4. CASE UNCHANGED record
    BY <2>4
  <2> QED
    BY <2>1, <2>2, <2>3, <2>4
       DEF Next, CheckCreate, CheckResume, RequestLost, PersistFails,
           SaveSessionLate, FlushInitial, CancelLost, LateSaveFails
<1>2. WInv /\ [Next]_vars => [Stays]_vars
  BY <1>1
<1> QED
  BY <1>2, WInvInductive, PTL DEF Spec, CancelIsFinal

\* A session at rest that rejects new tasks does so for an active record, which
\* the user can cancel, a create dropped half-way, or a cancel dropped half-way.
THEOREM NothingStuck ==
    ASSUME ~Overlap, ~Interleave
    PROVE  Spec => []NeverStuck
<1>1. WInv => NeverStuck
  <2> SUFFICES ASSUME WInv, AtRest, Rejects
               PROVE  \/ \E t \in running \cup ({active} \ {NoTask}) :
                            record[t] \in ActiveStatus
                      \/ \E r \in Runs \ resumed : phase[r] = "lost" /\ taskOf[r] \in running
                      \/ \E t \in running : cancel[t] = "lost" /\ record[t] = "cancelled"
    BY DEF NeverStuck
  <2>1. CASE active # NoTask /\ record[active] \in ActiveStatus
    BY <2>1 DEF WInv, TypeOK
  <2>2. CASE RuntimeBusy
    <3>1. PICK t \in running : meta[t] = "running"
      BY <2>2 DEF RuntimeBusy
    <3>2. PICK r \in Runs :
            /\ taskOf[r] = t
            /\ \/ phase[r] \in Registered
               \/ /\ phase[r] = "lost"
                  /\ \/ r \notin resumed
                     \/ record[t] \in ActiveStatus
                     \/ record[t] = "cancelled" /\ cancel[t] \in CancelBusy \cup {"lost"}
      BY <3>1 DEF WInv, BusyForAReason
    <3>3. phase[r] \notin Registered /\ cancel[t] \notin CancelBusy
      BY <3>1 DEF AtRest, InFlight, WInv, TypeOK
    <3> QED
      BY <3>1, <3>2, <3>3
  <2> QED
    BY <2>1, <2>2 DEF Rejects
<1> QED
  BY <1>1, WInvInductive, PTL
=============================================================================
