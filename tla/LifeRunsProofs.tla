--------------------------- MODULE LifeRunsProofs ---------------------------
(* Theorems about LifeRuns, for any number of inputs and runs, any lease     *)
(* and heartbeat, and any use of the wake, cancel and wipe routes.           *)
EXTENDS LifeRuns, TLAPS

LEMMA ConstantsOK ==
    /\ Inputs \subseteq Int /\ NoRun \notin Runs
    /\ Lease \in Nat /\ Heartbeat \in Nat /\ 0 < Heartbeat /\ Heartbeat < Lease
    /\ Timely \in BOOLEAN
  BY InputsAssumption, NoRunAssumption, LeaseAssumption, SwitchesAssumption


-----------------------------------------------------------------------------
(* Type correctness.                                                         *)

LEMMA InitTypeOK == Init => TypeOK
  <1> SUFFICES ASSUME Init PROVE TypeOK
    OBVIOUS
  <1> USE DEF Init
  <1>1. input \in [Inputs -> InputStatus] /\ handler \in [Inputs -> HandlerPhase]
    BY DEF InputStatus, HandlerPhase
  <1>2. turnRun \in [Inputs -> Runs \cup {NoRun}]
    OBVIOUS
  <1>3. run \in [Runs -> RunStatus] /\ task \in [Runs -> Phase]
    BY DEF RunStatus, Phase
  <1>4. lease \in [Runs -> 0..Lease]
    BY ConstantsOK
  <1>5. seen \in [Runs -> SUBSET Runs] /\ memory \subseteq Runs /\ answered \subseteq Runs
    OBVIOUS
  <1>6. polled \in BOOLEAN /\ wiped \in BOOLEAN
    OBVIOUS
  <1> QED BY <1>1, <1>2, <1>3, <1>4, <1>5, <1>6 DEF TypeOK

LEMMA ReapedType == TypeOK => ReapedRun \in [Runs -> RunStatus]
  BY DEF TypeOK, ReapedRun, Expired, Running, RunStatus

LEMMA StartRunType ==
  ASSUME TypeOK, NEW i \in Inputs, NEW r \in Runs, StartRun(i, r)
  PROVE  /\ input' \in [Inputs -> InputStatus]
         /\ turnRun' \in [Inputs -> Runs \cup {NoRun}]
         /\ run' \in [Runs -> RunStatus]
         /\ lease' \in [Runs -> 0..Lease]
  <1>1. input' \in [Inputs -> InputStatus]
    BY DEF StartRun, TypeOK, InputStatus
  <1>2. turnRun' \in [Inputs -> Runs \cup {NoRun}]
    BY DEF StartRun, TypeOK
  <1>3. run' \in [Runs -> RunStatus]
    BY ReapedType DEF StartRun, RunStatus
  <1>4. lease' \in [Runs -> 0..Lease]
    BY ConstantsOK DEF StartRun, TypeOK
  <1> QED BY <1>1, <1>2, <1>3, <1>4

LEMMA GotoType ==
  ASSUME TypeOK, NEW r \in Runs, NEW p \in Phase, Goto(r, p)
  PROVE  task' \in [Runs -> Phase]
  BY DEF Goto, TypeOK

LEMMA ConsumeType ==
  ASSUME TypeOK, NEW r \in Runs, ConsumeClaimed(r)
  PROVE  input' \in [Inputs -> InputStatus]
  BY DEF ConsumeClaimed, TypeOK, InputStatus

LEMMA FinishType ==
  ASSUME TypeOK, NEW r \in Runs, NEW s \in RunStatus, Finish(r, s)
  PROVE  run' \in [Runs -> RunStatus] /\ lease' \in [Runs -> 0..Lease]
  BY ConstantsOK DEF Finish, TypeOK

LEMMA ExtendType ==
  ASSUME TypeOK, NEW r \in Runs, Extend(r)
  PROVE  lease' \in [Runs -> 0..Lease]
  BY ConstantsOK DEF Extend, TypeOK

LEMMA SubmitType ==
  ASSUME TypeOK, NEW i \in Inputs, SubmitStep(i)
  PROVE  TypeOK'
  <1>1. CASE AppendUserTurn(i)
    BY <1>1 DEF AppendUserTurn, TypeOK, execVars, InputStatus, HandlerPhase
  <1>2. CASE EnqueueInput(i)
    BY <1>2 DEF EnqueueInput, TypeOK, execVars, InputStatus, HandlerPhase
  <1>3. CASE WakeFindsNoClaim(i)
    BY <1>3, ReapedType
    DEF WakeFindsNoClaim, ReapOnly, TypeOK, queueVars, execVars, HandlerPhase
  <1>4. CASE WakeAttaches(i)
    BY <1>4 DEF WakeAttaches, TypeOK, queueVars, execVars, HandlerPhase
  <1>5. CASE HandlerLost(i)
    BY <1>5 DEF HandlerLost, TypeOK, queueVars, execVars, HandlerPhase
  <1>6. ASSUME NEW r \in Runs, WakeStarts(i, r) PROVE TypeOK'
    <2>1. StartRun(i, r)
      BY <1>6 DEF WakeStarts
    <2> QED BY <1>6, <2>1, StartRunType DEF WakeStarts, TypeOK, HandlerPhase, Phase
  <1> QED BY <1>1, <1>2, <1>3, <1>4, <1>5, <1>6 DEF SubmitStep

LEMMA PollType == TypeOK /\ PollStep => TypeOK'
  <1> SUFFICES ASSUME TypeOK, PollStep PROVE TypeOK'
    OBVIOUS
  <1>1. CASE Poll
    BY <1>1 DEF Poll, TypeOK, queueVars, execVars
  <1>2. CASE PollClaimsNothing
    BY <1>2, ReapedType DEF PollClaimsNothing, ReapOnly, TypeOK, queueVars, execVars
  <1>3. ASSUME NEW i \in Inputs, NEW r \in Runs, PollStarts(i, r) PROVE TypeOK'
    <2>1. StartRun(i, r)
      BY <1>3 DEF PollStarts
    <2> QED BY <1>3, <2>1, StartRunType DEF PollStarts, TypeOK, Phase
  <1> QED BY <1>1, <1>2, <1>3 DEF PollStep

LEMMA TaskType ==
  ASSUME TypeOK, NEW r \in Runs, TaskStep(r)
  PROVE  TypeOK'
  <1>1. CASE TakeOwnership(r)
    BY <1>1, ExtendType, GotoType DEF TakeOwnership, TypeOK, Phase
  <1>2. CASE BeginExecution(r)
    BY <1>2, GotoType DEF BeginExecution, TypeOK, Phase, queueVars
  <1>3. CASE WatcherTrips(r)
    BY <1>3, GotoType DEF WatcherTrips, TypeOK, Phase, queueVars
  <1>4. CASE ExecutorCompletes(r)
    BY <1>4, GotoType DEF ExecutorCompletes, TypeOK, Phase, queueVars
  <1>5. CASE ExecutorFails(r)
    BY <1>5, GotoType DEF ExecutorFails, TypeOK, Phase, queueVars
  <1>6. CASE PersistAnswer(r)
    BY <1>6, GotoType DEF PersistAnswer, TypeOK, Phase, queueVars
  <1>7. CASE ConsumeInput(r)
    BY <1>7, GotoType, ConsumeType DEF ConsumeInput, TypeOK, Phase
  <1>8. CASE CompleteRun(r)
    BY <1>8, GotoType, FinishType DEF CompleteRun, TypeOK, Phase, RunStatus
  <1>9. CASE StopDraining(r)
    BY <1>9, GotoType, ReapedType DEF StopDraining, ReapOnly, TypeOK, Phase, queueVars
  <1>10. CASE FailRun(r)
    BY <1>10, GotoType, FinishType DEF FailRun, TypeOK, Phase, RunStatus
  <1>11. CASE FinishCancelled(r)
    BY <1>11, GotoType, FinishType, ConsumeType
    DEF FinishCancelled, CancelTx, TypeOK, Phase, RunStatus
  <1>12. ASSUME NEW i \in Inputs, NEW n \in Runs, ClaimNext(r, i, n) PROVE TypeOK'
    <2>1. StartRun(i, n)
      BY <1>12 DEF ClaimNext
    <2> QED BY <1>12, <2>1, StartRunType DEF ClaimNext, TypeOK, Phase
  <1> QED BY <1>1, <1>2, <1>3, <1>4, <1>5, <1>6, <1>7, <1>8, <1>9, <1>10,
             <1>11, <1>12 DEF TaskStep

\* Every step keeps every variable in its range.
LEMMA NextTypeOK == TypeOK /\ [Next]_vars => TypeOK'
  <1> SUFFICES ASSUME TypeOK, [Next]_vars PROVE TypeOK'
    OBVIOUS
  <1>1. ASSUME NEW i \in Inputs, SubmitStep(i) PROVE TypeOK'
    BY <1>1, SubmitType
  <1>2. CASE PollStep
    BY <1>2, PollType
  <1>3. ASSUME NEW r \in Runs, TaskStep(r) PROVE TypeOK'
    BY <1>3, TaskType
  <1>4. ASSUME NEW r \in Runs, HeartbeatRun(r) PROVE TypeOK'
    BY <1>4, ExtendType, GotoType DEF HeartbeatRun, TypeOK, Phase
  <1>5. ASSUME NEW r \in Runs, SnapshotMemory(r) PROVE TypeOK'
    BY <1>5 DEF SnapshotMemory, TypeOK, queueVars
  <1>6. ASSUME NEW r \in Runs, TaskLost(r) PROVE TypeOK'
    BY <1>6, GotoType DEF TaskLost, TypeOK, Phase, queueVars
  <1>7. ASSUME NEW r \in Runs, OwnerCancel(r) PROVE TypeOK'
    BY <1>7, FinishType, ConsumeType DEF OwnerCancel, CancelTx, TypeOK, execVars, RunStatus
  <1>8. CASE Wipe
    BY <1>8, ConstantsOK DEF Wipe, TypeOK, InputStatus, RunStatus
  <1>9. CASE Tick
    BY <1>9, ConstantsOK DEF Tick, TypeOK, execVars
  <1>10. CASE UNCHANGED vars
    BY <1>10 DEF vars, TypeOK
  <1> QED BY <1>1, <1>2, <1>3, <1>4, <1>5, <1>6, <1>7, <1>8, <1>9, <1>10 DEF Next

\* Type correctness of every reachable state of the queue, the runs, the
\* requests and the tasks.
THEOREM TypeCorrect == Spec => []TypeOK
  BY InitTypeOK, NextTypeOK, PTL DEF Spec

-----------------------------------------------------------------------------
(* The bookkeeping of inputs and runs.  None of the three safety invariants *)
(* is inductive: that a completed run consumed its input rests on where its *)
(* task stands, and that on a run belonging to one input only.              *)

\* A request that stored its turn finds it there, or wiped.
Submitted ==
    \A i \in Inputs : handler[i] = "appended" => input[i] \in {"turn", "deleted"}

\* An input gets its run when it is claimed, and the run exists.
LinkedWhenClaimed ==
    \A i \in Inputs :
        /\ input[i] \in {"unsent", "turn", "queued"} => turnRun[i] = NoRun
        /\ turnRun[i] # NoRun => run[turnRun[i]] # "free"

\* Only a run that exists has a task.
TaskHasRun == \A r \in Runs : run[r] = "free" => task[r] = "none"

\* What the task of a run has done before it reaches its next phase.
AnsweredBefore ==
    \A r \in Runs : task[r] \in {"answered", "consumed"} => r \in answered \/ wiped
ConsumedBefore ==
    \A r \in Runs : task[r] \in {"consumed", "cancel_consumed"} =>
        \A i \in InputOf(r) : input[i] \in {"consumed", "deleted"}

\* A wipe leaves no row behind, and no row comes back.
WipedAll ==
    /\ wiped => /\ \A i \in Inputs : input[i] \in {"unsent", "deleted"}
                /\ \A r \in Runs : run[r] \in {"free", "deleted"}
    /\ \A i \in Inputs : input[i] = "deleted" => wiped

IInv ==
    /\ TypeOK
    /\ Submitted
    /\ LinkedWhenClaimed
    /\ TaskHasRun
    /\ AnsweredBefore
    /\ ConsumedBefore
    /\ WipedAll
    /\ AtMostOneRunning
    /\ OneInputOneRun
    /\ ClaimHasItsRun
    /\ CompletedIsAnswered

LEMMA InitIInv == Init => IInv
  <1> SUFFICES ASSUME Init PROVE IInv
    OBVIOUS
  <1>1. TypeOK
    BY InitTypeOK
  <1>2. /\ Submitted
        /\ LinkedWhenClaimed /\ TaskHasRun /\ AnsweredBefore /\ ConsumedBefore
        /\ WipedAll /\ AtMostOneRunning /\ OneInputOneRun /\ ClaimHasItsRun
        /\ CompletedIsAnswered
    BY DEF Init, Submitted, LinkedWhenClaimed, TaskHasRun, AnsweredBefore, ConsumedBefore,
           WipedAll, AtMostOneRunning, Running, OneInputOneRun, ClaimHasItsRun,
           CompletedIsAnswered
  <1> QED BY <1>1, <1>2 DEF IInv

\* Task moves that owe nothing: those of a run that exists, to a phase that
\* presupposes no answer and no consumed input.
OrdinaryMoves(S) ==
    \A r \in S : \/ task'[r] = task[r]
                 \/ /\ run[r] # "free"
                    /\ task'[r] \notin {"answered", "consumed", "cancel_consumed"}

LEMMA GotoOrdinary ==
  ASSUME IInv, NEW r \in Runs, task[r] # "none", NEW p, Goto(r, p),
         p \notin {"answered", "consumed", "cancel_consumed"}
  PROVE  OrdinaryMoves(Runs)
  BY DEF IInv, TypeOK, TaskHasRun, Goto, OrdinaryMoves

\* No request gets to the point where its turn is stored.
NoNewTurn == \A i \in Inputs : handler'[i] = "appended" => handler[i] = "appended"

\* A step that at most reaps, with ordinary moves of the tasks.
LEMMA ReapKeepsIInv ==
  ASSUME IInv, TypeOK', run' = run \/ run' = ReapedRun, OrdinaryMoves(Runs), NoNewTurn,
         UNCHANGED <<input, turnRun, answered, wiped>>
  PROVE  IInv'
  <1>1. \A r \in Runs : \/ run'[r] = run[r]
                        \/ run[r] = "running" /\ run'[r] = "failed"
    BY DEF ReapedRun, Expired, Running, IInv, TypeOK
  <1>0. Submitted'
    BY DEF IInv, Submitted, NoNewTurn
  <1>2. LinkedWhenClaimed' /\ TaskHasRun' /\ AnsweredBefore' /\ ConsumedBefore'
    BY <1>1 DEF IInv, TypeOK, LinkedWhenClaimed, TaskHasRun, AnsweredBefore,
                ConsumedBefore, OrdinaryMoves, InputOf
  <1>3. WipedAll' /\ AtMostOneRunning'
    BY <1>1 DEF IInv, WipedAll, AtMostOneRunning, Running
  <1>4. OneInputOneRun' /\ ClaimHasItsRun' /\ CompletedIsAnswered'
    BY <1>1 DEF IInv, TypeOK, OneInputOneRun, ClaimHasItsRun, CompletedIsAnswered, InputOf
  <1> QED BY <1>0, <1>2, <1>3, <1>4 DEF IInv

\* A claim: input i starts run n.
LEMMA StartKeepsIInv ==
  ASSUME IInv, TypeOK', NEW i \in Inputs, NEW n \in Runs, StartRun(i, n),
         task'[n] = "claimed", OrdinaryMoves(Runs \ {n}), NoNewTurn,
         UNCHANGED <<answered, wiped>>
  PROVE  IInv'
  <1> USE DEF IInv
  <1>1. /\ \A j \in Inputs : input'[j] = IF j = i THEN "claimed" ELSE input[j]
        /\ \A j \in Inputs : turnRun'[j] = IF j = i THEN n ELSE turnRun[j]
        /\ input[i] = "queued" /\ turnRun[i] = NoRun
        /\ run[n] = "free" /\ task[n] = "none"
    BY DEF StartRun, TypeOK, LinkedWhenClaimed, TaskHasRun
  <1>2. /\ run'[n] = "running"
        /\ \A r \in Runs \ {n} : \/ run'[r] = run[r] /\ run[r] # "running"
                                 \/ run[r] = "running" /\ run'[r] = "failed"
    BY DEF StartRun, ActiveRun, ReapedRun, Expired, Running, TypeOK
  <1>3. ~wiped
    BY <1>1 DEF WipedAll
  <1>4. \A j \in Inputs : turnRun[j] # n
    BY <1>1, ConstantsOK DEF LinkedWhenClaimed, TypeOK
  <1>0. Submitted'
    BY <1>1 DEF Submitted, NoNewTurn
  <1>5. LinkedWhenClaimed'
    BY <1>1, <1>2, ConstantsOK DEF LinkedWhenClaimed, TypeOK
  <1>6. TaskHasRun' /\ AnsweredBefore'
    BY <1>1, <1>2, <1>3 DEF TaskHasRun, AnsweredBefore, OrdinaryMoves
  <1>7. ConsumedBefore'
    BY <1>1, <1>4 DEF ConsumedBefore, OrdinaryMoves, InputOf
  <1>8. WipedAll' /\ AtMostOneRunning'
    BY <1>1, <1>2, <1>3 DEF WipedAll, AtMostOneRunning, Running
  <1>9. OneInputOneRun'
    BY <1>1, <1>4, ConstantsOK DEF OneInputOneRun
  <1>10. ClaimHasItsRun'
    BY <1>1, <1>2, <1>4, ConstantsOK DEF ClaimHasItsRun, TypeOK
  <1>11. CompletedIsAnswered'
    BY <1>1, <1>2 DEF CompletedIsAnswered, InputOf
  <1> QED BY <1>0, <1>5, <1>6, <1>7, <1>8, <1>9, <1>10, <1>11

\* Running run r gets the terminal status s, with its claimed input consumed
\* by the same transaction or, for "completed", by the task before.
FinishInput(r, s) ==
    \/ s = "cancelled" /\ ConsumeClaimed(r)
    \/ s = "failed" /\ UNCHANGED input
    \/ s = "completed" /\ task[r] = "consumed" /\ UNCHANGED input

LEMMA FinishKeepsIInv ==
  ASSUME IInv, TypeOK', NEW r \in Runs, Running(r), NEW s, Finish(r, s),
         FinishInput(r, s), OrdinaryMoves(Runs), NoNewTurn,
         UNCHANGED <<turnRun, answered, wiped>>
  PROVE  IInv'
  <1> USE DEF IInv
  <1>1. /\ run[r] = "running" /\ s \in Terminal
        /\ \A q \in Runs : run'[q] = IF q = r THEN s ELSE run[q]
    BY DEF Running, Finish, FinishInput, TypeOK, Terminal
  <1>2. \A i \in Inputs :
          \/ input'[i] = input[i] /\ (s = "cancelled" /\ turnRun[i] = r => input[i] # "claimed")
          \/ /\ s = "cancelled" /\ turnRun[i] = r
             /\ input[i] = "claimed" /\ input'[i] = "consumed"
    BY <1>1 DEF FinishInput, ConsumeClaimed, InputOf, Terminal
  <1>3. ~wiped
    BY <1>1 DEF WipedAll
  <1>0. Submitted'
    BY <1>2 DEF Submitted, NoNewTurn
  <1>4. LinkedWhenClaimed' /\ TaskHasRun'
    BY <1>1, <1>2 DEF LinkedWhenClaimed, TaskHasRun, OrdinaryMoves, Terminal, TypeOK
  <1>5. AnsweredBefore' /\ ConsumedBefore'
    BY <1>2 DEF AnsweredBefore, ConsumedBefore, OrdinaryMoves, InputOf
  <1>6. WipedAll' /\ AtMostOneRunning' /\ OneInputOneRun'
    BY <1>1, <1>2, <1>3 DEF WipedAll, AtMostOneRunning, Running, OneInputOneRun, Terminal
  <1>7. ClaimHasItsRun'
    <2> SUFFICES ASSUME NEW i \in Inputs, input'[i] = "claimed"
                 PROVE  turnRun[i] # NoRun /\ run'[turnRun[i]] \in {"running", "failed"}
      BY DEF ClaimHasItsRun
    <2>1. input[i] = "claimed" /\ turnRun[i] # NoRun
          /\ run[turnRun[i]] \in {"running", "failed"} /\ turnRun[i] \in Runs
      BY <1>2 DEF ClaimHasItsRun, TypeOK
    <2>2. CASE turnRun[i] = r
      BY <1>2, <2>1, <2>2, <1>1 DEF FinishInput, ConsumedBefore, InputOf, Terminal
    <2>3. CASE turnRun[i] # r
      BY <2>1, <2>3, <1>1
    <2> QED BY <2>2, <2>3
  <1>8. CompletedIsAnswered'
    <2> SUFFICES ASSUME NEW q \in Runs, run'[q] = "completed"
                 PROVE  q \in answered /\ \A i \in InputOf(q) : input'[i] = "consumed"
      BY DEF CompletedIsAnswered, InputOf
    <2>1. CASE q = r
      <3>1. s = "completed" /\ task[r] = "consumed" /\ input' = input
        BY <1>1, <2>1 DEF FinishInput
      <3>2. r \in answered
        BY <3>1, <1>3 DEF AnsweredBefore
      <3>3. \A i \in InputOf(r) : input[i] = "consumed"
        BY <3>1, <1>3 DEF ConsumedBefore, WipedAll, InputOf
      <3> QED BY <2>1, <3>1, <3>2, <3>3
    <2>2. CASE q # r
      BY <1>1, <1>2, <2>2 DEF CompletedIsAnswered, InputOf
    <2> QED BY <2>1, <2>2
  <1> QED BY <1>0, <1>4, <1>5, <1>6, <1>7, <1>8

LEMMA PersistKeepsIInv ==
  ASSUME IInv, TypeOK', NEW r \in Runs, PersistAnswer(r)
  PROVE  IInv'
  <1> USE DEF IInv
  <1>1. /\ \A q \in Runs : task'[q] = IF q = r THEN "answered" ELSE task[q]
        /\ task[r] = "checkpointed" /\ answered' = answered \cup {r}
        /\ UNCHANGED <<input, handler, turnRun, run, wiped>>
    BY DEF PersistAnswer, Goto, queueVars, TypeOK
  <1>2. Submitted' /\ LinkedWhenClaimed' /\ TaskHasRun' /\ AnsweredBefore' /\ ConsumedBefore'
    BY <1>1 DEF Submitted, LinkedWhenClaimed, TaskHasRun, AnsweredBefore, ConsumedBefore, InputOf
  <1>3. /\ WipedAll' /\ AtMostOneRunning' /\ OneInputOneRun' /\ ClaimHasItsRun'
        /\ CompletedIsAnswered'
    BY <1>1 DEF WipedAll, AtMostOneRunning, Running, OneInputOneRun,
                ClaimHasItsRun, CompletedIsAnswered, InputOf
  <1> QED BY <1>2, <1>3

LEMMA ConsumeKeepsIInv ==
  ASSUME IInv, TypeOK', NEW r \in Runs, ConsumeInput(r)
  PROVE  IInv'
  <1> USE DEF IInv
  <1>1. /\ \A q \in Runs \ {r} : task'[q] = task[q]
        /\ \/ task[r] = "answered" /\ task'[r] = "consumed"
           \/ task[r] = "cancelled" /\ task'[r] = "cancel_consumed"
        /\ UNCHANGED <<handler, turnRun, run, answered, wiped>>
    BY DEF ConsumeInput, Goto, TypeOK
  <1>2. \A i \in Inputs :
          input'[i] = IF turnRun[i] = r /\ input[i] = "claimed" THEN "consumed" ELSE input[i]
    BY DEF ConsumeInput, ConsumeClaimed, InputOf
  <1>3. Submitted' /\ LinkedWhenClaimed' /\ TaskHasRun' /\ AnsweredBefore'
    BY <1>1, <1>2 DEF Submitted, LinkedWhenClaimed, TaskHasRun, AnsweredBefore
  <1>4. ConsumedBefore'
    <2> SUFFICES ASSUME NEW q \in Runs, task'[q] \in {"consumed", "cancel_consumed"},
                        NEW i \in Inputs, turnRun[i] = q
                 PROVE  input'[i] \in {"consumed", "deleted"}
      BY <1>1 DEF ConsumedBefore, InputOf
    <2>1. CASE q = r
      BY <2>1, <1>2, ConstantsOK DEF LinkedWhenClaimed, TypeOK, InputStatus
    <2>2. CASE q # r
      BY <2>2, <1>1, <1>2 DEF ConsumedBefore, InputOf
    <2> QED BY <2>1, <2>2
  <1>5. /\ WipedAll' /\ AtMostOneRunning' /\ OneInputOneRun' /\ ClaimHasItsRun'
        /\ CompletedIsAnswered'
    BY <1>1, <1>2 DEF WipedAll, AtMostOneRunning, Running, OneInputOneRun,
                ClaimHasItsRun, CompletedIsAnswered, InputOf
  <1> QED BY <1>3, <1>4, <1>5

LEMMA WipeKeepsIInv == IInv /\ TypeOK' /\ Wipe => IInv'
  <1> SUFFICES ASSUME IInv, TypeOK', Wipe PROVE IInv'
    OBVIOUS
  <1> USE DEF IInv
  <1>1. /\ wiped' /\ UNCHANGED <<handler, turnRun, task>>
        /\ \A i \in Inputs : input'[i] = IF input[i] = "unsent" THEN "unsent" ELSE "deleted"
        /\ \A r \in Runs : run'[r] = IF run[r] = "free" THEN "free" ELSE "deleted"
    BY DEF Wipe
  <1>2. Submitted' /\ LinkedWhenClaimed' /\ TaskHasRun' /\ AnsweredBefore' /\ ConsumedBefore'
    BY <1>1, ConstantsOK DEF Submitted, LinkedWhenClaimed, TaskHasRun, AnsweredBefore, ConsumedBefore,
                InputOf, TypeOK
  <1>3. /\ WipedAll' /\ AtMostOneRunning' /\ OneInputOneRun' /\ ClaimHasItsRun'
        /\ CompletedIsAnswered'
    BY <1>1 DEF WipedAll, AtMostOneRunning, Running, OneInputOneRun,
                ClaimHasItsRun, CompletedIsAnswered
  <1> QED BY <1>2, <1>3

\* A request that stores its turn or queues it.
LEMMA QueueKeepsIInv ==
  ASSUME IInv, TypeOK', NEW i \in Inputs, AppendUserTurn(i) \/ EnqueueInput(i)
  PROVE  IInv'
  <1> USE DEF IInv
  <1>1. /\ handler' = [handler EXCEPT ![i] = handler'[i]]
        /\ UNCHANGED <<turnRun, run, task, answered, wiped>>
        /\ \/ /\ input[i] \in {"unsent", "turn"} /\ ~wiped
              /\ \/ input' = [input EXCEPT ![i] = "turn"]
                 \/ handler'[i] # "appended" /\ input' = [input EXCEPT ![i] = "queued"]
           \/ handler'[i] # "appended" /\ input' = input
    BY DEF AppendUserTurn, EnqueueInput, execVars, Submitted, TypeOK, WipedAll
  <1>2. \A j \in Inputs : \/ input'[j] = input[j]
                        \/ /\ input[j] \in {"unsent", "turn"} /\ ~wiped
                           /\ input'[j] \in {"turn", "queued"}
    BY <1>1 DEF TypeOK
  <1>3. Submitted'
    BY <1>1 DEF Submitted, TypeOK
  <1>4. LinkedWhenClaimed' /\ TaskHasRun' /\ AnsweredBefore'
    BY <1>1, <1>2 DEF LinkedWhenClaimed, TaskHasRun, AnsweredBefore
  <1>5. ConsumedBefore' /\ WipedAll' /\ AtMostOneRunning' /\ OneInputOneRun'
    BY <1>1, <1>2 DEF ConsumedBefore, InputOf, WipedAll, AtMostOneRunning,
                      Running, OneInputOneRun
  <1>6. ClaimHasItsRun' /\ CompletedIsAnswered'
    BY <1>1, <1>2 DEF ClaimHasItsRun, CompletedIsAnswered, InputOf
  <1> QED BY <1>3, <1>4, <1>5, <1>6

LEMMA SubmitKeepsIInv ==
  ASSUME IInv, TypeOK', NEW i \in Inputs, SubmitStep(i)
  PROVE  IInv'
  <1>1. CASE AppendUserTurn(i) \/ EnqueueInput(i)
    BY <1>1, QueueKeepsIInv
  <1>2. CASE WakeFindsNoClaim(i)
    BY <1>2, ReapKeepsIInv
    DEF WakeFindsNoClaim, ReapOnly, queueVars, execVars, OrdinaryMoves, NoNewTurn, IInv, TypeOK
  <1>3. CASE WakeAttaches(i) \/ HandlerLost(i)
    BY <1>3, ReapKeepsIInv
    DEF WakeAttaches, HandlerLost, queueVars, execVars, OrdinaryMoves, NoNewTurn, IInv, TypeOK
  <1>4. ASSUME NEW r \in Runs, WakeStarts(i, r) PROVE IInv'
    BY <1>4, StartKeepsIInv DEF WakeStarts, OrdinaryMoves, NoNewTurn, IInv, TypeOK
  <1> QED BY <1>1, <1>2, <1>3, <1>4 DEF SubmitStep

LEMMA PollKeepsIInv == IInv /\ TypeOK' /\ PollStep => IInv'
  <1> SUFFICES ASSUME IInv, TypeOK', PollStep PROVE IInv'
    OBVIOUS
  <1>1. CASE Poll \/ PollClaimsNothing
    BY <1>1, ReapKeepsIInv
    DEF Poll, PollClaimsNothing, ReapOnly, queueVars, execVars, OrdinaryMoves, NoNewTurn
  <1>2. ASSUME NEW i \in Inputs, NEW r \in Runs, PollStarts(i, r) PROVE IInv'
    BY <1>2, StartKeepsIInv DEF PollStarts, OrdinaryMoves, NoNewTurn, IInv, TypeOK
  <1> QED BY <1>1, <1>2 DEF PollStep

LEMMA TaskKeepsIInv ==
  ASSUME IInv, TypeOK', NEW r \in Runs, TaskStep(r)
  PROVE  IInv'
  <1>1. CASE \/ TakeOwnership(r) \/ BeginExecution(r) \/ WatcherTrips(r)
             \/ ExecutorCompletes(r) \/ ExecutorFails(r) \/ StopDraining(r)
    <2>1. OrdinaryMoves(Runs)
      BY <1>1, GotoOrdinary
      DEF TakeOwnership, BeginExecution, WatcherTrips, ExecutorCompletes,
          ExecutorFails, StopDraining
    <2>2. NoNewTurn /\ UNCHANGED <<input, turnRun, answered, wiped>>
      BY <1>1 DEF TakeOwnership, BeginExecution, WatcherTrips, ExecutorCompletes,
                  ExecutorFails, StopDraining, ReapOnly, queueVars, NoNewTurn
    <2>3. run' = run \/ run' = ReapedRun
      BY <1>1 DEF TakeOwnership, BeginExecution, WatcherTrips, ExecutorCompletes,
                  ExecutorFails, StopDraining, ReapOnly, queueVars
    <2> QED BY <2>1, <2>2, <2>3, ReapKeepsIInv
  <1>2. CASE PersistAnswer(r)
    BY <1>2, PersistKeepsIInv
  <1>3. CASE ConsumeInput(r)
    BY <1>3, ConsumeKeepsIInv
  <1>4. CASE CompleteRun(r) \/ FailRun(r) \/ FinishCancelled(r)
    <2>1. OrdinaryMoves(Runs)
      BY <1>4, GotoOrdinary DEF CompleteRun, FailRun, FinishCancelled
    <2>2. NoNewTurn /\ UNCHANGED <<turnRun, answered, wiped>>
      BY <1>4 DEF CompleteRun, FailRun, FinishCancelled, NoNewTurn
    <2>3. \/ UNCHANGED <<input, run>>
          \/ \E s \in Terminal : Running(r) /\ Finish(r, s) /\ FinishInput(r, s)
      BY <1>4 DEF CompleteRun, FailRun, FinishCancelled, CancelTx, FinishInput, Terminal
    <2> QED BY <2>1, <2>2, <2>3, ReapKeepsIInv, FinishKeepsIInv
  <1>5. ASSUME NEW i \in Inputs, NEW n \in Runs, ClaimNext(r, i, n) PROVE IInv'
    <2>1. StartRun(i, n) /\ NoNewTurn /\ UNCHANGED <<answered, wiped>>
      BY <1>5 DEF ClaimNext, NoNewTurn
    <2>2. task[r] = "completed" /\ run[r] # "free" /\ run[n] = "free" /\ n # r
      BY <1>5 DEF ClaimNext, StartRun, IInv, TaskHasRun
    <2>3. task'[n] = "claimed" /\ OrdinaryMoves(Runs \ {n})
      BY <1>5, <2>2 DEF ClaimNext, OrdinaryMoves, IInv, TypeOK
    <2> QED BY <2>1, <2>3, StartKeepsIInv
  <1> QED BY <1>1, <1>2, <1>3, <1>4, <1>5 DEF TaskStep

LEMMA NextIInv == IInv /\ [Next]_vars => IInv'
  <1> SUFFICES ASSUME IInv, [Next]_vars PROVE IInv'
    OBVIOUS
  <1>0. TypeOK'
    BY NextTypeOK DEF IInv
  <1>1. ASSUME NEW i \in Inputs, SubmitStep(i) PROVE IInv'
    BY <1>0, <1>1, SubmitKeepsIInv
  <1>2. CASE PollStep
    BY <1>0, <1>2, PollKeepsIInv
  <1>3. ASSUME NEW r \in Runs, TaskStep(r) PROVE IInv'
    BY <1>0, <1>3, TaskKeepsIInv
  <1>4. ASSUME NEW r \in Runs, HeartbeatRun(r) \/ SnapshotMemory(r) \/ TaskLost(r) PROVE IInv'
    <2>1. OrdinaryMoves(Runs)
      <3>1. CASE task' = task
        BY <3>1 DEF OrdinaryMoves
      <3>2. CASE task' # task
        BY <1>4, <3>2, GotoOrdinary DEF HeartbeatRun, SnapshotMemory, TaskLost, Live
      <3> QED BY <3>1, <3>2
    <2>2. NoNewTurn /\ UNCHANGED <<input, turnRun, run, answered, wiped>>
      BY <1>4 DEF HeartbeatRun, SnapshotMemory, TaskLost, queueVars, NoNewTurn
    <2> QED BY <1>0, <2>1, <2>2, ReapKeepsIInv
  <1>5. ASSUME NEW r \in Runs, OwnerCancel(r) PROVE IInv'
    <2>1. OrdinaryMoves(Runs) /\ NoNewTurn /\ UNCHANGED <<turnRun, answered, wiped>>
      BY <1>5 DEF OwnerCancel, execVars, OrdinaryMoves, NoNewTurn
    <2>2. Running(r) /\ Finish(r, "cancelled") /\ FinishInput(r, "cancelled")
      BY <1>5 DEF OwnerCancel, CancelTx, FinishInput
    <2> QED BY <1>0, <2>1, <2>2, FinishKeepsIInv
  <1>6. CASE Wipe
    BY <1>0, <1>6, WipeKeepsIInv
  <1>7. CASE Tick \/ UNCHANGED vars
    BY <1>0, <1>7, ReapKeepsIInv DEF Tick, vars, execVars, OrdinaryMoves, NoNewTurn
  <1> QED BY <1>1, <1>2, <1>3, <1>4, <1>5, <1>6, <1>7 DEF Next

LEMMA SpecIInv == Spec => []IInv
  BY InitIInv, NextIInv, PTL DEF Spec

\* No interleaving of wakes, polls, drains and reaps gives a principal two
\* running runs, for any lease and however late tasks and heartbeats are.
THEOREM OneRunAtATime == Spec => []AtMostOneRunning
  <1>1. IInv => AtMostOneRunning
    BY DEF IInv
  <1> QED BY SpecIInv, <1>1, PTL

\* A run carries one input.
THEOREM OneInputPerRun == Spec => []OneInputOneRun
  <1>1. IInv => OneInputOneRun
    BY DEF IInv
  <1> QED BY SpecIInv, <1>1, PTL

\* A claimed input has a run that is running or failed.
THEOREM ClaimsHaveRuns == Spec => []ClaimHasItsRun
  <1>1. IInv => ClaimHasItsRun
    BY DEF IInv
  <1> QED BY SpecIInv, <1>1, PTL

\* A completed run stored its answer and consumed its input.
THEOREM CompletedRunsAnswered == Spec => []CompletedIsAnswered
  <1>1. IInv => CompletedIsAnswered
    BY DEF IInv
  <1> QED BY SpecIInv, <1>1, PTL

-----------------------------------------------------------------------------
(* What a step may never do.                                                 *)

\* The ways the status of a run moves.
Moves ==
    \A r \in Runs :
        \/ run'[r] = run[r]
        \/ run[r] = "free" /\ run'[r] = "running"
        \/ run[r] = "running" /\ run'[r] \in Terminal
        \/ run[r] # "free" /\ run'[r] = "deleted"

LEMMA NextMoves == TypeOK /\ [Next]_vars => Moves
  <1> SUFFICES ASSUME TypeOK, [Next]_vars PROVE Moves
    OBVIOUS
  <1>1. ASSUME run' = run \/ run' = ReapedRun PROVE Moves
    BY <1>1 DEF Moves, TypeOK, ReapedRun, Expired, Running, Terminal
  <1>2. ASSUME NEW i \in Inputs, NEW n \in Runs, StartRun(i, n) PROVE Moves
    BY <1>2 DEF Moves, TypeOK, StartRun, ReapedRun, Expired, Running, Terminal
  <1>3. ASSUME NEW q \in Runs, NEW s \in Terminal, Running(q), Finish(q, s) PROVE Moves
    BY <1>3 DEF Moves, TypeOK, Finish, Running
  <1>4. ASSUME NEW i \in Inputs, SubmitStep(i) PROVE Moves
    BY <1>1, <1>2, <1>4
    DEF SubmitStep, AppendUserTurn, EnqueueInput, WakeFindsNoClaim, WakeAttaches,
        HandlerLost, WakeStarts, ReapOnly, queueVars
  <1>5. CASE PollStep
    BY <1>1, <1>2, <1>5 DEF PollStep, Poll, PollClaimsNothing, PollStarts, ReapOnly, queueVars
  <1>6. ASSUME NEW q \in Runs, TaskStep(q) PROVE Moves
    <2>1. CASE CompleteRun(q) \/ FailRun(q) \/ FinishCancelled(q)
      BY <1>1, <1>3, <2>1 DEF CompleteRun, FailRun, FinishCancelled, CancelTx, Terminal
    <2>2. ASSUME NEW i \in Inputs, NEW n \in Runs, ClaimNext(q, i, n) PROVE Moves
      BY <1>2, <2>2 DEF ClaimNext
    <2>3. CASE \/ TakeOwnership(q) \/ BeginExecution(q) \/ WatcherTrips(q)
               \/ ExecutorCompletes(q) \/ ExecutorFails(q) \/ PersistAnswer(q)
               \/ ConsumeInput(q) \/ StopDraining(q)
      BY <1>1, <2>3
      DEF TakeOwnership, BeginExecution, WatcherTrips, ExecutorCompletes,
          ExecutorFails, PersistAnswer, ConsumeInput, StopDraining, ReapOnly, queueVars
    <2> QED BY <1>6, <2>1, <2>2, <2>3 DEF TaskStep
  <1>7. ASSUME NEW q \in Runs,
               HeartbeatRun(q) \/ SnapshotMemory(q) \/ TaskLost(q) \/ OwnerCancel(q)
        PROVE  Moves
    BY <1>1, <1>3, <1>7
    DEF HeartbeatRun, SnapshotMemory, TaskLost, OwnerCancel, CancelTx, queueVars, Terminal
  <1>8. CASE Wipe
    BY <1>8 DEF Moves, Wipe
  <1>9. CASE Tick \/ UNCHANGED vars
    BY <1>1, <1>9 DEF Tick, vars
  <1> QED BY <1>4, <1>5, <1>6, <1>7, <1>8, <1>9 DEF Next

\* A terminal run keeps its status until a wipe deletes it.
THEOREM OutcomesAreFinal == Spec => OutcomeIsFinal
  <1>1. ASSUME TypeOK, [Next]_vars
        PROVE  [\A r \in Runs : run[r] \in Terminal => run'[r] \in {run[r], "deleted"}]_vars
    <2>1. \A r \in Runs : run[r] \in Terminal => run'[r] \in {run[r], "deleted"}
      BY <1>1, NextMoves DEF Moves, Terminal
    <2> QED BY <2>1
  <1> QED BY TypeCorrect, <1>1, PTL DEF Spec, OutcomeIsFinal

-----------------------------------------------------------------------------
(* What timely heartbeats buy.                                               *)

\* The lease of a living task has not run out, and no living task's run is failed.
LeaseInv ==
    \A r \in Runs : Live(r) =>
        /\ run[r] \notin {"free", "failed"}
        /\ run[r] = "running" => lease[r] > 0

\* No task starts on a run of S.
NoNewTask(S) ==
    \A r \in S : task'[r] \notin {"none", "gone"} => task[r] \notin {"none", "gone"}

\* A step of the kinds that leave every lease or raise it.
LEMMA StillKeepsLease ==
  ASSUME TypeOK, LeaseInv, UNCHANGED run,
         \A r \in Runs : lease'[r] = lease[r] \/ lease'[r] = Lease,
         NoNewTask(Runs)
  PROVE  LeaseInv'
  BY ConstantsOK DEF LeaseInv, Live, NoNewTask

LEMMA ReapKeepsLease ==
  ASSUME TypeOK, LeaseInv, run' = ReapedRun, UNCHANGED lease,
         NoNewTask(Runs)
  PROVE  LeaseInv'
  BY DEF LeaseInv, TypeOK, ReapedRun, Expired, Running, Live, NoNewTask

LEMMA StartKeepsLease ==
  ASSUME TypeOK, LeaseInv, NEW i \in Inputs, NEW n \in Runs, StartRun(i, n),
         NoNewTask(Runs \ {n})
  PROVE  LeaseInv'
  <1>1. run'[n] = "running" /\ lease'[n] = Lease
    BY DEF StartRun, TypeOK, ReapedRun
  <1>2. \A r \in Runs \ {n} : run'[r] = ReapedRun[r] /\ lease'[r] = lease[r]
    BY DEF StartRun, TypeOK, ReapedRun
  <1>3. \A r \in Runs \ {n} : Live(r) => ReapedRun[r] = run[r]
    BY DEF LeaseInv, TypeOK, ReapedRun, Expired, Running
  <1> QED BY <1>1, <1>2, <1>3, ConstantsOK DEF LeaseInv, Live, NoNewTask

LEMMA FinishKeepsLease ==
  ASSUME TypeOK, LeaseInv, NEW q \in Runs, NEW s \in Terminal, Finish(q, s),
         s = "failed" => task'[q] = "gone",
         NoNewTask(Runs)
  PROVE  LeaseInv'
  BY DEF LeaseInv, TypeOK, Finish, Terminal, Live, NoNewTask

LEMMA NextLease == Timely /\ TypeOK /\ LeaseInv /\ [Next]_vars => LeaseInv'
  <1> SUFFICES ASSUME Timely, TypeOK, LeaseInv, [Next]_vars PROVE LeaseInv'
    OBVIOUS
  <1>1. ASSUME NEW i \in Inputs, SubmitStep(i) PROVE LeaseInv'
    <2>1. CASE AppendUserTurn(i) \/ EnqueueInput(i) \/ WakeAttaches(i) \/ HandlerLost(i)
      BY <2>1, StillKeepsLease
      DEF AppendUserTurn, EnqueueInput, WakeAttaches, HandlerLost, execVars, queueVars, NoNewTask
    <2>2. CASE WakeFindsNoClaim(i)
      BY <2>2, StillKeepsLease, ReapKeepsLease
      DEF WakeFindsNoClaim, ReapOnly, execVars, queueVars, NoNewTask
    <2>3. ASSUME NEW r \in Runs, WakeStarts(i, r) PROVE LeaseInv'
      BY <2>3, StartKeepsLease DEF WakeStarts, NoNewTask, TypeOK
    <2> QED BY <1>1, <2>1, <2>2, <2>3 DEF SubmitStep
  <1>2. CASE PollStep
    <2>1. CASE Poll \/ PollClaimsNothing
      BY <2>1, StillKeepsLease, ReapKeepsLease
      DEF Poll, PollClaimsNothing, ReapOnly, execVars, queueVars, NoNewTask
    <2>2. ASSUME NEW i \in Inputs, NEW r \in Runs, PollStarts(i, r) PROVE LeaseInv'
      BY <2>2, StartKeepsLease DEF PollStarts, NoNewTask, TypeOK
    <2> QED BY <1>2, <2>1, <2>2 DEF PollStep
  <1>3. ASSUME NEW q \in Runs, TaskStep(q) PROVE LeaseInv'
    <2>1. CASE \/ TakeOwnership(q) \/ BeginExecution(q) \/ WatcherTrips(q)
               \/ ExecutorCompletes(q) \/ ExecutorFails(q) \/ PersistAnswer(q)
               \/ ConsumeInput(q)
      <3>1. UNCHANGED run
        BY <2>1 DEF TakeOwnership, BeginExecution, WatcherTrips, ExecutorCompletes,
                    ExecutorFails, PersistAnswer, ConsumeInput, queueVars
      <3>2. lease' = lease \/ Extend(q)
        BY <2>1 DEF TakeOwnership, BeginExecution, WatcherTrips, ExecutorCompletes,
                    ExecutorFails, PersistAnswer, ConsumeInput, queueVars
      <3>3. Live(q) /\ \E p \in Phase : Goto(q, p)
        BY <2>1 DEF TakeOwnership, BeginExecution, WatcherTrips, ExecutorCompletes,
                    ExecutorFails, PersistAnswer, ConsumeInput, Live, Phase
      <3> QED BY <3>1, <3>2, <3>3, StillKeepsLease DEF Extend, Goto, Live, TypeOK, NoNewTask
    <2>2. CASE StopDraining(q)
      BY <2>2, StillKeepsLease, ReapKeepsLease
      DEF StopDraining, ReapOnly, queueVars, Goto, Live, TypeOK, NoNewTask
    <2>3. CASE CompleteRun(q) \/ FailRun(q) \/ FinishCancelled(q)
      <3>1. Live(q) /\ \E p \in Phase : Goto(q, p)
        BY <2>3 DEF CompleteRun, FailRun, FinishCancelled, Live, Phase
      <3>2. NoNewTask(Runs)
        BY <3>1 DEF Goto, Live, TypeOK, NoNewTask
      <3>3. \/ UNCHANGED <<run, lease>>
            \/ Finish(q, "completed") \/ Finish(q, "cancelled")
            \/ Finish(q, "failed") /\ Goto(q, "gone")
        BY <2>3 DEF CompleteRun, FailRun, FinishCancelled, CancelTx
      <3>4. Goto(q, "gone") => task'[q] = "gone"
        BY DEF Goto, TypeOK
      <3> QED BY <3>2, <3>3, <3>4, StillKeepsLease, FinishKeepsLease DEF Terminal
    <2>4. ASSUME NEW i \in Inputs, NEW n \in Runs, ClaimNext(q, i, n) PROVE LeaseInv'
      BY <2>4, StartKeepsLease DEF ClaimNext, NoNewTask, Live, TypeOK
    <2> QED BY <1>3, <2>1, <2>2, <2>3, <2>4 DEF TaskStep
  <1>4. ASSUME NEW q \in Runs, HeartbeatRun(q) \/ SnapshotMemory(q) \/ TaskLost(q)
        PROVE  LeaseInv'
    <2>1. UNCHANGED run /\ (lease' = lease \/ Extend(q))
      BY <1>4 DEF HeartbeatRun, SnapshotMemory, TaskLost, queueVars
    <2>2. task' = task \/ Goto(q, "gone")
      BY <1>4 DEF HeartbeatRun, SnapshotMemory, TaskLost
    <2> QED BY <2>1, <2>2, StillKeepsLease DEF Extend, Goto, Live, TypeOK, NoNewTask
  <1>5. ASSUME NEW q \in Runs, OwnerCancel(q) PROVE LeaseInv'
    BY <1>5, FinishKeepsLease DEF OwnerCancel, CancelTx, execVars, NoNewTask, Terminal
  <1>6. CASE Wipe
    BY <1>6 DEF Wipe, LeaseInv, TypeOK, Live
  <1>7. CASE Tick
    <2>1. \A r \in Runs : Live(r) /\ Running(r) => lease[r] > 1
      BY <1>7, ConstantsOK DEF Tick, OnTime, TypeOK
    <2>2. \A r \in Runs : lease[r] > 1 => lease'[r] > 0
      BY <1>7 DEF Tick, TypeOK
    <2> QED BY <1>7, <2>1, <2>2 DEF Tick, execVars, LeaseInv, Live, Running
  <1>8. CASE UNCHANGED vars
    BY <1>8, StillKeepsLease DEF vars, NoNewTask
  <1> QED BY <1>1, <1>2, <1>3, <1>4, <1>5, <1>6, <1>7, <1>8 DEF Next

\* With heartbeats on time, no reap fails the run of a living task, whatever
\* the lease and the heartbeat interval shorter than it.
THEOREM TimelyTasksKeepRuns == ASSUME Timely PROVE Spec => []LiveTaskKeepsItsRun
  <1>1. Init => LeaseInv
    BY DEF Init, LeaseInv, Live
  <1>2. TypeOK /\ LeaseInv /\ [Next]_vars => LeaseInv'
    BY NextLease
  <1>3. LeaseInv => LiveTaskKeepsItsRun
    BY DEF LeaseInv, LiveTaskKeepsItsRun
  <1> QED BY TypeCorrect, <1>1, <1>2, <1>3, PTL DEF Spec

-----------------------------------------------------------------------------
(* What follows for the executors, the inputs and the memory snapshot, as    *)
(* long as heartbeats are on time.                                           *)

\* The task that completes its run has nothing left to execute, and an executor
\* trips only when its run was cancelled or wiped.
CompletedPhase ==
    \A r \in Runs : run[r] = "completed" => task[r] \in {"completed", "gone"}
TrippedPhase ==
    \A r \in Runs : task[r] \in {"tripped", "cancelled", "cancel_consumed"} =>
        run[r] \in {"cancelled", "deleted"}

\* As long as no run was cancelled or wiped, the snapshot holds every completed
\* run and the one that is about to complete, and the executor at work started
\* from a snapshot that held every completed one.
Undisturbed == \A s \in Runs : run[s] \notin {"cancelled", "deleted"}
MemoryOfCompleted ==
    Undisturbed => \A r \in Runs : run[r] = "completed" => r \in memory
MemoryOfCheckpointed ==
    Undisturbed => \A r \in Runs :
        task[r] \in {"checkpointed", "answered", "consumed"} => r \in memory
MemorySeen ==
    Undisturbed => \A r, s \in Runs :
        task[r] = "executing" /\ run[s] = "completed" => s \in seen[r]

\* A consumed input belongs to a run.
ConsumedLinked == \A i \in Inputs : input[i] = "consumed" => turnRun[i] # NoRun

TInv == CompletedPhase /\ TrippedPhase /\ ConsumedLinked /\ ConsumedForAReason
MInv == MemoryOfCompleted /\ MemoryOfCheckpointed /\ MemorySeen

\* What the reap, a claim and the end of a run make of the statuses.
LEMMA ReapedMoves ==
  ASSUME TypeOK, run' = run \/ run' = ReapedRun
  PROVE  \A r \in Runs : run'[r] = run[r] \/ (run[r] = "running" /\ run'[r] = "failed")
  BY DEF ReapedRun, Expired, Running

LEMMA StartMoves ==
  ASSUME TypeOK, NEW i \in Inputs, NEW n \in Runs, StartRun(i, n)
  PROVE  /\ run'[n] = "running"
         /\ \A r \in Runs \ {n} :
              run'[r] = run[r] \/ (run[r] = "running" /\ run'[r] = "failed")
  BY DEF StartRun, ReapedRun, Expired, Running

LEMMA FinishMoves ==
  ASSUME TypeOK, NEW q \in Runs, NEW s, Finish(q, s)
  PROVE  \A r \in Runs : run'[r] = IF r = q THEN s ELSE run[r]
  BY DEF TypeOK, Finish

\* Under timely heartbeats a task short of its completion works on a running run.
LEMMA OneWorker ==
  ASSUME IInv, LeaseInv, CompletedPhase, Undisturbed, NEW r \in Runs, NEW s \in Runs,
         task[r] \notin {"none", "gone", "completed"},
         task[s] \notin {"none", "gone", "completed"}
  PROVE  r = s
  <1>1. ASSUME NEW q \in Runs, task[q] \notin {"none", "gone", "completed"}
        PROVE  Running(q)
    BY <1>1 DEF IInv, TypeOK, RunStatus, LeaseInv, Live, CompletedPhase, Undisturbed, Running
  <1> QED BY <1>1 DEF IInv, AtMostOneRunning

\* A step on which nothing is consumed without a reason and no reason is lost.
LEMMA ReasonKept ==
  ASSUME IInv, TInv, Moves, \A r \in Runs : run'[r] = "deleted" => run[r] = "deleted",
         answered \subseteq answered',
         \A i \in Inputs : input'[i] = "consumed" =>
            \/ input[i] = "consumed" /\ turnRun'[i] = turnRun[i]
            \/ /\ turnRun'[i] \in Runs
               /\ turnRun'[i] \in answered' \/ run'[turnRun'[i]] = "cancelled"
  PROVE  ConsumedLinked' /\ ConsumedForAReason'
  BY ConstantsOK
  DEF IInv, TypeOK, TInv, Moves, Terminal, ConsumedLinked, ConsumedForAReason

LEMMA StartT ==
  ASSUME IInv, TInv, Moves, NEW i \in Inputs, NEW n \in Runs, StartRun(i, n),
         task'[n] = "claimed", UNCHANGED answered,
         \A r \in Runs \ {n} : task'[r] = task[r] \/ task'[r] = "gone"
  PROVE  TInv'
  <1> USE DEF IInv, TypeOK
  <1>1. /\ run'[n] = "running"
        /\ \A r \in Runs \ {n} : run'[r] = run[r] \/ (run[r] = "running" /\ run'[r] = "failed")
    BY StartMoves
  <1>2. /\ \A j \in Inputs : input'[j] = "consumed" =>
             input[j] = "consumed" /\ turnRun'[j] = turnRun[j]
    BY DEF StartRun
  <1>3. (ConsumedLinked /\ ConsumedForAReason)'
    BY <1>1, <1>2, ReasonKept
  <1> QED BY <1>1, <1>3 DEF TInv, CompletedPhase, TrippedPhase

\* The memory of the runs, of the inputs and of the tasks of a step that reaps.
LEMMA ReapT ==
  ASSUME IInv, TInv, Moves, run' = run \/ run' = ReapedRun,
         UNCHANGED <<turnRun, answered>>,
         \A i \in Inputs : input'[i] = "consumed" => input[i] = "consumed",
         \A r \in Runs : \/ task'[r] = task[r]
                         \/ /\ task[r] \notin {"completed", "gone"}
                            /\ run[r] # "completed"
                            /\ task'[r] \in {"tripped", "cancelled", "cancel_consumed"} =>
                                 run[r] \in {"cancelled", "deleted"}
                         \/ task'[r] = "gone"
  PROVE  TInv'
  <1> USE DEF IInv, TypeOK
  <1>1. \A r \in Runs : run'[r] = run[r] \/ (run[r] = "running" /\ run'[r] = "failed")
    BY ReapedMoves
  <1>2. (ConsumedLinked /\ ConsumedForAReason)'
    BY <1>1, ReasonKept
  <1> QED BY <1>1, <1>2 DEF TInv, CompletedPhase, TrippedPhase

\* A run that is cancelled takes its input with it.
LEMMA CancelT ==
  ASSUME IInv, TInv, Moves, NEW q \in Runs, CancelTx(q), UNCHANGED <<turnRun, answered>>,
         \A r \in Runs : task'[r] = task[r] \/ task'[r] = "gone"
  PROVE  TInv'
  <1> USE DEF IInv, TypeOK
  <1>1. \A r \in Runs : run'[r] = run[r] \/ (r = q /\ run'[r] = "cancelled")
    BY FinishMoves DEF CancelTx
  <1>2. \A i \in Inputs : input'[i] = "consumed" =>
          input[i] = "consumed" \/ (turnRun[i] = q /\ run'[q] = "cancelled")
    BY FinishMoves DEF CancelTx, ConsumeClaimed, InputOf
  <1>3. (ConsumedLinked /\ ConsumedForAReason)'
    BY <1>1, <1>2, ReasonKept
  <1> QED BY <1>1, <1>3 DEF TInv, CompletedPhase, TrippedPhase

LEMMA TaskT ==
  ASSUME IInv, LeaseInv, TInv, Moves, NEW q \in Runs, TaskStep(q)
  PROVE  TInv'
  <1> USE DEF IInv, TypeOK
  <1>0. task[q] \notin {"completed", "gone"} => run[q] # "completed"
    BY DEF TInv, CompletedPhase
  <1>1. CASE TakeOwnership(q) \/ BeginExecution(q) \/ ExecutorCompletes(q)
    BY <1>0, <1>1, ReapT
    DEF TakeOwnership, BeginExecution, ExecutorCompletes, Goto, queueVars
  <1>2. CASE WatcherTrips(q)
    <2>1. run[q] \in {"cancelled", "deleted"}
      BY <1>0, <1>2 DEF WatcherTrips, Running, LeaseInv, Live, RunStatus
    <2> QED BY <1>0, <1>2, <2>1, ReapT DEF WatcherTrips, Goto, queueVars
  <1>3. CASE ExecutorFails(q)
    <2>1. task[q] = "tripped" => run[q] \in {"cancelled", "deleted"}
      BY DEF TInv, TrippedPhase
    <2> QED BY <1>0, <1>3, <2>1, ReapT DEF ExecutorFails, Goto, queueVars
  <1>4. CASE PersistAnswer(q)
    <2>1. (ConsumedLinked /\ ConsumedForAReason)'
      BY <1>4, ReasonKept DEF PersistAnswer, queueVars
    <2> QED BY <1>0, <1>4, <2>1
        DEF PersistAnswer, Goto, queueVars, TInv, CompletedPhase, TrippedPhase
  <1>5. CASE ConsumeInput(q)
    <2>1. CASE task[q] = "answered"
      <3>1. q \in answered \/ \A i \in Inputs : input'[i] = input[i]
        BY <1>5, <2>1 DEF ConsumeInput, ConsumeClaimed, AnsweredBefore, WipedAll
      <3>2. (ConsumedLinked /\ ConsumedForAReason)'
        BY <1>5, <3>1, ReasonKept DEF ConsumeInput, ConsumeClaimed, InputOf
      <3> QED BY <1>0, <1>5, <2>1, <3>2
          DEF ConsumeInput, Goto, TInv, CompletedPhase, TrippedPhase
    <2>2. CASE task[q] = "cancelled"
      <3>1. run[q] \in {"cancelled", "deleted"}
        BY <2>2 DEF TInv, TrippedPhase
      <3>2. \A i \in Inputs : input'[i] = input[i]
        BY <1>5, <3>1 DEF ConsumeInput, ConsumeClaimed, InputOf, ClaimHasItsRun
      <3> QED BY <1>0, <1>5, <2>2, <3>1, <3>2, ReapT DEF ConsumeInput, Goto
    <2> QED BY <1>5, <2>1, <2>2 DEF ConsumeInput
  <1>6. CASE CompleteRun(q)
    <2>1. \A r \in Runs :
            \/ run'[r] = run[r]
            \/ r = q /\ run'[r] = "completed" /\ task'[r] = "completed"
      BY <1>6, FinishMoves DEF CompleteRun, Goto
    <2>2. (ConsumedLinked /\ ConsumedForAReason)'
      BY <1>6, <2>1, ReasonKept DEF CompleteRun
    <2> QED BY <1>0, <1>6, <2>1, <2>2
        DEF CompleteRun, Goto, TInv, CompletedPhase, TrippedPhase
  <1>7. CASE StopDraining(q)
    BY <1>7, ReapT DEF StopDraining, ReapOnly, Goto
  <1>8. CASE FailRun(q)
    <2>1. \A r \in Runs : run'[r] = run[r] \/ (r = q /\ run'[r] = "failed")
      BY <1>8, FinishMoves DEF FailRun
    <2>2. (ConsumedLinked /\ ConsumedForAReason)'
      BY <1>8, <2>1, ReasonKept DEF FailRun
    <2> QED BY <1>0, <1>8, <2>1, <2>2 DEF FailRun, Goto, TInv, CompletedPhase, TrippedPhase
  <1>9. CASE FinishCancelled(q)
    BY <1>9, CancelT DEF FinishCancelled, Goto
  <1>10. ASSUME NEW i \in Inputs, NEW n \in Runs, ClaimNext(q, i, n) PROVE TInv'
    BY <1>10, StartT DEF ClaimNext
  <1> QED BY <1>1, <1>2, <1>3, <1>4, <1>5, <1>6, <1>7, <1>8, <1>9, <1>10 DEF TaskStep

LEMMA NextT ==
  ASSUME IInv, IInv', LeaseInv, TInv, Moves, [Next]_vars
  PROVE  TInv'
  <1> USE DEF IInv, TypeOK
  <1>1. ASSUME NEW i \in Inputs, SubmitStep(i) PROVE TInv'
    <2>1. CASE \/ AppendUserTurn(i) \/ EnqueueInput(i) \/ WakeFindsNoClaim(i)
               \/ WakeAttaches(i) \/ HandlerLost(i)
      BY <2>1, ReapT
      DEF AppendUserTurn, EnqueueInput, WakeFindsNoClaim, WakeAttaches, HandlerLost,
          ReapOnly, queueVars, execVars
    <2>2. ASSUME NEW n \in Runs, WakeStarts(i, n) PROVE TInv'
      BY <2>2, StartT DEF WakeStarts
    <2> QED BY <1>1, <2>1, <2>2 DEF SubmitStep
  <1>2. CASE PollStep
    <2>1. CASE Poll \/ PollClaimsNothing
      BY <2>1, ReapT DEF Poll, PollClaimsNothing, ReapOnly, queueVars, execVars
    <2>2. ASSUME NEW i \in Inputs, NEW n \in Runs, PollStarts(i, n) PROVE TInv'
      BY <2>2, StartT DEF PollStarts
    <2> QED BY <1>2, <2>1, <2>2 DEF PollStep
  <1>3. ASSUME NEW q \in Runs, TaskStep(q) PROVE TInv'
    BY <1>3, TaskT
  <1>4. ASSUME NEW q \in Runs, HeartbeatRun(q) \/ SnapshotMemory(q) \/ TaskLost(q)
        PROVE  TInv'
    BY <1>4, ReapT DEF HeartbeatRun, SnapshotMemory, TaskLost, Goto, queueVars
  <1>5. ASSUME NEW q \in Runs, OwnerCancel(q) PROVE TInv'
    BY <1>5, CancelT DEF OwnerCancel, execVars
  <1>6. CASE Wipe
    <2>1. \A i \in Inputs : input'[i] # "consumed"
      BY <1>6 DEF Wipe
    <2> QED BY <1>6, <2>1
        DEF Wipe, TInv, CompletedPhase, TrippedPhase, ConsumedLinked, ConsumedForAReason
  <1>7. CASE Tick \/ UNCHANGED vars
    BY <1>7, ReapT DEF Tick, execVars, vars
  <1> QED BY <1>1, <1>2, <1>3, <1>4, <1>5, <1>6, <1>7 DEF Next


-----------------------------------------------------------------------------
\* A cancelled or wiped run stays so: what is undisturbed after a step was
\* undisturbed before it.
LEMMA UndisturbedBefore == ASSUME Moves, Undisturbed' PROVE Undisturbed
  BY DEF Moves, Undisturbed, Terminal

\* A step that leaves the snapshot, gives no run its outcome and moves no task
\* to a phase that the memory bookkeeping is about.
LEMMA MemoryUntouched ==
  ASSUME MInv, Moves, UNCHANGED <<memory, seen>>,
         \A r \in Runs : run'[r] = "completed" => run[r] = "completed",
         \A r \in Runs : \/ task'[r] = task[r]
                         \/ task'[r] \notin {"executing", "checkpointed", "answered",
                                             "consumed"}
                         \/ /\ task'[r] # "executing"
                            /\ task[r] \in {"checkpointed", "answered", "consumed"}
  PROVE  MInv'
  BY UndisturbedBefore
  DEF MInv, MemoryOfCompleted, MemoryOfCheckpointed, MemorySeen

\* The executor at work replaces the snapshot by what it started from and its
\* own conversation; no other task has anything at stake.
LEMMA MemoryReplaced ==
  ASSUME IInv, LeaseInv, TInv, MInv, Moves, NEW q \in Runs,
         task[q] \in {"executing", "tripped"}, memory' = seen[q] \cup {q},
         UNCHANGED <<run, seen>>,
         \A r \in Runs \ {q} : task'[r] = task[r],
         task'[q] \in {task[q], "checkpointed"}
  PROVE  MInv'
  <1> SUFFICES ASSUME Undisturbed PROVE MInv'
    BY UndisturbedBefore DEF MInv, MemoryOfCompleted, MemoryOfCheckpointed, MemorySeen
  <1>1. task[q] = "executing"
    BY DEF TInv, TrippedPhase, Undisturbed
  <1>2. \A r \in Runs : task[r] \in {"checkpointed", "answered", "consumed"} => r = q
    BY <1>1, OneWorker DEF TInv
  <1>3. MemoryOfCompleted' /\ MemorySeen'
    BY <1>1 DEF MInv, MemoryOfCompleted, MemorySeen, Undisturbed
  <1>4. MemoryOfCheckpointed'
    BY <1>1, <1>2 DEF MemoryOfCheckpointed
  <1> QED BY <1>3, <1>4 DEF MInv

LEMMA TaskM ==
  ASSUME ~LoadFaults, IInv, LeaseInv, TInv, MInv, Moves, NEW q \in Runs, TaskStep(q)
  PROVE  MInv'
  <1> USE DEF IInv, TypeOK
  <1>1. CASE TakeOwnership(q) \/ WatcherTrips(q) \/ ExecutorFails(q) \/ PersistAnswer(q)
             \/ ConsumeInput(q)
    BY <1>1, MemoryUntouched
    DEF TakeOwnership, WatcherTrips, ExecutorFails, PersistAnswer, ConsumeInput, Goto, queueVars
  <1>2. CASE BeginExecution(q)
    <2>1. CASE task'[q] = "gone"
      <3>1. UNCHANGED <<memory, run>> /\ \A r \in Runs \ {q} : task'[r] = task[r]
        BY <1>2 DEF BeginExecution, Goto, queueVars
      <3>2. UNCHANGED seen
        BY <1>2, <2>1 DEF BeginExecution, Goto
      <3> QED BY <2>1, <3>1, <3>2, MemoryUntouched
    <2>2. CASE task'[q] # "gone"
      <3>1. /\ UNCHANGED <<memory, run>> /\ \A r \in Runs \ {q} : task'[r] = task[r]
            /\ task'[q] = "executing"
        BY <1>2, <2>2 DEF BeginExecution, Goto, queueVars
      <3>2. \A r \in Runs : seen'[r] = IF r = q THEN memory ELSE seen[r]
        BY <1>2, <2>2 DEF BeginExecution, Goto
      <3>3. MemoryOfCompleted' /\ MemoryOfCheckpointed'
        BY <3>1 DEF MInv, MemoryOfCompleted, MemoryOfCheckpointed, Undisturbed
      <3>4. MemorySeen'
        BY <3>1, <3>2 DEF MInv, MemoryOfCompleted, MemorySeen, Undisturbed
      <3> QED BY <3>3, <3>4 DEF MInv
    <2> QED BY <2>1, <2>2
  <1>3. CASE ExecutorCompletes(q)
    BY <1>3, MemoryReplaced DEF ExecutorCompletes, Goto, queueVars
  <1>4. CASE CompleteRun(q)
    <2>1. UNCHANGED <<memory, seen>> /\ task[q] = "consumed"
      BY <1>4 DEF CompleteRun
    <2>2. CASE UNCHANGED run
      BY <1>4, <2>1, <2>2, MemoryUntouched DEF CompleteRun, Goto
    <2>3. CASE Finish(q, "completed")
      <3>1. /\ \A r \in Runs : run'[r] = IF r = q THEN "completed" ELSE run[r]
            /\ \A r \in Runs : task'[r] = IF r = q THEN task'[q] ELSE task[r]
            /\ task'[q] \in {"completed", "gone"}
        BY <1>4, <2>3, FinishMoves DEF CompleteRun, Goto
      <3>2. Undisturbed' => \A r \in Runs : task[r] = "executing" => r = q
        BY <2>1, UndisturbedBefore, OneWorker DEF TInv
      <3>3. MemoryOfCompleted' /\ MemoryOfCheckpointed'
        BY <2>1, <3>1, UndisturbedBefore DEF MInv, MemoryOfCompleted, MemoryOfCheckpointed
      <3>4. MemorySeen'
        BY <2>1, <3>1, <3>2 DEF MemorySeen
      <3> QED BY <3>3, <3>4 DEF MInv
    <2> QED BY <1>4, <2>2, <2>3 DEF CompleteRun
  <1>5. CASE StopDraining(q) \/ FailRun(q) \/ FinishCancelled(q)
    <2>1. \A r \in Runs : run'[r] = "completed" => run[r] = "completed"
      BY <1>5, ReapedMoves, FinishMoves
      DEF StopDraining, FailRun, FinishCancelled, ReapOnly, CancelTx
    <2> QED BY <1>5, <2>1, MemoryUntouched
        DEF StopDraining, FailRun, FinishCancelled, Goto
  <1>6. ASSUME NEW i \in Inputs, NEW n \in Runs, ClaimNext(q, i, n) PROVE MInv'
    <2>1. \A r \in Runs : run'[r] = "completed" => run[r] = "completed"
      BY <1>6, StartMoves DEF ClaimNext
    <2> QED BY <1>6, <2>1, MemoryUntouched DEF ClaimNext
  <1> QED BY <1>1, <1>2, <1>3, <1>4, <1>5, <1>6 DEF TaskStep

LEMMA NextM ==
  ASSUME ~LoadFaults, IInv, LeaseInv, TInv, MInv, Moves, [Next]_vars
  PROVE  MInv'
  <1> USE DEF IInv, TypeOK
  <1>1. ASSUME NEW i \in Inputs, SubmitStep(i) PROVE MInv'
    <2>1. CASE \/ AppendUserTurn(i) \/ EnqueueInput(i) \/ WakeFindsNoClaim(i)
               \/ WakeAttaches(i) \/ HandlerLost(i)
      <3>1. run' = run \/ run' = ReapedRun
        BY <2>1
        DEF AppendUserTurn, EnqueueInput, WakeFindsNoClaim, WakeAttaches, HandlerLost,
            ReapOnly, queueVars
      <3>2. \A r \in Runs : run'[r] = "completed" => run[r] = "completed"
        BY <3>1, ReapedMoves
      <3> QED BY <2>1, <3>2, MemoryUntouched
          DEF AppendUserTurn, EnqueueInput, WakeFindsNoClaim, WakeAttaches, HandlerLost,
              execVars
    <2>2. ASSUME NEW n \in Runs, WakeStarts(i, n) PROVE MInv'
      <3>1. \A r \in Runs : run'[r] = "completed" => run[r] = "completed"
        BY <2>2, StartMoves DEF WakeStarts
      <3> QED BY <2>2, <3>1, MemoryUntouched DEF WakeStarts
    <2> QED BY <1>1, <2>1, <2>2 DEF SubmitStep
  <1>2. CASE PollStep
    <2>1. CASE Poll \/ PollClaimsNothing
      <3>1. \A r \in Runs : run'[r] = "completed" => run[r] = "completed"
        BY <2>1, ReapedMoves DEF Poll, PollClaimsNothing, ReapOnly, queueVars
      <3> QED BY <2>1, <3>1, MemoryUntouched DEF Poll, PollClaimsNothing, execVars
    <2>2. ASSUME NEW i \in Inputs, NEW n \in Runs, PollStarts(i, n) PROVE MInv'
      <3>1. \A r \in Runs : run'[r] = "completed" => run[r] = "completed"
        BY <2>2, StartMoves DEF PollStarts
      <3> QED BY <2>2, <3>1, MemoryUntouched DEF PollStarts
    <2> QED BY <1>2, <2>1, <2>2 DEF PollStep
  <1>3. ASSUME NEW q \in Runs, TaskStep(q) PROVE MInv'
    BY <1>3, TaskM
  <1>4. ASSUME NEW q \in Runs, HeartbeatRun(q) \/ TaskLost(q) PROVE MInv'
    BY <1>4, MemoryUntouched DEF HeartbeatRun, TaskLost, Goto, queueVars
  <1>5. ASSUME NEW q \in Runs, SnapshotMemory(q) PROVE MInv'
    BY <1>5, MemoryReplaced DEF SnapshotMemory, queueVars
  <1>6. ASSUME NEW q \in Runs, OwnerCancel(q) PROVE MInv'
    <2>1. \A r \in Runs : run'[r] = "completed" => run[r] = "completed"
      BY <1>6, FinishMoves DEF OwnerCancel, CancelTx
    <2> QED BY <1>6, <2>1, MemoryUntouched DEF OwnerCancel, execVars
  <1>7. CASE Wipe
    <2>1. ~Undisturbed' \/ \A r \in Runs : run'[r] = "free"
      BY <1>7 DEF Wipe, Undisturbed
    <2>2. (\A r \in Runs : run'[r] = "free") => \A r \in Runs : task'[r] = "none"
      BY <1>7 DEF Wipe, TaskHasRun
    <2> QED BY <2>1, <2>2
        DEF MInv, MemoryOfCompleted, MemoryOfCheckpointed, MemorySeen
  <1>8. CASE Tick \/ UNCHANGED vars
    BY <1>8, MemoryUntouched DEF Tick, execVars, vars
  <1> QED BY <1>1, <1>2, <1>3, <1>4, <1>5, <1>6, <1>7, <1>8 DEF Next

-----------------------------------------------------------------------------
\* The state of a run with heartbeats on time.
TimelyInv == IInv /\ LeaseInv /\ TInv

LEMMA SpecTimely == ASSUME Timely PROVE Spec => []TimelyInv
  <1>1. Init => TimelyInv
    BY InitIInv DEF Init, TimelyInv, LeaseInv, Live, TInv, CompletedPhase, TrippedPhase,
                    ConsumedLinked, ConsumedForAReason
  <1>2. TimelyInv /\ [Next]_vars => TimelyInv'
    <2> SUFFICES ASSUME TimelyInv, [Next]_vars PROVE TimelyInv'
      OBVIOUS
    <2>1. IInv' /\ LeaseInv' /\ Moves
      BY NextIInv, NextLease, NextMoves DEF TimelyInv, IInv
    <2>2. TInv'
      BY <2>1, NextT DEF TimelyInv
    <2> QED BY <2>1, <2>2 DEF TimelyInv
  <1> QED BY <1>1, <1>2, PTL DEF Spec

\* With heartbeats on time, two executors overlap only when one of them works
\* for a run that was cancelled or wiped.
THEOREM ExecutorsOverlap == ASSUME Timely PROVE Spec => []ExecutorsOverlapOnlyByCancel
  <1>1. TimelyInv => ExecutorsOverlapOnlyByCancel
    <2> SUFFICES ASSUME TimelyInv, NEW r \in Runs, NEW s \in Runs, r # s,
                        task[r] \in {"executing", "checkpointed"},
                        task[s] \in {"executing", "checkpointed"},
                        {run[r], run[s]} \cap {"cancelled", "deleted"} = {}
                 PROVE  FALSE
      BY DEF ExecutorsOverlapOnlyByCancel
    <2>1. /\ run[r] \notin {"cancelled", "deleted", "completed", "free", "failed"}
          /\ run[s] \notin {"cancelled", "deleted", "completed", "free", "failed"}
      BY DEF TimelyInv, LeaseInv, Live, TInv, CompletedPhase
    <2>2. Running(r) /\ Running(s)
      BY <2>1 DEF TimelyInv, IInv, TypeOK, RunStatus, Running
    <2> QED BY <2>2 DEF TimelyInv, IInv, AtMostOneRunning
  <1> QED BY SpecTimely, <1>1, PTL

\* With heartbeats on time, an input is consumed for a stored answer or a cancel.
THEOREM ConsumedWithReason == ASSUME Timely PROVE Spec => []ConsumedForAReason
  <1>1. TimelyInv => ConsumedForAReason
    BY DEF TimelyInv, TInv
  <1> QED BY SpecTimely, <1>1, PTL

\* With heartbeats on time and every load of the snapshot answered, the snapshot
\* keeps the conversation of every completed run until a run is cancelled or wiped.
THEOREM MemoryKept ==
  ASSUME Timely, ~LoadFaults PROVE Spec => []MemoryKeepsCompletedRuns
  <1>1. Init => MInv
    BY DEF Init, MInv, MemoryOfCompleted, MemoryOfCheckpointed, MemorySeen
  <1>2. TimelyInv /\ MInv /\ [Next]_vars => MInv'
    BY NextM, NextMoves DEF TimelyInv, IInv
  <1>3. MInv => MemoryKeepsCompletedRuns
    BY DEF MInv, MemoryOfCompleted, MemoryKeepsCompletedRuns, Undisturbed
  <1> QED BY SpecTimely, <1>1, <1>2, <1>3, PTL DEF Spec


-----------------------------------------------------------------------------
\* No step overtakes an older queued input, except the wake of the request that
\* submitted the newer one.
THEOREM ClaimsOldestFirst == Spec => ClaimsInOrder
  <1> DEFINE InOrder ==
        \A i, j \in Inputs :
          /\ input[i] = "queued" /\ input'[i] = "claimed"
          /\ input[j] = "queued" /\ j < i
          => handler[i] = "waking" /\ handler'[i] = "started"
  <1>1. ASSUME NEW i \in Inputs, NEW n \in Runs, TypeOK, StartRun(i, n), Oldest(i) PROVE InOrder
    BY <1>1, ConstantsOK DEF StartRun, Oldest, Queued, TypeOK
  <1>2. ASSUME TypeOK, UNCHANGED input PROVE InOrder
    BY <1>2
  <1>3. ASSUME TypeOK, [Next]_vars PROVE InOrder
    <2> SUFFICES ASSUME Next PROVE InOrder
      BY <1>2, <1>3 DEF vars
    <2>1. ASSUME NEW k \in Inputs, SubmitStep(k) PROVE InOrder
      <3>1. CASE AppendUserTurn(k) \/ EnqueueInput(k)
        BY <1>3, <3>1 DEF AppendUserTurn, EnqueueInput, TypeOK
      <3>2. CASE WakeFindsNoClaim(k) \/ WakeAttaches(k) \/ HandlerLost(k)
        BY <1>2, <1>3, <3>2 DEF WakeFindsNoClaim, WakeAttaches, HandlerLost, ReapOnly, queueVars
      <3>3. ASSUME NEW n \in Runs, WakeStarts(k, n) PROVE InOrder
        BY <1>3, <3>3 DEF WakeStarts, StartRun, TypeOK
      <3> QED BY <2>1, <3>1, <3>2, <3>3 DEF SubmitStep
    <2>2. CASE PollStep
      BY <1>1, <1>2, <1>3, <2>2 DEF PollStep, Poll, PollClaimsNothing, PollStarts, ReapOnly, queueVars
    <2>3. ASSUME NEW q \in Runs, TaskStep(q) PROVE InOrder
      <3>1. CASE \/ TakeOwnership(q) \/ BeginExecution(q) \/ WatcherTrips(q)
                 \/ ExecutorCompletes(q) \/ ExecutorFails(q) \/ PersistAnswer(q)
                 \/ CompleteRun(q) \/ StopDraining(q) \/ FailRun(q)
        BY <1>2, <1>3, <3>1
        DEF TakeOwnership, BeginExecution, WatcherTrips, ExecutorCompletes, ExecutorFails,
            PersistAnswer, CompleteRun, StopDraining, FailRun, ReapOnly, queueVars
      <3>2. CASE ConsumeInput(q) \/ FinishCancelled(q)
        BY <3>2 DEF ConsumeInput, FinishCancelled, CancelTx, ConsumeClaimed
      <3>3. ASSUME NEW i \in Inputs, NEW n \in Runs, ClaimNext(q, i, n) PROVE InOrder
        BY <1>1, <1>3, <3>3 DEF ClaimNext
      <3> QED BY <2>3, <3>1, <3>2, <3>3 DEF TaskStep
    <2>4. ASSUME NEW q \in Runs, OwnerCancel(q) PROVE InOrder
      BY <2>4 DEF OwnerCancel, CancelTx, ConsumeClaimed
    <2>5. ASSUME NEW q \in Runs, HeartbeatRun(q) \/ SnapshotMemory(q) \/ TaskLost(q)
          PROVE  InOrder
      BY <1>2, <1>3, <2>5 DEF HeartbeatRun, SnapshotMemory, TaskLost, queueVars
    <2>6. CASE Wipe
      BY <2>6 DEF Wipe
    <2>7. CASE Tick
      BY <1>2, <1>3, <2>7 DEF Tick
    <2> QED BY <2>1, <2>2, <2>3, <2>4, <2>5, <2>6, <2>7 DEF Next
  <1>4. TypeOK /\ [Next]_vars => [InOrder]_vars
    BY <1>3
  <1> QED BY TypeCorrect, <1>4, PTL DEF Spec, ClaimsInOrder
=============================================================================
