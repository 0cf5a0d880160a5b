--------------------------- MODULE ChatTaskProofs ---------------------------
(***************************************************************************)
(* Proofs about ChatTask, for any number of messages and any limits: types   *)
(* and limits, what an answer promises, that no message is lost and that a   *)
(* cancel is heard.  The hypotheses of the theorems exclude what breaks them *)
(* in the code: overlapping flows, drafts and a full progress channel.       *)
(***************************************************************************)
EXTENDS ChatTask, SequenceTheorems, TLAPS

Results == {"none", "completed", "report", "waiting", "failed", "cancelled", "timed_out"}
Replies == [kind : Results \cup {"refused"}, covers : SUBSET Messages, owes : SUBSET Messages]
Points == {"idle", "loop", "drained", "sample", "tools", "saving", "returning"}

Shapes ==
    /\ inbox \in Seq(Messages) /\ known \in Seq(Messages) /\ drained \in Seq(Messages)
    /\ followups \in Seq(Messages)
    /\ stage \in [Messages -> Stages]
    /\ mode \in [Messages -> {"none", "task", "continue", "resume"}]
    /\ followed \in [Messages -> Seq(Messages)]
    /\ handle \in [Messages -> Nat] /\ current \in Nat
    /\ reply \in [Messages -> Replies]
    /\ holder \in Messages \cup {NoFlow}
    /\ pc \in Points /\ result \in Results
    /\ answer \in SUBSET Messages /\ owed \in SUBSET Messages
    /\ accepted \in SUBSET Messages
    /\ draft \in SUBSET (SUBSET Messages)

\* The flow that holds the executor's lock is the one whose run is under way.
OneRun ==
    /\ holder = NoFlow <=> pc = "idle"
    /\ \A m \in Messages : stage[m] = "running" <=> holder = m

\* Messages are out of the inbox and not yet in memory only between two awaits.
DrainedAtOnce == drained # <<>> => pc = "drained"

\* Follow-ups are collected while an answer is being prepared, and a restart
\* that carries some continues the task.
FollowupsInTurn ==
    /\ followups # <<>> => phase = "finalizing"
    /\ phase = "finalizing" => \E m \in Messages : stage[m] = "finalizing"
    /\ \A m \in Messages : followed[m] # <<>> =>
         mode[m] = "continue" /\ stage[m] \notin Quiet \cup {"decided", "marked"}

\* A refusal is the flow's last word.
RefusedEnds ==
    \A m \in Messages : reply[m].kind = "refused" => stage[m] \in {"delivering", "done"}

ChatInv == Shapes /\ OneRun /\ DrainedAtOnce /\ FollowupsInTurn /\ RefusedEnds

-----------------------------------------------------------------------------
(* FinalMeansDone.                                                           *)

DoneInv ==
    /\ continuations \in Nat
    /\ pc = "saving" => result = "completed"
    /\ FinalMeansDone

(* AnswerCoversAccepted, without drafts and with a free progress channel.    *)

Memory == Elements(known) \cup Elements(inbox) \cup Elements(drained)

AnswerInv ==
    /\ draft = {} /\ batch # "todos_long"
    /\ accepted \subseteq Memory
    /\ pc = "saving" => result = "completed"
    /\ pc \in {"saving", "returning"} /\ result = "completed" => owed \subseteq answer
    /\ AnswerCoversAccepted

(* MessagesKept, without overlapping flows and with a free progress channel.  *)

Alone == \A m, n \in Messages : stage[m] \notin Quiet /\ stage[n] \notin Quiet => m = n

Kept(m) ==
    \/ m \in Memory \cup Elements(followups)
    \/ \E n \in Messages : stage[n] \in {"restarting", "waiting"} /\ m \in Elements(followed[n])
    \/ m \in erased \/ reply[m].kind = "refused"

KeptInv ==
    \A m \in Messages :
        \/ stage[m] \in {"free", "push", "followup", "start", "decided", "marked"}
        \/ stage[m] = "waiting" /\ followed[m] = <<>>
        \/ Kept(m)

(* CancelReachesRun, without overlapping flows.                               *)

\* The token a press of cancel reaches is the one of the flow under way.
TokenOfFlow ==
    /\ pc # "idle" => token = current
    /\ \A m \in Messages : stage[m] = "waiting" => handle[m] = current

Unanswered == {"completed", "report", "waiting"}

PressedInv ==
    \A m \in pressed :
        /\ m \in Messages /\ stage[m] # "free"
        /\ stage[m] = "running" =>
             /\ token \in cancelled
             /\ \/ pc \in {"loop", "drained", "sample", "tools"}
                \/ pc = "returning" /\ result \notin Unanswered
        /\ stage[m] # "running" => reply[m].kind \notin Unanswered

-----------------------------------------------------------------------------
(* The messages of a sequence.                                               *)

LEMMA ElementsOfSeq ==
  ASSUME NEW s \in Seq(Messages)
  PROVE  Elements(s) \in SUBSET Messages /\ Elements(s) = {s[k] : k \in 1..Len(s)}
<1>1. DOMAIN s = 1..Len(s) /\ \A k \in 1..Len(s) : s[k] \in Messages
  OBVIOUS
<1> QED BY <1>1 DEF Elements

LEMMA ElementsEmpty == <<>> \in Seq(Messages) /\ Elements(<<>>) = {}
BY DEF Elements

LEMMA ElementsConcat ==
  ASSUME NEW s \in Seq(Messages), NEW t \in Seq(Messages)
  PROVE  s \o t \in Seq(Messages) /\ Elements(s \o t) = Elements(s) \cup Elements(t)
<1>1. /\ s \o t \in Seq(Messages) /\ Len(s \o t) = Len(s) + Len(t)
      /\ Len(s) \in Nat /\ Len(t) \in Nat
      /\ \A k \in 1..Len(s) + Len(t) :
           (s \o t)[k] = IF k <= Len(s) THEN s[k] ELSE t[k - Len(s)]
  OBVIOUS
<1>2. Elements(s \o t) = {(s \o t)[k] : k \in 1..Len(s) + Len(t)}
  BY <1>1, ElementsOfSeq
<1>3. Elements(s) = {s[k] : k \in 1..Len(s)} /\ Elements(t) = {t[k] : k \in 1..Len(t)}
  BY ElementsOfSeq
<1>4. ASSUME NEW x \in Elements(s \o t) PROVE x \in Elements(s) \cup Elements(t)
  <2>1. PICK k \in 1..Len(s) + Len(t) : x = (s \o t)[k]
    BY <1>2
  <2>2. CASE k <= Len(s)
    BY <1>1, <1>3, <2>1, <2>2
  <2>3. CASE k > Len(s)
    <3>1. k - Len(s) \in 1..Len(t) /\ x = t[k - Len(s)]
      BY <1>1, <2>1, <2>3
    <3> QED BY <1>3, <3>1
  <2> QED BY <1>1, <2>1, <2>2, <2>3
<1>5. ASSUME NEW x \in Elements(s) PROVE x \in Elements(s \o t)
  <2>1. PICK k \in 1..Len(s) : x = s[k]
    BY <1>3
  <2>2. k \in 1..Len(s) + Len(t) /\ x = (s \o t)[k]
    BY <1>1, <2>1
  <2> QED BY <1>2, <2>2
<1>6. ASSUME NEW x \in Elements(t) PROVE x \in Elements(s \o t)
  <2>1. PICK k \in 1..Len(t) : x = t[k]
    BY <1>3
  <2>2. k + Len(s) \in 1..Len(s) + Len(t) /\ x = (s \o t)[k + Len(s)]
    BY <1>1, <2>1
  <2> QED BY <1>2, <2>2
<1> QED BY <1>1, <1>4, <1>5, <1>6

LEMMA ElementsOne ==
  ASSUME NEW m \in Messages
  PROVE  <<m>> \in Seq(Messages) /\ Elements(<<m>>) = {m}
<1>1. <<m>> \in Seq(Messages) /\ Len(<<m>>) = 1 /\ <<m>>[1] = m
  OBVIOUS
<1> QED BY <1>1, ElementsOfSeq

LEMMA ElementsAppend ==
  ASSUME NEW s \in Seq(Messages), NEW m \in Messages
  PROVE  Append(s, m) \in Seq(Messages) /\ Elements(Append(s, m)) = Elements(s) \cup {m}
<1>1. Append(s, m) = s \o <<m>>
  OBVIOUS
<1> QED BY <1>1, ElementsOne, ElementsConcat


-----------------------------------------------------------------------------
(* One step of a run.                                                        *)

LEMMA CoverageTyped ==
  ASSUME Shapes, NEW size \in Sizes
  PROVE  Coverage(size) \in SUBSET Messages /\ (draft = {} => Coverage(size) = Elements(known))
<1>1. Elements(known) \in SUBSET Messages
  BY ElementsOfSeq DEF Shapes
<1>2. \A x \in UNION draft : x \in Messages
  BY DEF Shapes
<1> DEFINE e == Elements(known)
           u == UNION draft
<1>3. Coverage(size) \in {e, u, u \cup e} /\ (draft = {} => Coverage(size) = e)
  <2>1. Coverage(size) = IF draft = {} \/ size = "full" THEN e
                         ELSE u \cup (IF size = "short" THEN {} ELSE e)
    BY DEF Coverage
  <2> HIDE DEF e, u
  <2> QED BY <2>1
<1>4. e \in SUBSET Messages /\ \A x \in u : x \in Messages
  BY <1>1, <1>2
<1> HIDE DEF e, u
<1>5. Coverage(size) \in SUBSET Messages
  BY <1>3, <1>4
<1> QED BY <1>3, <1>5 DEF e

\* Only a drain and its end move messages; a run that ends early has none in hand.
LEMMA RunMemory ==
  ASSUME Shapes, DrainedAtOnce, RunStep
  PROVE  /\ inbox' \in Seq(Messages) /\ known' \in Seq(Messages) /\ drained' \in Seq(Messages)
         /\ DrainedAtOnce' /\ Memory' \subseteq Memory
         /\ ~SlowProgress => Memory' = Memory
<1> USE DEF Finish, NextIteration, session, counters
<1>0. <<>> \in Seq(Messages) /\ Elements(<<>>) = {}
  BY ElementsEmpty
<1>s. inbox \in Seq(Messages) /\ known \in Seq(Messages) /\ drained \in Seq(Messages)
  BY DEF Shapes
<1>1. CASE LoopDrains
  <2>1. drained = <<>> /\ known' = known
    BY <1>1 DEF LoopDrains, DrainedAtOnce
  <2>2. CASE inbox = <<>>
    BY <1>1, <1>s, <2>1, <2>2 DEF LoopDrains, DrainedAtOnce, Memory
  <2>3. CASE inbox # <<>>
    BY <1>0, <1>1, <1>s, <2>1, <2>3 DEF LoopDrains, DrainedAtOnce, Memory
  <2> QED BY <2>2, <2>3
<1>2. CASE ApplyContext
  <2>1. known' = known \o drained /\ drained' = <<>> /\ inbox' = inbox
    BY <1>2 DEF ApplyContext
  <2>2. known' \in Seq(Messages) /\ Elements(known') = Elements(known) \cup Elements(drained)
    BY <1>s, <2>1, ElementsConcat
  <2> QED BY <1>0, <1>s, <2>1, <2>2 DEF DrainedAtOnce, Memory
<1>3. CASE ~LoopDrains /\ ~ApplyContext
  <2>1. UNCHANGED <<inbox, known>> /\ drained' \in {drained, <<>>}
    BY <1>3 DEF RunStep, LoopEnds, SampleCancelled, SampleFails, LoopDetected, MalformedReply,
       AskUser, CallTools, ToolsReturn, ToolsFail, FinalReply, FinalSent, HardTimeout
  <2>2. pc = "drained" => drained' = <<>> /\ SlowProgress
    BY <1>3 DEF RunStep, LoopEnds, SampleCancelled, SampleFails, LoopDetected, MalformedReply,
       AskUser, CallTools, ToolsReturn, ToolsFail, FinalReply, FinalSent, HardTimeout
  <2>3. pc # "drained" => drained = <<>>
    BY DEF DrainedAtOnce
  <2> QED BY <1>0, <1>s, <2>1, <2>2, <2>3 DEF DrainedAtOnce, Memory
<1> QED BY <1>1, <1>2, <1>3

LEMMA RunPoints ==
  ASSUME Shapes, RunStep
  PROVE  /\ pc \notin {"idle", "returning"} /\ pc' \in Points \ {"idle"} /\ result' \in Results
         /\ answer' \in SUBSET Messages /\ draft' \in SUBSET (SUBSET Messages)
         /\ token' = token /\ cancelled \subseteq cancelled'
<1> USE DEF Finish, NextIteration, session, counters, Shapes, Points, Results
<1>1. CASE FinalReply
  <2>1. /\ pc = "sample" /\ pc' \in {"saving", "loop", "returning"}
        /\ result' \in {result, "cancelled", "completed"}
        /\ token' = token /\ cancelled' = cancelled /\ draft' \in {draft, {}}
    BY <1>1 DEF FinalReply
  <2>2. answer' = answer \/ \E size \in Sizes : answer' = Coverage(size)
    BY <1>1 DEF FinalReply
  <2> QED BY <2>1, <2>2, CoverageTyped
<1>2. CASE ToolsReturn
  <2>1. /\ pc = "tools" /\ pc' = "loop" /\ UNCHANGED <<token, cancelled, result, answer>>
        /\ draft' \in {draft, {Elements(known)}}
    BY <1>2 DEF ToolsReturn
  <2>2. Elements(known) \in SUBSET Messages
    BY ElementsOfSeq
  <2> QED BY <2>1, <2>2
<1>3. CASE LoopEnds \/ LoopDrains \/ ApplyContext \/ SampleCancelled \/ SampleFails
  BY <1>3 DEF LoopEnds, LoopDrains, ApplyContext, SampleCancelled, SampleFails
<1>4. CASE LoopDetected \/ MalformedReply \/ AskUser \/ CallTools
  BY <1>4 DEF LoopDetected, MalformedReply, AskUser, CallTools
<1>5. CASE ToolsFail \/ FinalSent \/ HardTimeout
  BY <1>5 DEF ToolsFail, FinalSent, HardTimeout
<1> QED BY <1>1, <1>2, <1>3, <1>4, <1>5 DEF RunStep

\* A run whose token is cancelled ends without an answer, a report or a question.
LEMMA RunHears ==
  ASSUME RunStep, token \in cancelled, pc \in {"loop", "drained", "sample", "tools"}
  PROVE  \/ pc' \in {"loop", "drained", "sample", "tools"}
         \/ pc' = "returning" /\ result' \notin Unanswered
<1> USE DEF Finish, NextIteration, IsCancelled, Unanswered
<1>1. CASE LoopEnds \/ LoopDrains \/ ApplyContext \/ SampleCancelled \/ SampleFails
  BY <1>1 DEF LoopEnds, LoopDrains, ApplyContext, SampleCancelled, SampleFails
<1>2. CASE LoopDetected \/ MalformedReply \/ AskUser \/ CallTools
  BY <1>2 DEF LoopDetected, MalformedReply, AskUser, CallTools
<1>3. CASE ToolsReturn \/ ToolsFail \/ FinalSent \/ HardTimeout
  BY <1>3 DEF ToolsReturn, ToolsFail, FinalSent, HardTimeout
<1>4. CASE FinalReply
  BY <1>4 DEF FinalReply, CancelSeen
<1> QED BY <1>1, <1>2, <1>3, <1>4 DEF RunStep

\* An answer is final only when the list the tools wrote says so.
LEMMA RunIsDone ==
  ASSUME DoneInv, RunStep
  PROVE  DoneInv'
<1> USE DEF Finish, NextIteration, session, counters, DoneInv, FinalMeansDone
<1>1. CASE LoopEnds \/ LoopDrains \/ ApplyContext \/ SampleCancelled \/ SampleFails
  BY <1>1 DEF LoopEnds, LoopDrains, ApplyContext, SampleCancelled, SampleFails
<1>2. CASE LoopDetected \/ MalformedReply \/ AskUser \/ CallTools
  BY <1>2 DEF LoopDetected, MalformedReply, AskUser, CallTools
<1>3. CASE ToolsReturn \/ ToolsFail \/ FinalSent \/ HardTimeout
  BY <1>3 DEF ToolsReturn, ToolsFail, FinalSent, HardTimeout
<1>4. CASE FinalReply
  <2>1. arc' = arc
    BY <1>4 DEF FinalReply
  <2>2. CASE pc' = "saving"
    <3>1. ~Forces /\ todos' = arc /\ continuations' = continuations /\ result' = "completed"
      BY <1>4, <2>2 DEF FinalReply, SyncedTodos
    <3>2. arc # "open" \/ ~(continuations < ContinuationLimit)
      BY <3>1 DEF Forces
    <3>3. continuations \in Nat /\ ContinuationLimit \in Nat
      BY LimitsAssumption
    <3>4. arc' # "open" \/ continuations' >= ContinuationLimit
      BY <2>1, <3>1, <3>2, <3>3
    <3> QED BY <2>2, <3>1, <3>3, <3>4
  <2>3. CASE pc' # "saving"
    BY <1>4, <2>3 DEF FinalReply
  <2> QED BY <2>2, <2>3
<1> QED BY <1>1, <1>2, <1>3, <1>4 DEF RunStep


-----------------------------------------------------------------------------
(* The shape of every state.                                                 *)

LEMMA GotoFacts ==
  ASSUME Shapes, NEW m \in Messages, NEW s \in Stages, Goto(m, s)
  PROVE  /\ stage' \in [Messages -> Stages] /\ stage'[m] = s
         /\ \A n \in Messages : n # m => stage'[n] = stage[n]
BY DEF Goto, Shapes

LEMMA CarriedFacts ==
  ASSUME Shapes, NEW m \in Messages
  PROVE  /\ Carried(m) \in Seq(Messages) /\ Elements(Carried(m)) \in SUBSET Messages
         /\ followed[m] = <<>> => Elements(Carried(m)) = {m}
<1>1. <<m>> \in Seq(Messages) /\ Elements(<<m>>) = {m} /\ followed[m] \in Seq(Messages)
  BY ElementsOne DEF Shapes
<1>2. Carried(m) \in Seq(Messages)
  BY <1>1 DEF Carried
<1> QED BY <1>1, <1>2, ElementsOfSeq DEF Carried

LEMMA InitChat == Init => ChatInv
<1> SUFFICES ASSUME Init PROVE ChatInv
  OBVIOUS
<1>1. NoReply \in Replies /\ NoReply.kind = "none" /\ <<>> \in Seq(Messages)
  BY ElementsEmpty DEF NoReply, Replies, Results
<1>2. NoFlow \notin Messages
  BY OverlapAssumption
<1>3. Shapes
  BY <1>1 DEF Init, AgentInit, Shapes, Stages, Points, Results
<1>4. OneRun /\ DrainedAtOnce /\ FollowupsInTurn /\ RefusedEnds
  BY <1>1, <1>2 DEF Init, AgentInit, OneRun, DrainedAtOnce, FollowupsInTurn, RefusedEnds
<1> QED BY <1>3, <1>4 DEF ChatInv

\* Steps that leave the run alone and the stage of no message.
LEMMA ApartChat ==
  ASSUME ChatInv,
         UNCHANGED <<stage, mode, handle, followed, reply, phase, followups, current, holder>>,
         UNCHANGED <<inbox, known, drained, pc, result, answer, draft>>,
         UNCHANGED <<accepted, owed>>
  PROVE  ChatInv'
<1>1. Shapes'
  BY DEF ChatInv, Shapes
<1>2. OneRun' /\ DrainedAtOnce' /\ FollowupsInTurn' /\ RefusedEnds'
  BY DEF ChatInv, OneRun, DrainedAtOnce, FollowupsInTurn, RefusedEnds
<1> QED BY <1>1, <1>2 DEF ChatInv

LEMMA RunChat ==
  ASSUME ChatInv, Run
  PROVE  ChatInv'
<1> USE DEF ChatInv
<1>1. /\ RunStep /\ owed' \in {accepted, owed}
      /\ UNCHANGED <<stage, mode, handle, followed, reply, phase, followups, current, holder,
                     accepted>>
  BY DEF Run
<1>2. /\ pc # "idle" /\ pc' \in Points \ {"idle"} /\ result' \in Results
      /\ answer' \in SUBSET Messages /\ draft' \in SUBSET (SUBSET Messages)
  BY <1>1, RunPoints
<1>3. /\ inbox' \in Seq(Messages) /\ known' \in Seq(Messages) /\ drained' \in Seq(Messages)
      /\ DrainedAtOnce'
  BY <1>1, RunMemory
<1>4. Shapes'
  BY <1>1, <1>2, <1>3 DEF Shapes
<1>5. OneRun' /\ FollowupsInTurn' /\ RefusedEnds'
  BY <1>1, <1>2 DEF OneRun, FollowupsInTurn, RefusedEnds
<1> QED BY <1>3, <1>4, <1>5

LEMMA ResetChat ==
  ASSUME ChatInv, ResetNow
  PROVE  ChatInv'
<1> USE DEF ChatInv
<1>1. CASE holder # NoFlow
  <2>1. /\ UNCHANGED <<stage, mode, handle, followed, reply, phase, followups, current, holder>>
        /\ UNCHANGED <<inbox, known, drained, pc, result, answer, draft>>
        /\ UNCHANGED <<accepted, owed>>
    BY <1>1 DEF ResetNow, counters, session
  <2> QED BY <2>1, ApartChat
<1>2. CASE holder = NoFlow
  <2>1. /\ UNCHANGED <<stage, mode, handle, followed, reply, phase, followups, current, holder>>
        /\ UNCHANGED <<drained, pc, result, answer, draft, owed>>
        /\ known' = <<>> /\ inbox' = <<>> /\ accepted' = {}
    BY <1>2 DEF ResetNow, ResetSession, counters, session
  <2>2. Shapes'
    BY <2>1, ElementsEmpty DEF Shapes
  <2>3. OneRun' /\ DrainedAtOnce' /\ FollowupsInTurn' /\ RefusedEnds'
    BY <2>1 DEF OneRun, DrainedAtOnce, FollowupsInTurn, RefusedEnds
  <2> QED BY <2>2, <2>3
<1> QED BY <1>1, <1>2

\* Routing: the message reaches the inbox or the follow-ups, or a flow begins.
LEMMA RouteChat ==
  ASSUME ChatInv, NEW m \in Messages,
         Arrive(m) \/ Push(m) \/ QueueFollowup(m) \/ Decide(m) \/ MarkStarted(m) \/ TakeHandles(m)
  PROVE  ChatInv'
<1> USE DEF ChatInv
<1>1. CASE Arrive(m)
  <2>1. PICK s \in {"push", "followup"} : Goto(m, s)
    BY <1>1 DEF Arrive
  <2>2. /\ stage[m] = "free"
        /\ UNCHANGED <<mode, handle, followed, reply, phase, followups, current, holder>>
        /\ UNCHANGED <<inbox, known, drained, pc, result, answer, draft, accepted, owed>>
    BY <1>1 DEF Arrive, agentVars
  <2>3. /\ stage' \in [Messages -> Stages] /\ stage'[m] = s
        /\ \A n \in Messages : n # m => stage'[n] = stage[n]
    BY <2>1, GotoFacts DEF Stages
  <2>4. Shapes'
    BY <2>2, <2>3 DEF Shapes
  <2>5. OneRun' /\ DrainedAtOnce'
    BY <2>2, <2>3 DEF OneRun, DrainedAtOnce
  <2>6. FollowupsInTurn' /\ RefusedEnds'
    BY <2>2, <2>3 DEF FollowupsInTurn, RefusedEnds, Quiet
  <2> QED BY <2>4, <2>5, <2>6
<1>2. CASE Push(m)
  <2>2. /\ stage[m] = "push" /\ Goto(m, "done")
        /\ inbox' = Append(inbox, m) /\ accepted' = accepted \cup {m}
        /\ UNCHANGED <<mode, handle, followed, reply, phase, followups, current, holder>>
        /\ UNCHANGED <<known, drained, pc, result, answer, draft, owed>>
    BY <1>2 DEF Push, session, counters
  <2>3. /\ stage' \in [Messages -> Stages] /\ stage'[m] = "done"
        /\ \A n \in Messages : n # m => stage'[n] = stage[n]
    BY <2>2, GotoFacts DEF Stages
  <2>a. inbox' \in Seq(Messages) /\ accepted' \in SUBSET Messages
    BY <2>2, ElementsAppend DEF Shapes
  <2>4. Shapes'
    BY <2>2, <2>3, <2>a DEF Shapes
  <2>5. OneRun' /\ DrainedAtOnce'
    BY <2>2, <2>3 DEF OneRun, DrainedAtOnce
  <2>6. FollowupsInTurn' /\ RefusedEnds'
    BY <2>2, <2>3 DEF FollowupsInTurn, RefusedEnds, Quiet
  <2> QED BY <2>4, <2>5, <2>6
<1>3. CASE QueueFollowup(m)
  <2>1. PICK s \in {"start", "done"} : Goto(m, s)
    BY <1>3 DEF QueueFollowup
  <2>2. /\ stage[m] = "followup"
        /\ \/ followups' = followups
           \/ phase = "finalizing" /\ followups' = Append(followups, m)
        /\ UNCHANGED <<mode, handle, followed, reply, phase, current, holder>>
        /\ UNCHANGED <<inbox, known, drained, pc, result, answer, draft, accepted, owed>>
    BY <1>3 DEF QueueFollowup, agentVars
  <2>3. /\ stage' \in [Messages -> Stages] /\ stage'[m] = s
        /\ \A n \in Messages : n # m => stage'[n] = stage[n]
    BY <2>1, GotoFacts DEF Stages
  <2>a. followups' \in Seq(Messages)
    <3>1. followups \in Seq(Messages) /\ Append(followups, m) \in Seq(Messages)
      BY ElementsAppend DEF Shapes
    <3> QED BY <2>2, <3>1
  <2>4. Shapes'
    BY <2>2, <2>3, <2>a DEF Shapes
  <2>5. OneRun' /\ DrainedAtOnce'
    BY <2>2, <2>3 DEF OneRun, DrainedAtOnce
  <2>6. FollowupsInTurn' /\ RefusedEnds'
    BY <2>2, <2>3 DEF FollowupsInTurn, RefusedEnds, Quiet
  <2> QED BY <2>4, <2>5, <2>6
<1>4. CASE Decide(m)
  <2>1. PICK i \in {"resume", "task", "continue"} : mode' = [mode EXCEPT ![m] = i]
    BY <1>4 DEF Decide, Intents
  <2>2. /\ stage[m] = "start" /\ Goto(m, "decided") /\ current' = current + 1
        /\ UNCHANGED <<handle, followed, reply, phase, followups, holder>>
        /\ UNCHANGED <<inbox, known, drained, pc, result, answer, draft, accepted, owed>>
    BY <1>4 DEF Decide, agentVars
  <2>3. /\ stage' \in [Messages -> Stages] /\ stage'[m] = "decided"
        /\ \A n \in Messages : n # m => stage'[n] = stage[n]
    BY <2>2, GotoFacts DEF Stages
  <2>a. current' \in Nat /\ mode' \in [Messages -> {"none", "task", "continue", "resume"}]
    BY <2>1, <2>2 DEF Shapes
  <2>4. Shapes'
    BY <2>2, <2>3, <2>a DEF Shapes
  <2>5. OneRun' /\ DrainedAtOnce'
    BY <2>2, <2>3 DEF OneRun, DrainedAtOnce
  <2>6. FollowupsInTurn' /\ RefusedEnds'
    <3>1. followed[m] = <<>>
      BY <2>2 DEF FollowupsInTurn, Quiet
    <3>2. \A n \in Messages : n # m => mode'[n] = mode[n]
      BY <2>1 DEF Shapes
    <3> QED BY <2>2, <2>3, <3>1, <3>2 DEF FollowupsInTurn, RefusedEnds
  <2> QED BY <2>4, <2>5, <2>6
<1>5. CASE MarkStarted(m)
  <2>2. /\ stage[m] = "decided" /\ Goto(m, "marked") /\ phase' = "executing" /\ followups' = <<>>
        /\ UNCHANGED <<mode, handle, followed, reply, current, holder>>
        /\ UNCHANGED <<inbox, known, drained, pc, result, answer, draft, accepted, owed>>
    BY <1>5 DEF MarkStarted, agentVars
  <2>3. /\ stage' \in [Messages -> Stages] /\ stage'[m] = "marked"
        /\ \A n \in Messages : n # m => stage'[n] = stage[n]
    BY <2>2, GotoFacts DEF Stages
  <2>4. Shapes'
    BY <2>2, <2>3, ElementsEmpty DEF Shapes
  <2>5. OneRun' /\ DrainedAtOnce'
    BY <2>2, <2>3 DEF OneRun, DrainedAtOnce
  <2>6. FollowupsInTurn' /\ RefusedEnds'
    BY <2>2, <2>3 DEF FollowupsInTurn, RefusedEnds
  <2> QED BY <2>4, <2>5, <2>6
<1>6. CASE TakeHandles(m)
  <2>2. /\ stage[m] \in {"marked", "restarting"} /\ Goto(m, "waiting")
        /\ handle' = [handle EXCEPT ![m] = current]
        /\ UNCHANGED <<mode, followed, reply, phase, followups, current, holder>>
        /\ UNCHANGED <<inbox, known, drained, pc, result, answer, draft, accepted, owed>>
    BY <1>6 DEF TakeHandles, agentVars
  <2>3. /\ stage' \in [Messages -> Stages] /\ stage'[m] = "waiting"
        /\ \A n \in Messages : n # m => stage'[n] = stage[n]
    BY <2>2, GotoFacts DEF Stages
  <2>4. Shapes'
    BY <2>2, <2>3 DEF Shapes
  <2>5. OneRun' /\ DrainedAtOnce'
    BY <2>2, <2>3 DEF OneRun, DrainedAtOnce
  <2>6. FollowupsInTurn' /\ RefusedEnds'
    BY <2>2, <2>3 DEF FollowupsInTurn, RefusedEnds, Quiet
  <2> QED BY <2>4, <2>5, <2>6
<1> QED BY <1>1, <1>2, <1>3, <1>4, <1>5, <1>6

\* What a flow does when it gets the lock.
LEMMA AcquireFacts ==
  ASSUME Shapes, NEW m \in Messages, Acquire(m), followed[m] # <<>> => mode[m] = "continue"
  PROVE  /\ stage[m] = "waiting" /\ holder = NoFlow /\ holder' = m /\ Goto(m, "running")
         /\ pc = "idle" /\ pc' = "loop" /\ result' = "none" /\ answer' = {} /\ draft' = {}
         /\ continuations' = 0 /\ batch' = "none" /\ token' = handle[m] /\ cancelled' = cancelled
         /\ drained' = <<>> /\ inbox' \in Seq(Messages) /\ known' \in Seq(Messages)
         /\ Elements(inbox') \cup Elements(known')
              = Elements(inbox) \cup Elements(known) \cup Elements(Carried(m))
         /\ accepted' = accepted \cup Elements(Carried(m)) /\ pressed' = pressed \ {m}
         /\ UNCHANGED <<mode, handle, followed, reply, phase, followups, current, owed, erased>>
<1>1. /\ stage[m] = "waiting" /\ holder = NoFlow /\ holder' = m /\ Goto(m, "running")
      /\ \E t \in {handle[m]} : StartTask(t)
      /\ accepted' = accepted \cup Elements(Carried(m)) /\ pressed' = pressed \ {m}
      /\ UNCHANGED <<mode, handle, followed, reply, phase, followups, current, owed, erased>>
  BY DEF Acquire, NewTask, Continue, resetVars
<1>2. /\ pc = "idle" /\ pc' = "loop" /\ result' = "none" /\ answer' = {} /\ draft' = {}
      /\ continuations' = 0 /\ batch' = "none" /\ token' = handle[m] /\ cancelled' = cancelled
      /\ drained' = <<>>
  BY <1>1 DEF StartTask
<1>3. \/ mode[m] = "task" /\ known' = Append(known, m) /\ inbox' = inbox
      \/ mode[m] = "continue" /\ inbox' = inbox \o Carried(m) /\ known' = known
      \/ mode[m] = "resume" /\ inbox' = inbox \o <<m>> /\ known' = known
  BY DEF Acquire, NewTask, Continue
<1>4. /\ inbox \in Seq(Messages) /\ known \in Seq(Messages) /\ Carried(m) \in Seq(Messages)
      /\ <<m>> \in Seq(Messages) /\ Elements(<<m>>) = {m}
  BY CarriedFacts, ElementsOne DEF Shapes
<1>5. mode[m] # "continue" => Elements(Carried(m)) = {m}
  BY CarriedFacts
<1>6. /\ inbox' \in Seq(Messages) /\ known' \in Seq(Messages)
      /\ Elements(inbox') \cup Elements(known')
           = Elements(inbox) \cup Elements(known) \cup Elements(Carried(m))
  <2>1. CASE mode[m] = "task" /\ known' = Append(known, m) /\ inbox' = inbox
    <3>1. Append(known, m) \in Seq(Messages)
          /\ Elements(Append(known, m)) = Elements(known) \cup {m}
      BY <1>4, ElementsAppend
    <3>2. Elements(known') = Elements(known) \cup Elements(Carried(m))
      BY <1>5, <2>1, <3>1
    <3> QED BY <1>4, <2>1, <3>1, <3>2
  <2>2. CASE mode[m] = "continue" /\ inbox' = inbox \o Carried(m) /\ known' = known
    <3>1. inbox \o Carried(m) \in Seq(Messages)
          /\ Elements(inbox \o Carried(m)) = Elements(inbox) \cup Elements(Carried(m))
      BY <1>4, ElementsConcat
    <3> QED BY <1>4, <2>2, <3>1
  <2>3. CASE mode[m] = "resume" /\ inbox' = inbox \o <<m>> /\ known' = known
    <3>1. inbox \o <<m>> \in Seq(Messages)
          /\ Elements(inbox \o <<m>>) = Elements(inbox) \cup Elements(<<m>>)
      BY <1>4, ElementsConcat
    <3>2. Elements(inbox') = Elements(inbox) \cup Elements(Carried(m))
      BY <1>4, <1>5, <2>3, <3>1
    <3> QED BY <1>4, <2>3, <3>1, <3>2
  <2> QED BY <1>3, <2>1, <2>2, <2>3
<1> QED BY <1>1, <1>2, <1>6

LEMMA RefusedFacts ==
  ASSUME Shapes, NEW m \in Messages, Refused(m)
  PROVE  /\ stage[m] = "waiting" /\ holder = NoFlow /\ Goto(m, "delivering")
         /\ reply' = [reply EXCEPT ![m] = [NoReply EXCEPT !.kind = "refused"]]
         /\ [NoReply EXCEPT !.kind = "refused"] \in Replies
         /\ [NoReply EXCEPT !.kind = "refused"].kind = "refused"
         /\ inbox' \in Seq(Messages) /\ accepted' \in SUBSET Messages
         /\ \/ /\ mode[m] = "continue"
               /\ Elements(inbox') = Elements(inbox) \cup Elements(Carried(m))
               /\ accepted' = accepted \cup Elements(Carried(m))
            \/ /\ mode[m] = "resume" /\ Elements(inbox') = Elements(inbox)
               /\ accepted' = accepted
         /\ UNCHANGED <<known, drained, cancelled, pc, result, answer, draft, batch, arc,
                        continuations, mode, handle, followed, phase, followups, current, holder,
                        owed, pressed, erased>>
<1> DEFINE queued == IF mode[m] = "continue" THEN Carried(m) ELSE <<>>
<1>1. /\ stage[m] = "waiting" /\ holder = NoFlow /\ Goto(m, "delivering")
      /\ inbox' = inbox \o queued /\ accepted' = accepted \cup Elements(queued)
      /\ reply' = [reply EXCEPT ![m] = [NoReply EXCEPT !.kind = "refused"]]
      /\ mode[m] \in {"continue", "resume"}
      /\ UNCHANGED <<known, drained, cancelled, pc, result, answer, draft, batch, arc,
                     continuations, mode, handle, followed, phase, followups, current, holder,
                     owed, pressed, erased>>
  BY DEF Refused, Refuses, counters, resetVars
<1>2. /\ [NoReply EXCEPT !.kind = "refused"] \in Replies
      /\ [NoReply EXCEPT !.kind = "refused"].kind = "refused"
  BY DEF NoReply, Replies, Results
<1>3. queued \in Seq(Messages) /\ inbox \in Seq(Messages)
  BY CarriedFacts, ElementsEmpty DEF Shapes
<1>4. inbox' \in Seq(Messages) /\ Elements(inbox') = Elements(inbox) \cup Elements(queued)
      /\ Elements(queued) \in SUBSET Messages
  BY <1>1, <1>3, ElementsConcat, ElementsOfSeq
<1>5. accepted' \in SUBSET Messages
  BY <1>1, <1>4 DEF Shapes
<1>6. CASE mode[m] = "continue"
  BY <1>1, <1>2, <1>4, <1>5, <1>6
<1>7. CASE mode[m] = "resume"
  BY <1>1, <1>2, <1>4, <1>5, <1>7, ElementsEmpty
<1> QED BY <1>1, <1>6, <1>7

LEMMA ReleaseFacts ==
  ASSUME Shapes, NEW m \in Messages, Release(m)
  PROVE  LET r == [kind |-> result, covers |-> answer, owes |-> owed]
         IN  /\ stage[m] = "running" /\ holder = m /\ holder' = NoFlow /\ Goto(m, "returned")
             /\ pc = "returning" /\ pc' = "idle" /\ draft' = {} /\ answer' = {} /\ owed' = {}
             /\ reply' = [reply EXCEPT ![m] = r] /\ r \in Replies
             /\ r.kind = result /\ r.covers = answer /\ r.owes = owed
             /\ UNCHANGED <<inbox, known, drained, cancelled, token, continuations, batch, result,
                            mode, handle, followed, phase, followups, current, accepted, pressed,
                            erased>>
BY DEF Release, ApplyTransition, Shapes, Replies, Results, resetVars

\* The run's flow: from the lock to the delivery.
LEMMA FlowChat ==
  ASSUME ChatInv, NEW m \in Messages,
         Acquire(m) \/ Refused(m) \/ Release(m) \/ BeginFinalization(m) \/ PrepareDelivery(m)
         \/ Deliver(m)
  PROVE  ChatInv'
<1> USE DEF ChatInv
<1>n. NoFlow \notin Messages
  BY OverlapAssumption
<1>r. ASSUME NEW r \in Replies, reply' = [reply EXCEPT ![m] = r]
      PROVE  reply' \in [Messages -> Replies] /\ reply'[m] = r
             /\ \A n \in Messages : n # m => reply'[n] = reply[n]
  BY <1>r DEF Shapes
<1>1. CASE Acquire(m)
  <2>1. /\ stage[m] = "waiting" /\ holder = NoFlow /\ holder' = m /\ Goto(m, "running")
        /\ pc' = "loop" /\ result' = "none" /\ answer' = {} /\ draft' = {} /\ drained' = <<>>
        /\ inbox' \in Seq(Messages) /\ known' \in Seq(Messages)
        /\ accepted' = accepted \cup Elements(Carried(m))
        /\ UNCHANGED <<mode, handle, followed, reply, phase, followups, current, owed>>
    BY <1>1, AcquireFacts DEF FollowupsInTurn
  <2>2. /\ stage' \in [Messages -> Stages] /\ stage'[m] = "running"
        /\ \A n \in Messages : n # m => stage'[n] = stage[n]
    BY <2>1, GotoFacts DEF Stages
  <2>3. accepted' \in SUBSET Messages /\ <<>> \in Seq(Messages)
    BY <2>1, CarriedFacts, ElementsEmpty DEF Shapes
  <2>4. Shapes'
    BY <2>1, <2>2, <2>3 DEF Shapes, Points, Results
  <2>5. OneRun' /\ DrainedAtOnce'
    BY <1>n, <2>1, <2>2 DEF OneRun, DrainedAtOnce
  <2>6. FollowupsInTurn' /\ RefusedEnds'
    BY <2>1, <2>2 DEF FollowupsInTurn, RefusedEnds, Quiet
  <2> QED BY <2>4, <2>5, <2>6
<1>2. CASE Refused(m)
  <2> DEFINE r == [NoReply EXCEPT !.kind = "refused"]
  <2>1. /\ stage[m] = "waiting" /\ holder = NoFlow /\ Goto(m, "delivering")
        /\ reply' = [reply EXCEPT ![m] = r] /\ r \in Replies
        /\ inbox' \in Seq(Messages) /\ accepted' \in SUBSET Messages
        /\ UNCHANGED <<known, drained, pc, result, answer, draft, mode, handle, followed, phase,
                       followups, current, holder, owed>>
    BY <1>2, RefusedFacts
  <2> HIDE DEF r
  <2>2. /\ stage' \in [Messages -> Stages] /\ stage'[m] = "delivering"
        /\ \A n \in Messages : n # m => stage'[n] = stage[n]
    BY <2>1, GotoFacts DEF Stages
  <2>3. reply' \in [Messages -> Replies] /\ \A n \in Messages : n # m => reply'[n] = reply[n]
    BY <1>r, <2>1
  <2>4. Shapes'
    BY <2>1, <2>2, <2>3 DEF Shapes
  <2>5. OneRun' /\ DrainedAtOnce'
    BY <2>1, <2>2 DEF OneRun, DrainedAtOnce
  <2>6. FollowupsInTurn' /\ RefusedEnds'
    BY <2>1, <2>2, <2>3 DEF FollowupsInTurn, RefusedEnds, Quiet
  <2> QED BY <2>4, <2>5, <2>6
<1>3. CASE Release(m)
  <2> DEFINE r == [kind |-> result, covers |-> answer, owes |-> owed]
  <2>1. /\ stage[m] = "running" /\ holder = m /\ holder' = NoFlow /\ Goto(m, "returned")
        /\ pc' = "idle" /\ pc = "returning" /\ draft' = {} /\ answer' = {} /\ owed' = {}
        /\ reply' = [reply EXCEPT ![m] = r] /\ r \in Replies /\ r.kind = result
        /\ UNCHANGED <<inbox, known, drained, result, mode, handle, followed, phase, followups,
                       current, accepted>>
    BY <1>3, ReleaseFacts
  <2> HIDE DEF r
  <2>2. /\ stage' \in [Messages -> Stages] /\ stage'[m] = "returned"
        /\ \A n \in Messages : n # m => stage'[n] = stage[n]
    BY <2>1, GotoFacts DEF Stages
  <2>3. reply' \in [Messages -> Replies] /\ reply'[m] = r
        /\ \A n \in Messages : n # m => reply'[n] = reply[n]
    BY <1>r, <2>1
  <2>4. Shapes'
    BY <2>1, <2>2, <2>3 DEF Shapes, Points
  <2>5. OneRun' /\ DrainedAtOnce'
    BY <1>n, <2>1, <2>2 DEF OneRun, DrainedAtOnce
  <2>6. FollowupsInTurn'
    BY <2>1, <2>2 DEF FollowupsInTurn, Quiet
  <2>7. RefusedEnds'
    <3>1. result # "refused"
      BY DEF Shapes, Results
    <3> QED BY <2>1, <2>2, <2>3, <3>1 DEF RefusedEnds
  <2> QED BY <2>4, <2>5, <2>6, <2>7
<1>4. CASE BeginFinalization(m)
  <2>1. /\ stage[m] = "returned"
        /\ UNCHANGED <<mode, handle, followed, reply, followups, current, holder>>
        /\ UNCHANGED <<inbox, known, drained, pc, result, answer, draft, accepted, owed>>
    BY <1>4 DEF BeginFinalization, agentVars
  <2>2. \/ phase' = "finalizing" /\ Goto(m, "finalizing")
        \/ phase' = phase /\ Goto(m, "delivering")
    BY <1>4 DEF BeginFinalization
  <2>3. /\ stage' \in [Messages -> Stages]
        /\ \/ phase' = "finalizing" /\ stage'[m] = "finalizing"
           \/ phase' = phase /\ stage'[m] = "delivering"
        /\ \A n \in Messages : n # m => stage'[n] = stage[n]
    BY <2>2, GotoFacts DEF Stages
  <2>4. Shapes'
    BY <2>1, <2>3 DEF Shapes
  <2>5. OneRun' /\ DrainedAtOnce'
    BY <2>1, <2>3 DEF OneRun, DrainedAtOnce
  <2>6. FollowupsInTurn' /\ RefusedEnds'
    BY <2>1, <2>3 DEF FollowupsInTurn, RefusedEnds, Quiet
  <2> QED BY <2>4, <2>5, <2>6
<1>5. CASE PrepareDelivery(m)
  <2>1. /\ stage[m] = "finalizing"
        /\ UNCHANGED <<handle, reply, current, holder>>
        /\ UNCHANGED <<inbox, known, drained, pc, result, answer, draft, accepted, owed>>
    BY <1>5 DEF PrepareDelivery, agentVars
  <2>2. CASE phase = "finalizing" /\ followups # <<>>
    <3>1. /\ phase' = "executing" /\ followups' = <<>> /\ Goto(m, "restarting")
          /\ followed' = [followed EXCEPT ![m] = followups]
          /\ mode' = [mode EXCEPT ![m] = "continue"]
      BY <1>5, <2>2 DEF PrepareDelivery, TakenFollowups
    <3>2. /\ stage' \in [Messages -> Stages] /\ stage'[m] = "restarting"
          /\ \A n \in Messages : n # m => stage'[n] = stage[n]
      BY <3>1, GotoFacts DEF Stages
    <3>3. /\ followed' \in [Messages -> Seq(Messages)] /\ mode'[m] = "continue"
          /\ mode' \in [Messages -> {"none", "task", "continue", "resume"}]
          /\ \A n \in Messages : n # m => followed'[n] = followed[n] /\ mode'[n] = mode[n]
      BY <3>1 DEF Shapes
    <3>4. Shapes'
      BY <2>1, <3>1, <3>2, <3>3, ElementsEmpty DEF Shapes
    <3>5. OneRun' /\ DrainedAtOnce'
      BY <2>1, <3>2 DEF OneRun, DrainedAtOnce
    <3>6. FollowupsInTurn'
      BY <2>1, <3>1, <3>2, <3>3 DEF FollowupsInTurn, Quiet
    <3>7. RefusedEnds'
      BY <2>1, <3>2 DEF RefusedEnds
    <3> QED BY <3>4, <3>5, <3>6, <3>7
  <2>3. CASE ~(phase = "finalizing" /\ followups # <<>>)
    <3>1. /\ phase' = (IF phase = "finalizing" THEN "sending" ELSE phase)
          /\ Goto(m, "delivering") /\ UNCHANGED <<followed, mode, followups>>
      BY <1>5, <2>3 DEF PrepareDelivery
    <3>2. /\ stage' \in [Messages -> Stages] /\ stage'[m] = "delivering"
          /\ \A n \in Messages : n # m => stage'[n] = stage[n]
      BY <3>1, GotoFacts DEF Stages
    <3>3. phase' # "finalizing" /\ followups = <<>>
      BY <2>3, <3>1 DEF FollowupsInTurn
    <3>4. Shapes'
      BY <2>1, <3>1, <3>2 DEF Shapes
    <3>5. OneRun' /\ DrainedAtOnce'
      BY <2>1, <3>2 DEF OneRun, DrainedAtOnce
    <3>6. FollowupsInTurn' /\ RefusedEnds'
      BY <2>1, <3>1, <3>2, <3>3 DEF FollowupsInTurn, RefusedEnds, Quiet
    <3> QED BY <3>4, <3>5, <3>6
  <2> QED BY <2>2, <2>3
<1>6. CASE Deliver(m)
  <2>1. /\ stage[m] = "delivering" /\ Goto(m, "done") /\ phase' = "none" /\ followups' = <<>>
        /\ mode' = [mode EXCEPT ![m] = "none"] /\ handle' = [handle EXCEPT ![m] = 0]
        /\ followed' = [followed EXCEPT ![m] = <<>>]
        /\ UNCHANGED <<reply, current, holder>>
        /\ UNCHANGED <<inbox, known, drained, pc, result, answer, draft, accepted, owed>>
    BY <1>6 DEF Deliver, agentVars
  <2>2. /\ stage' \in [Messages -> Stages] /\ stage'[m] = "done"
        /\ \A n \in Messages : n # m => stage'[n] = stage[n]
    BY <2>1, GotoFacts DEF Stages
  <2>3. /\ followed' \in [Messages -> Seq(Messages)] /\ followed'[m] = <<>>
        /\ mode' \in [Messages -> {"none", "task", "continue", "resume"}]
        /\ handle' \in [Messages -> Nat]
        /\ \A n \in Messages : n # m => followed'[n] = followed[n] /\ mode'[n] = mode[n]
    BY <2>1, ElementsEmpty DEF Shapes
  <2>4. Shapes'
    BY <2>1, <2>2, <2>3, ElementsEmpty DEF Shapes
  <2>5. OneRun' /\ DrainedAtOnce'
    BY <2>1, <2>2 DEF OneRun, DrainedAtOnce
  <2>6. FollowupsInTurn' /\ RefusedEnds'
    BY <2>1, <2>2, <2>3 DEF FollowupsInTurn, RefusedEnds
  <2> QED BY <2>4, <2>5, <2>6
<1> QED BY <1>1, <1>2, <1>3, <1>4, <1>5, <1>6

LEMMA NextChat == ChatInv /\ [Next]_vars => ChatInv'
<1> SUFFICES ASSUME ChatInv, [Next]_vars PROVE ChatInv'
  OBVIOUS
<1>1. CASE UNCHANGED vars \/ Clock \/ Cancel \/ PressReset
  <2>1. /\ UNCHANGED <<stage, mode, handle, followed, reply, phase, followups, current, holder>>
        /\ UNCHANGED <<inbox, known, drained, pc, result, answer, draft>>
        /\ UNCHANGED <<accepted, owed>>
    BY <1>1 DEF vars, agentVars, chatVars, resetVars, Clock, TimePasses, Cancel, PressReset,
                CancelCurrent, session, counters
  <2> QED BY <2>1, ApartChat
<1>2. CASE \E m \in Messages : Arrive(m) \/ FlowStep(m)
  BY <1>2, RouteChat, FlowChat DEF FlowStep
<1> QED BY <1>1, <1>2, RunChat, ResetChat DEF Next


-----------------------------------------------------------------------------
(* Init and the steps, as the four invariants need them.                     *)

\* Only a run, its start and its end move the run.
LEMMA AsideFacts ==
  ASSUME [Next]_vars, ~Run, \A m \in Messages : ~Acquire(m) /\ ~Release(m)
  PROVE  UNCHANGED <<pc, result, answer, arc, continuations, drained, draft, batch, owed>>
<1> USE DEF agentVars, chatVars, resetVars, session, counters
<1>1. CASE \E m \in Messages : Arrive(m) \/ Push(m) \/ QueueFollowup(m) \/ Decide(m)
  BY <1>1 DEF Arrive, Push, QueueFollowup, Decide
<1>2. CASE \E m \in Messages : MarkStarted(m) \/ TakeHandles(m) \/ Refused(m)
  BY <1>2 DEF MarkStarted, TakeHandles, Refused
<1>3. CASE \E m \in Messages : BeginFinalization(m) \/ PrepareDelivery(m) \/ Deliver(m)
  BY <1>3 DEF BeginFinalization, PrepareDelivery, Deliver
<1>4. CASE UNCHANGED vars \/ Clock \/ Cancel \/ PressReset
  BY <1>4 DEF vars, Clock, TimePasses, Cancel, PressReset, CancelCurrent
<1>5. CASE ResetNow
  BY <1>5 DEF ResetNow, ResetSession
<1> QED BY <1>1, <1>2, <1>3, <1>4, <1>5 DEF Next, FlowStep

-----------------------------------------------------------------------------
(* FinalMeansDone.                                                           *)

LEMMA InitDone == Init => DoneInv
BY DEF Init, AgentInit, DoneInv, FinalMeansDone

LEMMA NextDone == ChatInv /\ DoneInv /\ [Next]_vars => DoneInv'
<1> SUFFICES ASSUME ChatInv, DoneInv, [Next]_vars PROVE DoneInv'
  OBVIOUS
<1>1. CASE Run
  BY <1>1, RunIsDone DEF Run
<1>2. ASSUME NEW m \in Messages, Acquire(m) PROVE DoneInv'
  <2>1. pc' = "loop" /\ continuations' = 0
    BY <1>2, AcquireFacts DEF ChatInv, FollowupsInTurn
  <2> QED BY <2>1 DEF DoneInv, FinalMeansDone
<1>3. ASSUME NEW m \in Messages, Release(m) PROVE DoneInv'
  <2>1. pc' = "idle" /\ continuations' = continuations
    BY <1>3 DEF Release, ApplyTransition
  <2> QED BY <2>1 DEF DoneInv, FinalMeansDone
<1>4. CASE ~Run /\ \A m \in Messages : ~Acquire(m) /\ ~Release(m)
  BY <1>4, AsideFacts DEF DoneInv, FinalMeansDone
<1> QED BY <1>1, <1>2, <1>3, <1>4

\* A run whose answer is final wrote it over a todo list that was empty, done
\* or blocked on the user, or had used up its continuations
\* (CompletionCheckHook), whatever the model, the user and the clock do.
THEOREM FinalDone == Spec => []FinalMeansDone
<1>1. Init => ChatInv /\ DoneInv
  BY InitChat, InitDone
<1>2. ChatInv /\ DoneInv /\ [Next]_vars => ChatInv' /\ DoneInv'
  BY NextChat, NextDone
<1>3. DoneInv => FinalMeansDone
  BY DEF DoneInv
<1> QED BY <1>1, <1>2, <1>3, PTL DEF Spec


-----------------------------------------------------------------------------
(* AnswerCoversAccepted.                                                     *)

LEMMA InitAnswer == Init => AnswerInv
<1> SUFFICES ASSUME Init PROVE AnswerInv
  OBVIOUS
<1>1. \A m \in Messages : reply[m].kind = "none"
  BY DEF Init, NoReply
<1>2. draft = {} /\ batch = "none" /\ accepted = {} /\ pc = "idle"
  BY DEF Init, AgentInit
<1> QED BY <1>1, <1>2 DEF AnswerInv, AnswerCoversAccepted

\* Without drafts an answer is written over the whole memory, and only when the
\* inbox is empty.
LEMMA RunAnswers ==
  ASSUME ChatInv, AnswerInv, ~Drafts, RunStep
  PROVE  /\ draft' = {} /\ batch' # "todos_long"
         /\ pc' = "saving" => result' = "completed" /\ accepted \subseteq answer'
         /\ pc' = "returning" /\ result' = "completed" =>
              pc = "saving" /\ result = "completed" /\ answer' = answer
<1> USE DEF Finish, NextIteration, session, counters, AnswerInv
<1>1. CASE LoopEnds \/ LoopDrains \/ ApplyContext \/ SampleCancelled \/ SampleFails
  BY <1>1 DEF LoopEnds, LoopDrains, ApplyContext, SampleCancelled, SampleFails
<1>2. CASE LoopDetected \/ MalformedReply \/ AskUser
  BY <1>2 DEF LoopDetected, MalformedReply, AskUser
<1>3. CASE CallTools
  <2>1. pc' = "tools" /\ draft' = draft
    BY <1>3 DEF CallTools
  <2>2. PICK b \in Batches \ {"none"} : (b = "todos_long" => Drafts) /\ batch' = b
    BY <1>3 DEF CallTools
  <2> QED BY <2>1, <2>2
<1>4. CASE ToolsReturn \/ ToolsFail \/ FinalSent \/ HardTimeout
  BY <1>4 DEF ToolsReturn, ToolsFail, FinalSent, HardTimeout
<1>5. CASE FinalReply
  <2>1. pc = "sample" /\ draft' \in {draft, {}} /\ batch' \in {batch, "none"}
        /\ (pc' = "returning" => result' = "cancelled")
    BY <1>5 DEF FinalReply
  <2>2. ASSUME pc' = "saving" PROVE result' = "completed" /\ accepted \subseteq answer'
    <3>1. InboxEmpty /\ result' = "completed" /\ \E size \in Sizes : answer' = Coverage(size)
      BY <1>5, <2>2 DEF FinalReply
    <3>2. answer' = Elements(known)
      BY <3>1, CoverageTyped DEF ChatInv
    <3>3. inbox = <<>> /\ drained = <<>>
      BY <2>1, <3>1 DEF InboxEmpty, ChatInv, DrainedAtOnce
    <3>4. Memory = Elements(known)
      BY <3>3, ElementsEmpty DEF Memory
    <3> QED BY <3>1, <3>2, <3>4
  <2> QED BY <2>1, <2>2
<1> QED BY <1>1, <1>2, <1>3, <1>4, <1>5 DEF RunStep

\* Steps that change neither the run nor what the replies say.
LEMMA AsideAnswer ==
  ASSUME AnswerInv, UNCHANGED <<pc, result, answer, draft, batch, owed>>,
         accepted' \subseteq Memory',
         \A m \in Messages : reply'[m] = reply[m] \/ reply'[m].kind # "completed"
  PROVE  AnswerInv'
BY DEF AnswerInv, AnswerCoversAccepted

LEMMA NextAnswer ==
  ASSUME ~Drafts, ~SlowProgress, ChatInv, AnswerInv, [Next]_vars
  PROVE  AnswerInv'
<1>s. Shapes /\ accepted \subseteq Memory
  BY DEF ChatInv, AnswerInv
<1>1. CASE Run
  <2>1. RunStep /\ owed' = (IF pc' = "saving" THEN accepted ELSE owed)
        /\ UNCHANGED <<accepted, reply>>
    BY <1>1 DEF Run
  <2>2. /\ draft' = {} /\ batch' # "todos_long"
        /\ pc' = "saving" => result' = "completed" /\ accepted \subseteq answer'
        /\ pc' = "returning" /\ result' = "completed" =>
             pc = "saving" /\ result = "completed" /\ answer' = answer
    BY <2>1, RunAnswers
  <2>3. Memory' = Memory
    BY <2>1, RunMemory DEF ChatInv
  <2>4. AnswerCoversAccepted'
    BY <2>1 DEF AnswerInv, AnswerCoversAccepted
  <2>5. pc' \in {"saving", "returning"} /\ result' = "completed" => owed' \subseteq answer'
    BY <2>1, <2>2 DEF AnswerInv
  <2> QED BY <1>s, <2>1, <2>2, <2>3, <2>4, <2>5 DEF AnswerInv
<1>2. ASSUME NEW m \in Messages, Acquire(m) PROVE AnswerInv'
  <2>1. /\ pc = "idle" /\ pc' = "loop" /\ draft' = {} /\ batch' = "none" /\ drained' = <<>>
        /\ Elements(inbox') \cup Elements(known')
             = Elements(inbox) \cup Elements(known) \cup Elements(Carried(m))
        /\ accepted' = accepted \cup Elements(Carried(m)) /\ UNCHANGED reply
    BY <1>2, AcquireFacts DEF ChatInv, FollowupsInTurn
  <2>2. drained = <<>>
    BY <2>1 DEF ChatInv, DrainedAtOnce
  <2>3. accepted' \subseteq Memory'
    BY <1>s, <2>1, <2>2, ElementsEmpty DEF Memory
  <2> QED BY <2>1, <2>3 DEF AnswerInv, AnswerCoversAccepted
<1>3. ASSUME NEW m \in Messages, Release(m) PROVE AnswerInv'
  <2> DEFINE r == [kind |-> result, covers |-> answer, owes |-> owed]
  <2>1. /\ pc = "returning" /\ pc' = "idle" /\ draft' = {}
        /\ reply' = [reply EXCEPT ![m] = r]
        /\ r.kind = result /\ r.covers = answer /\ r.owes = owed
        /\ UNCHANGED <<inbox, known, drained, batch, accepted>>
    BY <1>3, <1>s, ReleaseFacts
  <2> HIDE DEF r
  <2>2. \A n \in Messages : reply'[n] = (IF n = m THEN r ELSE reply[n])
    BY <2>1 DEF ChatInv, Shapes
  <2>3. r.kind = "completed" => r.owes \subseteq r.covers
    BY <2>1 DEF AnswerInv
  <2>4. AnswerCoversAccepted'
    BY <2>2, <2>3 DEF AnswerInv, AnswerCoversAccepted
  <2>5. Memory' = Memory
    BY <2>1 DEF Memory
  <2> QED BY <1>s, <2>1, <2>4, <2>5 DEF AnswerInv
<1>4. CASE ~Run /\ \A m \in Messages : ~Acquire(m) /\ ~Release(m)
  <2>1. UNCHANGED <<pc, result, answer, drained, draft, batch, owed>>
    BY <1>4, AsideFacts
  <2>2. ASSUME NEW m \in Messages, Push(m) PROVE AnswerInv'
    <3>1. inbox' = Append(inbox, m) /\ accepted' = accepted \cup {m}
          /\ UNCHANGED <<known, reply>>
      BY <2>2 DEF Push, session
    <3>2. Elements(inbox') = Elements(inbox) \cup {m}
      BY <1>s, <3>1, ElementsAppend DEF Shapes
    <3>3. accepted' \subseteq Memory'
      BY <1>s, <2>1, <3>1, <3>2 DEF Memory
    <3> QED BY <2>1, <3>1, <3>3, AsideAnswer
  <2>3. ASSUME NEW m \in Messages, Refused(m) PROVE AnswerInv'
    <3> DEFINE r == [NoReply EXCEPT !.kind = "refused"]
    <3>1. /\ reply' = [reply EXCEPT ![m] = r] /\ r.kind = "refused"
          /\ UNCHANGED known
          /\ \/ /\ Elements(inbox') = Elements(inbox) \cup Elements(Carried(m))
                /\ accepted' = accepted \cup Elements(Carried(m))
             \/ Elements(inbox') = Elements(inbox) /\ accepted' = accepted
      BY <1>s, <2>3, RefusedFacts
    <3> HIDE DEF r
    <3>2. \A n \in Messages : reply'[n] = (IF n = m THEN r ELSE reply[n])
      BY <3>1 DEF ChatInv, Shapes
    <3>3. accepted' \subseteq Memory'
      BY <1>s, <2>1, <3>1 DEF Memory
    <3> QED BY <2>1, <3>1, <3>2, <3>3, AsideAnswer
  <2>4. CASE ResetNow
    <3>1. reply' = reply /\ (accepted' = {} \/ UNCHANGED <<inbox, known, accepted>>)
      BY <2>4 DEF ResetNow, session
    <3>2. accepted' \subseteq Memory'
      BY <1>s, <2>1, <3>1 DEF Memory
    <3> QED BY <2>1, <3>1, <3>2, AsideAnswer
  <2>5. CASE /\ ~ResetNow /\ \A m \in Messages : ~Push(m) /\ ~Refused(m)
    <3>1. UNCHANGED <<inbox, known, accepted, reply>>
      BY <1>4, <2>5 DEF Next, FlowStep, Arrive, QueueFollowup, Decide, MarkStarted, TakeHandles,
         BeginFinalization, PrepareDelivery, Deliver, vars, Clock, TimePasses, Cancel, PressReset,
         CancelCurrent, agentVars, chatVars, resetVars, session
    <3>2. accepted' \subseteq Memory'
      BY <1>s, <2>1, <3>1 DEF Memory
    <3> QED BY <2>1, <3>1, <3>2, AsideAnswer
  <2> QED BY <2>2, <2>3, <2>4, <2>5
<1> QED BY <1>1, <1>2, <1>3, <1>4

\* Without drafts, and while the progress channel takes what a run sends, a
\* final answer was written with every message in view that the session had
\* accepted when the answer was fixed (handle_final_response,
\* has_pending_runtime_context).
THEOREM AnswerCovers ==
  ASSUME ~Drafts, ~SlowProgress
  PROVE  Spec => []AnswerCoversAccepted
<1>1. Init => ChatInv /\ AnswerInv
  BY InitChat, InitAnswer
<1>2. ChatInv /\ AnswerInv /\ [Next]_vars => ChatInv' /\ AnswerInv'
  BY NextChat, NextAnswer
<1>3. AnswerInv => AnswerCoversAccepted
  BY DEF AnswerInv
<1> QED BY <1>1, <1>2, <1>3, PTL DEF Spec


-----------------------------------------------------------------------------
(* One flow at a time, and what it means for the follow-ups.                 *)

\* A message's own step changes its own stage.
LEMMA StageFacts ==
  ASSUME Shapes, NEW m \in Messages, Arrive(m) \/ FlowStep(m)
  PROVE  /\ \A n \in Messages : n # m => stage'[n] = stage[n]
         /\ stage'[m] # "free"
         /\ stage[m] \in Quiet => stage'[m] \in Quiet \/ Decide(m)
<1>1. PICK s \in Stages \ {"free"} : Goto(m, s) /\ (stage[m] \in Quiet => s \in Quiet \/ Decide(m))
  <2> USE DEF Stages, Quiet
  <2>1. CASE Arrive(m) \/ Push(m) \/ QueueFollowup(m) \/ Decide(m)
    BY <2>1 DEF Arrive, Push, QueueFollowup, Decide
  <2>2. CASE MarkStarted(m) \/ TakeHandles(m) \/ Acquire(m) \/ Refused(m)
    BY <2>2 DEF MarkStarted, TakeHandles, Acquire, Refused
  <2>3. CASE Release(m) \/ BeginFinalization(m) \/ PrepareDelivery(m) \/ Deliver(m)
    BY <2>3 DEF Release, BeginFinalization, PrepareDelivery, Deliver
  <2> QED BY <2>1, <2>2, <2>3 DEF FlowStep
<1> QED BY <1>1, GotoFacts

LEMMA OtherStages ==
  ASSUME [Next]_vars, \A m \in Messages : ~Arrive(m) /\ ~FlowStep(m)
  PROVE  UNCHANGED <<stage, mode, handle, followed, reply, phase, followups, current, holder>>
BY DEF Next, vars, chatVars, Run, Clock, Cancel, PressReset, ResetNow, CancelCurrent

LEMMA InitAlone == Init => Alone
BY DEF Init, Alone, Quiet

LEMMA NextAlone ==
  ASSUME ~Overlap, ChatInv, Alone, [Next]_vars
  PROVE  Alone'
<1>1. CASE \A m \in Messages : ~Arrive(m) /\ ~FlowStep(m)
  BY <1>1, OtherStages DEF Alone
<1>2. ASSUME NEW m \in Messages, Arrive(m) \/ FlowStep(m) PROVE Alone'
  <2>1. /\ \A n \in Messages : n # m => stage'[n] = stage[n]
        /\ stage[m] \in Quiet => stage'[m] \in Quiet \/ Decide(m)
    BY <1>2, StageFacts DEF ChatInv
  <2>2. Decide(m) => \A n \in Messages \ {m} : stage[n] \in Quiet
    BY DEF Decide
  <2> QED BY <2>1, <2>2 DEF Alone
<1> QED BY <1>1, <1>2

\* While one flow is under way short of preparing its answer, nobody's
\* follow-ups wait.
LEMMA NoFollowups ==
  ASSUME ChatInv, Alone, NEW m \in Messages, stage[m] \notin Quiet \cup {"finalizing"}
  PROVE  followups = <<>>
BY DEF ChatInv, FollowupsInTurn, Alone, Quiet

-----------------------------------------------------------------------------
(* MessagesKept.                                                             *)

Early == {"free", "push", "followup", "start", "decided", "marked"}

\* The part of KeptInv a step has to re-establish for one message.
Held(m) == stage[m] \in Early \/ (stage[m] = "waiting" /\ followed[m] = <<>>) \/ Kept(m)

LEMMA KeptIsHeld == KeptInv <=> \A m \in Messages : Held(m)
BY DEF KeptInv, Held, Early

LEMMA InitKept == Init => KeptInv
BY DEF Init, KeptInv

\* Nothing is forgotten by a step that takes nothing from where messages are.
LEMMA KeptStays ==
  ASSUME NEW n \in Messages, Kept(n),
         Memory \cup Elements(followups) \subseteq Memory' \cup Elements(followups)',
         erased \subseteq erased',
         \A k \in Messages : stage[k] \in {"restarting", "waiting"} =>
            stage'[k] \in {"restarting", "waiting"} /\ followed'[k] = followed[k],
         reply[n].kind = "refused" => reply'[n].kind = "refused"
  PROVE  Kept(n)'
<1>1. CASE n \in Memory \cup Elements(followups)
  BY <1>1 DEF Kept
<1>2. CASE \E k \in Messages : stage[k] \in {"restarting", "waiting"} /\ n \in Elements(followed[k])
  <2>1. PICK k \in Messages : stage[k] \in {"restarting", "waiting"} /\ n \in Elements(followed[k])
    BY <1>2
  <2>2. stage'[k] \in {"restarting", "waiting"} /\ n \in Elements(followed'[k])
    BY <2>1
  <2> QED BY <2>2 DEF Kept
<1>3. CASE n \in erased \/ reply[n].kind = "refused"
  BY <1>3 DEF Kept
<1> QED BY <1>1, <1>2, <1>3 DEF Kept

\* The same when the only flow that carries follow-ups puts them in memory.
LEMMA KeptHandedIn ==
  ASSUME NEW n \in Messages, NEW m \in Messages, Kept(n),
         Memory \cup Elements(followups) \subseteq Memory' \cup Elements(followups)',
         Elements(followed[m]) \subseteq Memory',
         erased \subseteq erased',
         \A k \in Messages \ {m} : stage'[k] = stage[k] /\ followed'[k] = followed[k],
         reply[n].kind = "refused" => reply'[n].kind = "refused"
  PROVE  Kept(n)'
<1>1. CASE n \in Memory \cup Elements(followups)
  BY <1>1 DEF Kept
<1>2. CASE \E k \in Messages : stage[k] \in {"restarting", "waiting"} /\ n \in Elements(followed[k])
  <2>1. PICK k \in Messages : stage[k] \in {"restarting", "waiting"} /\ n \in Elements(followed[k])
    BY <1>2
  <2>2. CASE k = m
    BY <2>1, <2>2 DEF Kept
  <2>3. CASE k # m
    <3>1. stage'[k] \in {"restarting", "waiting"} /\ n \in Elements(followed'[k])
      BY <2>1, <2>3
    <3> QED BY <3>1 DEF Kept
  <2> QED BY <2>2, <2>3
<1>3. CASE n \in erased \/ reply[n].kind = "refused"
  BY <1>3 DEF Kept
<1> QED BY <1>1, <1>2, <1>3 DEF Kept


\* A message whose own flow does not move stays where it is held.
LEMMA HeldStays ==
  ASSUME NEW n \in Messages, Held(n), UNCHANGED <<stage[n], followed[n]>>, Kept(n) => Kept(n)'
  PROVE  Held(n)'
BY DEF Held

LEMMA KeptRoute ==
  ASSUME ChatInv, Alone, KeptInv, NEW m \in Messages,
         Arrive(m) \/ Push(m) \/ QueueFollowup(m) \/ Decide(m) \/ MarkStarted(m) \/ TakeHandles(m)
  PROVE  KeptInv'
<1>s. Shapes /\ \A n \in Messages : Held(n)
  BY KeptIsHeld DEF ChatInv
<1>g. /\ \A n \in Messages : n # m => stage'[n] = stage[n]
      /\ UNCHANGED <<followed, reply, known, drained, erased>>
  <2>1. \A n \in Messages : n # m => stage'[n] = stage[n]
    BY <1>s, StageFacts DEF FlowStep
  <2>2. UNCHANGED <<followed, reply, known, drained, erased>>
    BY DEF Arrive, Push, QueueFollowup, Decide, MarkStarted, TakeHandles, agentVars, session,
           resetVars
  <2> QED BY <2>1, <2>2
<1>1. /\ stage[m] \in {"restarting", "waiting"} => stage'[m] \in {"restarting", "waiting"}
      /\ Elements(inbox) \subseteq Elements(inbox')
      /\ Elements(followups) \subseteq Elements(followups')
      /\ stage'[m] \in Early \/ (stage'[m] = "waiting" /\ stage[m] = "restarting")
         \/ (stage'[m] = "waiting" /\ followed[m] = <<>>)
         \/ m \in Elements(inbox') \cup Elements(followups')
  <2>1. CASE Arrive(m)
    <3>1. stage[m] = "free" /\ \E s \in {"push", "followup"} : Goto(m, s)
          /\ UNCHANGED <<inbox, followups>>
      BY <2>1 DEF Arrive, agentVars
    <3>2. stage'[m] \in {"push", "followup"}
      BY <1>s, <3>1, GotoFacts DEF Stages
    <3> QED BY <3>1, <3>2 DEF Early
  <2>2. CASE Push(m)
    <3>1. stage[m] = "push" /\ inbox' = Append(inbox, m) /\ followups' = followups
      BY <2>2 DEF Push
    <3>2. Elements(inbox') = Elements(inbox) \cup {m}
      BY <1>s, <3>1, ElementsAppend DEF Shapes
    <3> QED BY <3>1, <3>2
  <2>3. CASE QueueFollowup(m)
    <3>1. stage[m] = "followup" /\ inbox' = inbox
      BY <2>3 DEF QueueFollowup, agentVars
    <3>2. CASE followups' = Append(followups, m)
      <4>1. Elements(followups') = Elements(followups) \cup {m}
        BY <1>s, <3>2, ElementsAppend DEF Shapes
      <4> QED BY <3>1, <4>1
    <3>3. CASE followups' = followups /\ Goto(m, "start")
      <4>1. stage'[m] = "start"
        BY <1>s, <3>3, GotoFacts DEF Stages
      <4> QED BY <3>1, <3>3, <4>1 DEF Early
    <3> QED BY <2>3, <3>2, <3>3 DEF QueueFollowup
  <2>4. CASE Decide(m)
    <3>1. stage[m] = "start" /\ Goto(m, "decided") /\ UNCHANGED <<inbox, followups>>
      BY <2>4 DEF Decide, agentVars
    <3>2. stage'[m] = "decided"
      BY <1>s, <3>1, GotoFacts DEF Stages
    <3> QED BY <3>1, <3>2 DEF Early
  <2>5. CASE MarkStarted(m)
    <3>1. stage[m] = "decided" /\ Goto(m, "marked") /\ inbox' = inbox /\ followups' = <<>>
      BY <2>5 DEF MarkStarted, agentVars
    <3>2. stage'[m] = "marked"
      BY <1>s, <3>1, GotoFacts DEF Stages
    <3>3. followups = <<>>
      BY <3>1, NoFollowups DEF Quiet
    <3> QED BY <3>1, <3>2, <3>3 DEF Early
  <2>6. CASE TakeHandles(m)
    <3>1. /\ stage[m] \in {"marked", "restarting"} /\ Goto(m, "waiting")
          /\ UNCHANGED <<inbox, followups>>
      BY <2>6 DEF TakeHandles, agentVars
    <3>2. stage'[m] = "waiting"
      BY <1>s, <3>1, GotoFacts DEF Stages
    <3>3. stage[m] = "marked" => followed[m] = <<>>
      BY DEF ChatInv, FollowupsInTurn
    <3> QED BY <3>1, <3>2, <3>3
  <2> QED BY <2>1, <2>2, <2>3, <2>4, <2>5, <2>6
<1>2. Memory \cup Elements(followups) \subseteq Memory' \cup Elements(followups)'
  BY <1>1, <1>g DEF Memory
<1>3. ASSUME NEW n \in Messages, Kept(n) PROVE Kept(n)'
  BY <1>1, <1>2, <1>3, <1>g, KeptStays
<1>4. ASSUME NEW n \in Messages PROVE Held(n)'
  <2>1. CASE n # m
    BY <1>3, <1>g, <1>s, <2>1, HeldStays
  <2>2. CASE n = m
    <3>1. CASE stage[m] = "restarting"
      <4>1. Kept(m)
        BY <1>s, <3>1 DEF Held, Early
      <4> QED BY <1>3, <2>2, <4>1 DEF Held
    <3>2. CASE m \in Elements(inbox') \cup Elements(followups')
      <4>1. m \in (Memory \cup Elements(followups))'
        BY <3>2 DEF Memory
      <4> QED BY <2>2, <4>1 DEF Held, Kept
    <3>3. CASE stage'[m] \in Early \/ (stage'[m] = "waiting" /\ followed[m] = <<>>)
      BY <1>g, <2>2, <3>3 DEF Held
    <3> QED BY <1>1, <3>1, <3>2, <3>3
  <2> QED BY <2>1, <2>2
<1> QED BY <1>4 DEF KeptInv, Held, Early

LEMMA KeptStart ==
  ASSUME ChatInv, KeptInv, NEW m \in Messages, Acquire(m) \/ Refused(m)
  PROVE  KeptInv'
<1>s. Shapes /\ \A n \in Messages : Held(n)
  BY KeptIsHeld DEF ChatInv
<1>g. /\ stage[m] = "waiting" /\ \A n \in Messages : n # m => stage'[n] = stage[n]
      /\ UNCHANGED <<followed, followups, erased>>
  <2>1. \A n \in Messages : n # m => stage'[n] = stage[n]
    BY <1>s, StageFacts DEF FlowStep
  <2>2. stage[m] = "waiting" /\ UNCHANGED <<followed, followups, erased>>
    BY DEF Acquire, Refused, resetVars
  <2> QED BY <2>1, <2>2
<1>c. /\ followed[m] # <<>> => Carried(m) = followed[m] /\ mode[m] = "continue"
      /\ followed[m] = <<>> => Elements(Carried(m)) = {m} /\ Elements(followed[m]) = {}
  BY <1>s, CarriedFacts, ElementsEmpty DEF Carried, ChatInv, FollowupsInTurn
<1>1. /\ Memory \subseteq Memory' /\ Elements(followed[m]) \subseteq Memory'
      /\ followed[m] = <<>> => Kept(m)'
      /\ \A n \in Messages : reply[n].kind = "refused" => reply'[n].kind = "refused"
  <2>1. CASE Acquire(m)
    <3>1. /\ pc = "idle" /\ drained' = <<>> /\ UNCHANGED reply
          /\ Elements(inbox') \cup Elements(known')
               = Elements(inbox) \cup Elements(known) \cup Elements(Carried(m))
      BY <1>c, <1>s, <2>1, AcquireFacts
    <3>2. drained = <<>>
      BY <3>1 DEF ChatInv, DrainedAtOnce
    <3>3. Memory' = Memory \cup Elements(Carried(m))
      BY <3>1, <3>2 DEF Memory
    <3>4. followed[m] = <<>> => m \in Memory'
      BY <1>c, <3>3
    <3> QED BY <1>c, <3>1, <3>3, <3>4 DEF Kept
  <2>2. CASE Refused(m)
    <3> DEFINE r == [NoReply EXCEPT !.kind = "refused"]
    <3>1. /\ reply' = [reply EXCEPT ![m] = r] /\ r.kind = "refused"
          /\ UNCHANGED <<known, drained>>
          /\ \/ mode[m] = "continue" /\ Elements(inbox') = Elements(inbox) \cup Elements(Carried(m))
             \/ mode[m] = "resume" /\ Elements(inbox') = Elements(inbox)
      BY <1>s, <2>2, RefusedFacts
    <3> HIDE DEF r
    <3>2. \A n \in Messages : reply'[n] = (IF n = m THEN r ELSE reply[n])
      BY <1>s, <3>1 DEF Shapes
    <3>3. Elements(inbox) \subseteq Elements(inbox') /\ Elements(followed[m]) \subseteq Elements(inbox')
      BY <1>c, <3>1
    <3>4. Memory \subseteq Memory' /\ Elements(followed[m]) \subseteq Memory'
      BY <3>1, <3>3 DEF Memory
    <3>5. reply'[m].kind = "refused"
      BY <3>1, <3>2
    <3>6. Kept(m)'
      BY <3>5 DEF Kept
    <3> QED BY <3>1, <3>2, <3>4, <3>6
  <2> QED BY <2>1, <2>2
<1>2. Memory \cup Elements(followups) \subseteq Memory' \cup Elements(followups)'
  BY <1>1, <1>g
<1>3. ASSUME NEW n \in Messages, Kept(n) PROVE Kept(n)'
  BY <1>1, <1>2, <1>3, <1>g, KeptHandedIn
<1>4. ASSUME NEW n \in Messages PROVE Held(n)'
  <2>1. CASE n # m
    BY <1>3, <1>g, <1>s, <2>1, HeldStays
  <2>2. CASE n = m
    <3>1. Kept(m)'
      BY <1>1, <1>3, <1>g, <1>s DEF Held, Early
    <3> QED BY <2>2, <3>1 DEF Held
  <2> QED BY <2>1, <2>2
<1> QED BY <1>4 DEF KeptInv, Held, Early


\* The end of a flow: its follow-ups are handed on, or there are none.
LEMMA KeptEnd ==
  ASSUME ChatInv, Alone, KeptInv, NEW m \in Messages,
         Release(m) \/ BeginFinalization(m) \/ PrepareDelivery(m) \/ Deliver(m)
  PROVE  KeptInv'
<1>s. Shapes /\ \A n \in Messages : Held(n)
  BY KeptIsHeld DEF ChatInv
<1>g. /\ \A n \in Messages : n # m => stage'[n] = stage[n]
      /\ UNCHANGED <<inbox, known, drained, erased>>
      /\ stage[m] \in {"running", "returned", "finalizing", "delivering"}
  <2>1. \A n \in Messages : n # m => stage'[n] = stage[n]
    BY <1>s, StageFacts DEF FlowStep
  <2>2. UNCHANGED <<inbox, known, drained, erased>>
    BY DEF Release, ApplyTransition, BeginFinalization, PrepareDelivery, Deliver, agentVars,
           session, resetVars
  <2>3. stage[m] \in {"running", "returned", "finalizing", "delivering"}
    BY DEF Release, BeginFinalization, PrepareDelivery, Deliver
  <2> QED BY <2>1, <2>2, <2>3
<1>m. Memory' = Memory /\ Kept(m)
  BY <1>g, <1>s DEF Memory, Held, Early
<1>1. /\ \A n \in Messages : n # m => followed'[n] = followed[n]
      /\ \A n \in Messages : reply[n].kind = "refused" => reply'[n].kind = "refused"
      /\ \/ followups' = followups
         \/ followups = <<>>
         \/ stage'[m] = "restarting" /\ followed'[m] = followups
  <2>1. CASE Release(m)
    <3>1. UNCHANGED <<followed, followups>> /\ reply[m].kind # "refused"
      BY <2>1 DEF Release, ChatInv, RefusedEnds
    <3>2. \A n \in Messages : n # m => reply'[n] = reply[n]
      BY <1>s, <2>1 DEF Release, Shapes
    <3> QED BY <3>1, <3>2
  <2>2. CASE BeginFinalization(m)
    BY <2>2 DEF BeginFinalization
  <2>3. CASE PrepareDelivery(m)
    <3>1. UNCHANGED reply
      BY <2>3 DEF PrepareDelivery
    <3>2. CASE phase = "finalizing" /\ followups # <<>>
      <4>1. Goto(m, "restarting") /\ followed' = [followed EXCEPT ![m] = followups]
        BY <2>3, <3>2 DEF PrepareDelivery, TakenFollowups
      <4>2. stage'[m] = "restarting"
        BY <1>s, <4>1, GotoFacts DEF Stages
      <4>3. followed'[m] = followups /\ \A n \in Messages : n # m => followed'[n] = followed[n]
        BY <1>s, <4>1 DEF Shapes
      <4> QED BY <3>1, <4>2, <4>3
    <3>3. CASE ~(phase = "finalizing" /\ followups # <<>>)
      BY <2>3, <3>1, <3>3 DEF PrepareDelivery
    <3> QED BY <3>2, <3>3
  <2>4. CASE Deliver(m)
    <3>1. stage[m] = "delivering" /\ followed' = [followed EXCEPT ![m] = <<>>] /\ UNCHANGED reply
      BY <2>4 DEF Deliver
    <3>2. followups = <<>>
      BY <3>1, NoFollowups DEF Quiet
    <3>3. \A n \in Messages : n # m => followed'[n] = followed[n]
      BY <1>s, <3>1 DEF Shapes
    <3> QED BY <3>1, <3>2, <3>3
  <2> QED BY <2>1, <2>2, <2>3, <2>4
<1>2. ASSUME NEW n \in Messages, Kept(n) PROVE Kept(n)'
  <2>1. CASE n \in Memory
    BY <1>m, <2>1 DEF Kept
  <2>2. CASE n \in Elements(followups)
    <3>1. CASE followups' = followups
      BY <2>2, <3>1 DEF Kept
    <3>2. CASE followups = <<>>
      BY <2>2, <3>2, ElementsEmpty
    <3>3. CASE stage'[m] = "restarting" /\ followed'[m] = followups
      <4>1. n \in Elements(followed'[m])
        BY <2>2, <3>3
      <4> QED BY <3>3, <4>1 DEF Kept
    <3> QED BY <1>1, <3>1, <3>2, <3>3
  <2>3. CASE \E k \in Messages : stage[k] \in {"restarting", "waiting"} /\ n \in Elements(followed[k])
    <3>1. PICK k \in Messages : stage[k] \in {"restarting", "waiting"} /\ n \in Elements(followed[k])
      BY <2>3
    <3>2. stage'[k] = stage[k] /\ followed'[k] = followed[k]
      BY <1>1, <1>g, <3>1
    <3>3. stage'[k] \in {"restarting", "waiting"} /\ n \in Elements(followed'[k])
      BY <3>1, <3>2
    <3> QED BY <3>3 DEF Kept
  <2>4. CASE n \in erased \/ reply[n].kind = "refused"
    BY <1>1, <1>g, <2>4 DEF Kept
  <2> QED BY <1>2, <2>1, <2>2, <2>3, <2>4 DEF Kept
<1>3. ASSUME NEW n \in Messages PROVE Held(n)'
  <2>1. CASE n # m
    BY <1>1, <1>2, <1>g, <1>s, <2>1, HeldStays
  <2>2. CASE n = m
    BY <1>2, <1>m, <2>2 DEF Held
  <2> QED BY <2>1, <2>2
<1> QED BY <1>3 DEF KeptInv, Held, Early

LEMMA KeptElsewhere ==
  ASSUME ~SlowProgress, ChatInv, KeptInv, [Next]_vars,
         \A m \in Messages : ~Arrive(m) /\ ~FlowStep(m)
  PROVE  KeptInv'
<1>s. Shapes /\ \A n \in Messages : Held(n)
  BY KeptIsHeld DEF ChatInv
<1>1. UNCHANGED <<stage, followed, reply, followups>>
  BY OtherStages
<1>2. ASSUME NEW n \in Messages, Kept(n) PROVE Kept(n)'
  <2>1. CASE ResetNow /\ holder = NoFlow
    <3>1. /\ erased' = erased \cup Elements(known \o inbox)
          /\ known' = <<>> /\ inbox' = <<>> /\ drained' = drained
      BY <2>1 DEF ResetNow, ResetSession
    <3>2. Elements(known \o inbox) = Elements(known) \cup Elements(inbox)
      BY <1>s, ElementsConcat DEF Shapes
    <3>3. n \in Elements(known) \cup Elements(inbox) => n \in erased'
      BY <3>1, <3>2
    <3>4. CASE n \in Elements(known) \cup Elements(inbox)
      BY <3>3, <3>4 DEF Kept
    <3>5. CASE n \in Elements(drained) \cup Elements(followups)
      <4>1. n \in Elements(drained') \cup Elements(followups')
        BY <1>1, <3>1, <3>5
      <4> QED BY <4>1 DEF Kept, Memory
    <3>6. CASE n \notin Memory \cup Elements(followups)
      <4>1. erased \subseteq erased'
        BY <3>1
      <4> QED BY <1>1, <1>2, <3>6, <4>1 DEF Kept
    <3> QED BY <3>4, <3>5, <3>6 DEF Memory
  <2>2. CASE ~(ResetNow /\ holder = NoFlow)
    <3>1. Memory' = Memory /\ erased' = erased
      <4>1. CASE Run
        BY <4>1, RunMemory DEF Run, ChatInv
      <4>2. CASE ~Run
        <5>1. UNCHANGED <<inbox, known, drained, erased>>
          BY <2>2, <4>2 DEF Next, vars, agentVars, chatVars, resetVars, Clock, TimePasses, Cancel,
             PressReset, ResetNow, CancelCurrent, session
        <5> QED BY <5>1 DEF Memory
      <4> QED BY <4>1, <4>2
    <3> QED BY <1>1, <1>2, <3>1 DEF Kept
  <2> QED BY <2>1, <2>2
<1>3. ASSUME NEW n \in Messages PROVE Held(n)'
  BY <1>1, <1>2, <1>s DEF Held
<1> QED BY <1>3 DEF KeptInv, Held, Early

LEMMA NextKept ==
  ASSUME ~SlowProgress, ChatInv, Alone, KeptInv, [Next]_vars
  PROVE  KeptInv'
<1>1. CASE \A m \in Messages : ~Arrive(m) /\ ~FlowStep(m)
  BY <1>1, KeptElsewhere
<1>2. ASSUME NEW m \in Messages, Arrive(m) \/ FlowStep(m) PROVE KeptInv'
  BY <1>2, KeptRoute, KeptStart, KeptEnd DEF FlowStep
<1> QED BY <1>1, <1>2

LEMMA KeptIsSaid == ChatInv /\ KeptInv => MessagesKept
<1> SUFFICES ASSUME ChatInv, KeptInv PROVE MessagesKept
  OBVIOUS
<1>1. /\ inbox \in Seq(Messages) /\ known \in Seq(Messages) /\ drained \in Seq(Messages)
      /\ followups \in Seq(Messages)
  BY DEF ChatInv, Shapes
<1>2. /\ known \o inbox \in Seq(Messages)
      /\ Elements(known \o inbox) = Elements(known) \cup Elements(inbox)
  BY <1>1, ElementsConcat
<1>3. /\ (known \o inbox) \o drained \in Seq(Messages)
      /\ Elements((known \o inbox) \o drained) = Elements(known \o inbox) \cup Elements(drained)
  BY <1>1, <1>2, ElementsConcat
<1>4. Elements(((known \o inbox) \o drained) \o followups)
        = Elements((known \o inbox) \o drained) \cup Elements(followups)
  BY <1>1, <1>3, ElementsConcat
<1>5. Elements(known \o inbox \o drained \o followups) = Memory \cup Elements(followups)
  BY <1>2, <1>3, <1>4 DEF Memory
<1> QED BY <1>5 DEF KeptInv, Kept, MessagesKept, Quiet

\* When no flow starts under another and the progress channel takes what a run
\* sends, no message the chat took is lost: it is in the session's memory or
\* inbox, among the follow-ups, with a flow on its way to a run, was reset with
\* the session, or was refused aloud.
THEOREM KeepsMessages ==
  ASSUME ~Overlap, ~SlowProgress
  PROVE  Spec => []MessagesKept
<1>1. Init => ChatInv /\ Alone /\ KeptInv
  BY InitChat, InitAlone, InitKept
<1>2. ChatInv /\ Alone /\ KeptInv /\ [Next]_vars => ChatInv' /\ Alone' /\ KeptInv'
  BY NextChat, NextAlone, NextKept
<1>3. ChatInv /\ KeptInv => MessagesKept
  BY KeptIsSaid
<1> QED BY <1>1, <1>2, <1>3, PTL DEF Spec


-----------------------------------------------------------------------------
(* CancelReachesRun.                                                         *)

PressInv == TokenOfFlow /\ PressedInv

LEMMA InitPressed == Init => PressInv
<1> SUFFICES ASSUME Init PROVE PressInv
  OBVIOUS
<1>1. pc = "idle" /\ pressed = {} /\ \A m \in Messages : stage[m] = "free"
  BY DEF Init, AgentInit
<1> QED BY <1>1 DEF PressInv, TokenOfFlow, PressedInv

LEMMA RunPressed ==
  ASSUME ChatInv, PressInv, Run
  PROVE  PressInv'
<1>1. RunStep /\ UNCHANGED <<stage, handle, reply, current, pressed>>
  BY DEF Run
<1>2. /\ pc \notin {"idle", "returning"} /\ token' = token /\ cancelled \subseteq cancelled'
  BY <1>1, RunPoints DEF ChatInv
<1>3. TokenOfFlow'
  BY <1>1, <1>2 DEF PressInv, TokenOfFlow
<1>4. ASSUME NEW m \in pressed, stage[m] = "running"
      PROVE  /\ token' \in cancelled'
             /\ \/ pc' \in {"loop", "drained", "sample", "tools"}
                \/ pc' = "returning" /\ result' \notin Unanswered
  <2>1. token \in cancelled /\ pc \in {"loop", "drained", "sample", "tools"}
    BY <1>2, <1>4 DEF PressInv, PressedInv
  <2> QED BY <1>1, <1>2, <2>1, RunHears
<1>5. PressedInv'
  BY <1>1, <1>4 DEF PressInv, PressedInv
<1> QED BY <1>3, <1>5 DEF PressInv

\* A press reaches the run whose flow holds the lock.
LEMMA CancelPressed ==
  ASSUME ChatInv, PressInv, CancelCurrent
  PROVE  PressInv'
<1>1. /\ cancelled' = cancelled \cup {current}
      /\ UNCHANGED <<stage, handle, reply, current, pc, result, token, holder>>
  BY DEF CancelCurrent, session
<1>2. TokenOfFlow'
  BY <1>1 DEF PressInv, TokenOfFlow
<1>3. ASSUME NEW m \in pressed'
      PROVE  /\ m \in Messages /\ stage[m] # "free"
             /\ stage[m] = "running" =>
                  /\ token \in cancelled'
                  /\ \/ pc \in {"loop", "drained", "sample", "tools"}
                     \/ pc = "returning" /\ result \notin Unanswered
             /\ stage[m] # "running" => reply[m].kind \notin Unanswered
  <2>1. CASE m \in pressed
    BY <1>1, <2>1 DEF PressInv, PressedInv
  <2>2. CASE m \notin pressed
    <3>1. m = holder /\ pc \notin {"idle", "saving", "returning"}
      BY <2>2 DEF CancelCurrent
    <3>2. m \in Messages /\ stage[m] = "running"
      BY <3>1 DEF ChatInv, Shapes, OneRun
    <3>3. token = current /\ pc \in {"loop", "drained", "sample", "tools"}
      BY <3>1 DEF PressInv, TokenOfFlow, ChatInv, Shapes, Points
    <3> QED BY <1>1, <3>2, <3>3
  <2> QED BY <2>1, <2>2
<1>4. PressedInv'
  BY <1>1, <1>3 DEF PressedInv
<1> QED BY <1>2, <1>4 DEF PressInv

\* The steps of a flow that is not running.
LEMMA FlowPressed ==
  ASSUME ~Overlap, ChatInv, PressInv, NEW m \in Messages, Arrive(m) \/ FlowStep(m)
  PROVE  PressInv'
<1>s. Shapes
  BY DEF ChatInv
<1>g. (\A n \in Messages : n # m => stage'[n] = stage[n]) /\ stage'[m] # "free"
  BY <1>s, StageFacts
<1>h. holder = NoFlow => pc = "idle" /\ \A n \in Messages : stage[n] # "running"
  BY OverlapAssumption DEF ChatInv, OneRun
<1>t. TokenOfFlow /\ PressedInv
  BY DEF PressInv
<1>1. CASE Acquire(m)
  <2>1. /\ stage[m] = "waiting" /\ holder = NoFlow /\ pc' = "loop" /\ token' = handle[m]
        /\ pressed' = pressed \ {m} /\ UNCHANGED <<handle, reply, current>>
        /\ Goto(m, "running")
    BY <1>1, <1>s, AcquireFacts DEF ChatInv, FollowupsInTurn
  <2>2. stage'[m] = "running"
    BY <1>s, <2>1, GotoFacts DEF Stages
  <2>3. TokenOfFlow'
    BY <1>g, <1>t, <2>1, <2>2 DEF TokenOfFlow
  <2>4. \A n \in pressed' : n \in Messages /\ n # m /\ n \in pressed /\ stage'[n] = stage[n]
                            /\ stage[n] # "running"
    BY <1>g, <1>h, <1>t, <2>1 DEF PressedInv
  <2>5. PressedInv'
    BY <1>t, <2>1, <2>4 DEF PressedInv
  <2> QED BY <2>3, <2>5 DEF PressInv
<1>2. CASE Release(m)
  <2> DEFINE r == [kind |-> result, covers |-> answer, owes |-> owed]
  <2>1. /\ stage[m] = "running" /\ holder = m /\ pc = "returning" /\ pc' = "idle"
        /\ reply' = [reply EXCEPT ![m] = r] /\ r.kind = result
        /\ UNCHANGED <<handle, current, pressed>> /\ Goto(m, "returned")
    BY <1>2, <1>s, ReleaseFacts
  <2> HIDE DEF r
  <2>2. stage'[m] = "returned"
    BY <1>s, <2>1, GotoFacts DEF Stages
  <2>3. TokenOfFlow'
    BY <1>g, <1>t, <2>1, <2>2 DEF TokenOfFlow
  <2>4. \A n \in Messages : reply'[n] = (IF n = m THEN r ELSE reply[n])
    BY <1>s, <2>1 DEF Shapes
  <2>5. \A n \in Messages : n # m => stage[n] # "running"
    BY <2>1 DEF ChatInv, OneRun
  <2>6. m \in pressed => r.kind \notin Unanswered
    BY <1>t, <2>1 DEF PressedInv
  <2>7. PressedInv'
    BY <1>g, <1>t, <2>1, <2>2, <2>4, <2>5, <2>6 DEF PressedInv
  <2> QED BY <2>3, <2>7 DEF PressInv
<1>3. CASE Refused(m)
  <2> DEFINE r == [NoReply EXCEPT !.kind = "refused"]
  <2>1. /\ holder = NoFlow /\ Goto(m, "delivering")
        /\ reply' = [reply EXCEPT ![m] = r] /\ r.kind = "refused"
        /\ UNCHANGED <<handle, current, pressed, pc>>
    BY <1>3, <1>s, RefusedFacts
  <2> HIDE DEF r
  <2>2. stage'[m] = "delivering"
    BY <1>s, <2>1, GotoFacts DEF Stages
  <2>3. TokenOfFlow'
    BY <1>g, <1>h, <1>t, <2>1, <2>2 DEF TokenOfFlow
  <2>4. \A n \in Messages : reply'[n] = (IF n = m THEN r ELSE reply[n])
    BY <1>s, <2>1 DEF Shapes
  <2>5. \A n \in pressed' : n \in Messages /\ n \in pressed /\ stage'[n] # "running"
                            /\ stage'[n] # "free" /\ reply'[n].kind \notin Unanswered
    BY <1>g, <1>h, <1>t, <2>1, <2>2, <2>4 DEF PressedInv, Unanswered
  <2>6. PressedInv'
    BY <2>5 DEF PressedInv
  <2> QED BY <2>3, <2>6 DEF PressInv
<1>4. CASE ~Acquire(m) /\ ~Release(m) /\ ~Refused(m)
  <2>1. /\ UNCHANGED <<reply, pressed, pc, result, token, cancelled>>
        /\ stage[m] # "running"
    BY <1>4 DEF FlowStep, Arrive, Push, QueueFollowup, Decide, MarkStarted, TakeHandles,
       BeginFinalization, PrepareDelivery, Deliver, agentVars, session, resetVars
  <2>2. stage'[m] # "running"
    <3>1. PICK s \in Stages \ {"running"} : Goto(m, s)
      BY <1>4 DEF FlowStep, Arrive, Push, QueueFollowup, Decide, MarkStarted, TakeHandles,
         BeginFinalization, PrepareDelivery, Deliver, Stages
    <3> QED BY <1>s, <3>1, GotoFacts
  <2>3. PressedInv'
    BY <1>g, <1>t, <2>1, <2>2 DEF PressedInv
  <2>4. TokenOfFlow'
    <3>1. CASE Decide(m)
      <4>1. /\ holder = NoFlow /\ handle' = handle /\ Goto(m, "decided")
            /\ \A n \in Messages \ {m} : stage[n] \in Quiet
        BY <3>1 DEF Decide
      <4>2. stage'[m] = "decided"
        BY <1>s, <4>1, GotoFacts DEF Stages
      <4> QED BY <1>g, <1>h, <2>1, <4>1, <4>2 DEF TokenOfFlow, Quiet
    <3>2. CASE TakeHandles(m)
      <4>1. handle' = [handle EXCEPT ![m] = current] /\ current' = current
        BY <3>2 DEF TakeHandles
      <4>2. \A n \in Messages : handle'[n] = (IF n = m THEN current ELSE handle[n])
        BY <1>s, <4>1 DEF Shapes
      <4> QED BY <1>g, <1>t, <2>1, <4>1, <4>2 DEF TokenOfFlow
    <3>3. CASE Deliver(m)
      <4>1. handle' = [handle EXCEPT ![m] = 0] /\ current' = current /\ Goto(m, "done")
        BY <3>3 DEF Deliver
      <4>2. stage'[m] = "done" /\ \A n \in Messages : n # m => handle'[n] = handle[n]
        BY <1>s, <4>1, GotoFacts DEF Shapes, Stages
      <4> QED BY <1>g, <1>t, <2>1, <4>1, <4>2 DEF TokenOfFlow
    <3>4. CASE ~Decide(m) /\ ~TakeHandles(m) /\ ~Deliver(m)
      <4>1. UNCHANGED <<handle, current>>
        BY <1>4, <3>4 DEF FlowStep, Arrive, Push, QueueFollowup, MarkStarted,
           BeginFinalization, PrepareDelivery
      <4>2. PICK s \in Stages \ {"waiting"} : Goto(m, s)
        BY <1>4, <3>4 DEF FlowStep, Arrive, Push, QueueFollowup, MarkStarted,
           BeginFinalization, PrepareDelivery, Stages
      <4>3. stage'[m] # "waiting"
        BY <1>s, <4>2, GotoFacts
      <4> QED BY <1>g, <1>t, <2>1, <4>1, <4>3 DEF TokenOfFlow
    <3> QED BY <3>1, <3>2, <3>3, <3>4
  <2> QED BY <2>3, <2>4 DEF PressInv
<1> QED BY <1>1, <1>2, <1>3, <1>4

LEMMA NextPressed ==
  ASSUME ~Overlap, ChatInv, PressInv, [Next]_vars
  PROVE  PressInv'
<1>1. CASE Cancel \/ PressReset
  BY <1>1, CancelPressed DEF Cancel, PressReset
<1>2. CASE UNCHANGED vars \/ Clock \/ ResetNow
  <2>1. UNCHANGED <<stage, handle, reply, current, pressed, pc, result, token, cancelled>>
    BY <1>2 DEF vars, agentVars, chatVars, Clock, TimePasses, ResetNow, ResetSession, session
  <2> QED BY <2>1 DEF PressInv, TokenOfFlow, PressedInv
<1>3. CASE \E m \in Messages : Arrive(m) \/ FlowStep(m)
  BY <1>3, FlowPressed
<1> QED BY <1>1, <1>2, <1>3, RunPressed DEF Next

\* When no flow starts under another, a run that was under way, its answer not
\* yet fixed, when the user pressed cancel never comes back with an answer, a
\* report or a question (SESSION_REGISTRY.cancel).
THEOREM CancelReaches ==
  ASSUME ~Overlap
  PROVE  Spec => []CancelReachesRun
<1>1. Init => ChatInv /\ PressInv
  BY InitChat, InitPressed
<1>2. ChatInv /\ PressInv /\ [Next]_vars => ChatInv' /\ PressInv'
  BY NextChat, NextPressed
<1>3. PressInv => CancelReachesRun
  BY DEF PressInv, PressedInv, CancelReachesRun, Unanswered
<1> QED BY <1>1, <1>2, <1>3, PTL DEF Spec

-----------------------------------------------------------------------------
(* Types and limits.                                                         *)

\* An iteration that has begun is below the limit, and a run that has not ended
\* may still take a malformed reply.
Limits ==
    /\ iteration \in 0..MaxIterations
    /\ pc \in {"drained", "sample", "tools"} => iteration < MaxIterations
    /\ malformed \in 0..MaxMalformed
    /\ pc \in {"loop", "drained", "sample", "tools"} => malformed < MaxMalformed
    /\ rePrompts \in 0..MaxRePrompts
    /\ continuations \in Nat

SessionTypes ==
    /\ status \in {"idle", "processing", "completed", "timed_out", "error"}
    /\ awaiting \in BOOLEAN /\ saved \in BOOLEAN /\ late \in BOOLEAN
    /\ todos \in TodoState /\ arc \in TodoState
    /\ token \in Nat /\ cancelled \in SUBSET Nat
    /\ batch \in Batches

ChatTypes ==
    /\ phase \in {"none", "executing", "finalizing", "sending"}
    /\ button \in {"none", "shown", "pressed"}
    /\ pressed \in SUBSET Messages /\ erased \in SUBSET Messages

TypeInv == Limits /\ SessionTypes /\ ChatTypes

LEMMA InitTypes == Init => TypeInv
<1> SUFFICES ASSUME Init PROVE TypeInv
  OBVIOUS
<1>1. Limits
  BY LimitsAssumption DEF Init, AgentInit, Limits
<1>2. SessionTypes
  BY DEF Init, AgentInit, SessionTypes, TodoState, Batches
<1>3. ChatTypes
  BY DEF Init, ChatTypes
<1> QED BY <1>1, <1>2, <1>3 DEF TypeInv

LEMMA RunLimits ==
  ASSUME ChatInv, Limits, RunStep
  PROVE  Limits'
<1> USE LimitsAssumption DEF Finish, NextIteration, session, counters, Limits
<1>1. CASE LoopEnds \/ LoopDrains \/ ApplyContext
  BY <1>1 DEF LoopEnds, LoopDrains, ApplyContext
<1>2. CASE SampleCancelled \/ SampleFails \/ AskUser \/ CallTools
  BY <1>2 DEF SampleCancelled, SampleFails, AskUser, CallTools
<1>3. CASE LoopDetected
  BY <1>3 DEF LoopDetected
<1>4. CASE MalformedReply
  BY <1>4 DEF MalformedReply, GivesUp
<1>5. CASE ToolsReturn \/ ToolsFail \/ FinalSent \/ HardTimeout
  BY <1>5 DEF ToolsReturn, ToolsFail, FinalSent, HardTimeout
<1>6. CASE FinalReply
  BY <1>6 DEF FinalReply
<1> QED BY <1>1, <1>2, <1>3, <1>4, <1>5, <1>6 DEF RunStep

LEMMA RunTypes ==
  ASSUME SessionTypes, RunStep
  PROVE  SessionTypes'
<1> USE DEF Finish, NextIteration, session, counters, SessionTypes, TodoState, Batches
<1>1. CASE LoopEnds \/ LoopDrains \/ ApplyContext
  BY <1>1 DEF LoopEnds, LoopDrains, ApplyContext
<1>2. CASE SampleCancelled \/ SampleFails
  BY <1>2 DEF SampleCancelled, SampleFails
<1>7. CASE AskUser
  <2>1. todos' \in {todos, arc} /\ batch' = "none"
        /\ UNCHANGED <<status, awaiting, saved, token, cancelled, arc, late>>
    BY <1>7 DEF AskUser
  <2> QED BY <2>1
<1>8. CASE CallTools
  <2>1. batch' \in Batches
        /\ UNCHANGED <<status, awaiting, saved, todos, token, cancelled, arc, late>>
    BY <1>8 DEF CallTools
  <2> QED BY <2>1
<1>3. CASE LoopDetected \/ MalformedReply
  BY <1>3 DEF LoopDetected, MalformedReply
<1>4. CASE ToolsReturn
  BY <1>4 DEF ToolsReturn
<1>5. CASE ToolsFail \/ FinalSent \/ HardTimeout
  BY <1>5 DEF ToolsFail, FinalSent, HardTimeout
<1>6. CASE FinalReply
  BY <1>6 DEF FinalReply, SyncedTodos
<1> QED BY <1>1, <1>2, <1>3, <1>4, <1>5, <1>6, <1>7, <1>8 DEF RunStep

LEMMA NextTypes ==
  ASSUME ChatInv, TypeInv, [Next]_vars
  PROVE  TypeInv'
<1>s. Shapes /\ Limits /\ SessionTypes /\ ChatTypes
  BY DEF ChatInv, TypeInv
<1>1. CASE Run
  <2>1. Limits' /\ SessionTypes'
    BY <1>1, <1>s, RunLimits, RunTypes DEF Run
  <2>2. ChatTypes'
    BY <1>1, <1>s DEF Run, ChatTypes
  <2> QED BY <2>1, <2>2 DEF TypeInv
<1>2. ASSUME NEW m \in Messages, Acquire(m) PROVE TypeInv'
  <2>1. /\ StartTask(handle[m]) /\ saved' \in {saved, TRUE} /\ todos' \in {todos, "none"}
        /\ pressed' = pressed \ {m} /\ UNCHANGED <<phase, button, erased>>
    BY <1>2 DEF Acquire, NewTask, Continue, resetVars
  <2>2. handle[m] \in Nat
    BY <1>s DEF Shapes
  <2>3. Limits'
    BY <2>1, LimitsAssumption DEF StartTask, Limits
  <2>4. SessionTypes'
    BY <1>s, <2>1, <2>2 DEF StartTask, SessionTypes, TodoState, Batches
  <2>5. ChatTypes'
    BY <1>s, <2>1 DEF ChatTypes
  <2> QED BY <2>3, <2>4, <2>5 DEF TypeInv
<1>3. ASSUME NEW m \in Messages, Release(m) PROVE TypeInv'
  <2>1. ApplyTransition /\ UNCHANGED <<phase, button, erased, pressed>>
    BY <1>3 DEF Release, resetVars
  <2>2. Limits'
    BY <1>s, <2>1, LimitsAssumption DEF ApplyTransition, Limits
  <2>3. SessionTypes'
    BY <1>s, <2>1 DEF ApplyTransition, SessionTypes, StatusAfter, TodoState
  <2>4. ChatTypes'
    BY <1>s, <2>1 DEF ChatTypes
  <2> QED BY <2>2, <2>3, <2>4 DEF TypeInv
<1>4. ASSUME NEW m \in Messages, Refused(m) PROVE TypeInv'
  <2>1. /\ UNCHANGED <<status, awaiting, saved, todos, late, arc, cancelled, batch>>
        /\ UNCHANGED <<pc, iteration, counters>> /\ token' = handle[m]
        /\ UNCHANGED <<phase, button, erased, pressed>>
    BY <1>4 DEF Refused, resetVars
  <2>2. handle[m] \in Nat
    BY <1>s DEF Shapes
  <2> QED BY <1>s, <2>1, <2>2 DEF TypeInv, Limits, SessionTypes, ChatTypes, counters
<1>5. CASE Cancel \/ PressReset
  <2>1. /\ cancelled' = cancelled \cup {current} /\ UNCHANGED <<session, pc, iteration, counters>>
        /\ UNCHANGED <<arc, batch, late, phase, erased>> /\ button' \in {button, "pressed"}
        /\ pressed' \in {pressed, pressed \cup {holder}}
        /\ (pressed' # pressed => pc # "idle")
    BY <1>5 DEF Cancel, PressReset, CancelCurrent
  <2>2. pc # "idle" => holder \in Messages
    BY DEF ChatInv, Shapes, OneRun
  <2>3. current \in Nat
    BY <1>s DEF Shapes
  <2>4. ChatTypes'
    BY <1>s, <2>1, <2>2 DEF ChatTypes
  <2>5. Limits' /\ SessionTypes'
    BY <1>s, <2>1, <2>3 DEF Limits, SessionTypes, session, counters
  <2> QED BY <2>4, <2>5 DEF TypeInv
<1>6. CASE ResetNow
  <2>1. /\ UNCHANGED <<cancelled, phase, pressed>> /\ button' = "shown"
        /\ UNCHANGED <<pc, iteration, counters, arc, batch, late, token>>
        /\ \/ UNCHANGED <<session, erased>>
           \/ /\ status' = "idle" /\ awaiting' = FALSE /\ saved' = FALSE /\ todos' = "none"
              /\ erased' = erased \cup Elements(known \o inbox)
    BY <1>6 DEF ResetNow, ResetSession, session
  <2>2. Elements(known \o inbox) \in SUBSET Messages
    <3>1. known \o inbox \in Seq(Messages)
      BY <1>s, ElementsConcat DEF Shapes
    <3> QED BY <3>1, ElementsOfSeq
  <2>3. ChatTypes'
    BY <1>s, <2>1, <2>2 DEF ChatTypes
  <2>4. Limits'
    BY <1>s, <2>1 DEF Limits, counters
  <2>5. SessionTypes'
    BY <1>s, <2>1 DEF SessionTypes, session, TodoState
  <2> QED BY <2>3, <2>4, <2>5 DEF TypeInv
<1>7. CASE Clock
  BY <1>7, <1>s DEF Clock, TimePasses, chatVars, resetVars, session, counters, TypeInv, Limits,
     SessionTypes, ChatTypes
<1>8. ASSUME NEW m \in Messages,
             Arrive(m) \/ Push(m) \/ QueueFollowup(m) \/ Decide(m) \/ MarkStarted(m)
             \/ TakeHandles(m) \/ BeginFinalization(m) \/ PrepareDelivery(m) \/ Deliver(m)
      PROVE  TypeInv'
  <2>1. /\ UNCHANGED <<session, pc, iteration, counters, arc, batch, late, cancelled>>
        /\ UNCHANGED <<button, erased, pressed>>
        /\ phase' \in {phase, "executing", "finalizing", "sending", "none"}
    BY <1>8 DEF Arrive, Push, QueueFollowup, Decide, MarkStarted, TakeHandles, BeginFinalization,
       PrepareDelivery, Deliver, agentVars, resetVars, session, counters
  <2> QED BY <1>s, <2>1 DEF TypeInv, Limits, SessionTypes, ChatTypes, session, counters
<1>9. CASE UNCHANGED vars
  BY <1>9, <1>s DEF vars, agentVars, chatVars, resetVars, TypeInv, Limits, SessionTypes, ChatTypes
<1> QED BY <1>1, <1>2, <1>3, <1>4, <1>5, <1>6, <1>7, <1>8, <1>9 DEF Next, FlowStep

\* Every state of a chat is well typed when the next token is always there, and
\* no run goes past its limits: iterations, malformed replies and loop prompts
\* (AgentRunnerConfig, run_loop).
THEOREM TypeCorrect ==
  ASSUME Tokens = Nat
  PROVE  Spec => []TypeOK
<1>1. Init => ChatInv /\ TypeInv
  BY InitChat, InitTypes
<1>2. ChatInv /\ TypeInv /\ [Next]_vars => ChatInv' /\ TypeInv'
  BY NextChat, NextTypes
<1>3. ChatInv /\ TypeInv => TypeOK
  <2> SUFFICES ASSUME ChatInv, TypeInv PROVE TypeOK
    OBVIOUS
  <2>1. AgentTypeOK
    BY DEF ChatInv, TypeInv, Shapes, Limits, SessionTypes, AgentTypeOK, Points, Results
  <2>2. \A m \in Messages : reply[m].covers \cup reply[m].owes \subseteq Messages
    <3> SUFFICES ASSUME NEW m \in Messages
                 PROVE  reply[m].covers \cup reply[m].owes \subseteq Messages
      OBVIOUS
    <3>1. reply[m] \in Replies
      BY DEF ChatInv, Shapes
    <3> QED BY <3>1 DEF Replies
  <2>3. accepted \cup owed \cup pressed \cup erased \subseteq Messages
    BY DEF ChatInv, TypeInv, Shapes, ChatTypes
  <2> QED BY <2>1, <2>2, <2>3 DEF ChatInv, TypeInv, Shapes, ChatTypes, TypeOK
<1> QED BY <1>1, <1>2, <1>3, PTL DEF Spec
=============================================================================
