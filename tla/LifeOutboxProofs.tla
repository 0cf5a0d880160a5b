-------------------------- MODULE LifeOutboxProofs --------------------------
(* Theorems about LifeOutbox, for any rows, workers, chunk counts, limits    *)
(* and delays, with sends as slow as they like.                              *)
EXTENDS LifeOutbox, TLAPS

LEMMA ConstantsOK ==
    /\ Rows \subseteq Int /\ NoRow \notin Rows
    /\ Chunks \in Nat /\ Chunks > 0 /\ MaxAttempts \in Nat /\ MaxLosses \in Nat
    /\ Claim \in Nat /\ Retry \in Nat /\ Claim > 0
  BY RowsAssumption, CountsAssumption, TimesAssumption

LEMMA MostSpan == Most \in Nat /\ Span \in Nat
  BY ConstantsOK DEF Most, Span

LEMMA InitTypeOK == Init => TypeOK
  BY ConstantsOK, MostSpan DEF Init, TypeOK

LEMMA IdleType ==
  ASSUME TypeOK, NEW w \in Workers, Idle(w)
  PROVE  /\ job' \in [Workers -> Rows \cup {NoRow}]
         /\ attempt' \in [Workers -> 0..Most]
         /\ sent' \in [Workers -> 0..Chunks]
         /\ outcome' \in [Workers -> {"idle", "sending", "ok", "retryable", "permanent"}]
         /\ elapsed' \in [Workers -> 0..Span]
  BY ConstantsOK, MostSpan DEF Idle, TypeOK

LEMMA MarkType ==
  ASSUME TypeOK, NEW d \in Rows, NEW s \in {"delivered", "failed", "dead"},
         NEW wait \in 0..Retry, Mark(d, s, wait)
  PROVE  /\ status' \in [Rows -> {"none", "queued", "claimed", "delivered", "failed", "dead"}]
         /\ claim' \in [Rows -> 0..Claim]
         /\ due' \in [Rows -> 0..Retry]
  BY ConstantsOK DEF Mark, TypeOK

-----------------------------------------------------------------------------
(* What a carried row has in the chat: at least what its worker has had      *)
(* confirmed.  With it, a row marked delivered is complete in the chat.      *)

CarriedOK ==
    \A w \in Workers : outcome[w] # "idle" =>
        /\ job[w] \in Rows /\ status[job[w]] # "none"
        /\ 1..sent[w] \subseteq chat[job[w]]
        /\ outcome[w] = "sending" => sent[w] < Chunks
        /\ outcome[w] = "ok" => sent[w] = Chunks

IdleOK == \A w \in Workers : outcome[w] = "idle" => sent[w] = 0

IInv == TypeOK /\ CarriedOK /\ IdleOK /\ DeliveredWasSent /\ ChunksInOrder

LEMMA InitIInv == Init => IInv
  BY InitTypeOK DEF Init, IInv, CarriedOK, IdleOK, DeliveredWasSent, ChunksInOrder

\* A worker step that leaves the chat alone and at most marks its row.
LEMMA MarkKeepsIInv ==
  ASSUME IInv, NEW w \in Workers, outcome[w] # "idle",
         NEW s \in {"delivered", "failed", "dead"}, NEW wait \in 0..Retry,
         Mark(job[w], s, wait), s = "delivered" => outcome[w] = "ok",
         Idle(w), UNCHANGED <<attempts, chat, losses>>
  PROVE  IInv'
  <1> USE DEF IInv
  <1>1. job[w] \in Rows
    BY DEF CarriedOK
  <1>2. TypeOK'
    BY <1>1, IdleType, MarkType DEF TypeOK
  <1>3. \A d \in Rows : status'[d] = status[d] \/ (d = job[w] /\ status'[d] = s)
    BY <1>1 DEF Mark, TypeOK
  <1>4. \A v \in Workers : outcome'[v] # "idle" =>
          v # w /\ outcome'[v] = outcome[v] /\ job'[v] = job[v] /\ sent'[v] = sent[v]
    BY DEF Idle, TypeOK
  <1>5. CarriedOK'
    <2> SUFFICES ASSUME NEW v \in Workers, outcome'[v] # "idle"
                 PROVE  /\ job'[v] \in Rows /\ status'[job'[v]] # "none"
                        /\ 1..sent'[v] \subseteq chat'[job'[v]]
                        /\ outcome'[v] = "sending" => sent'[v] < Chunks
                        /\ outcome'[v] = "ok" => sent'[v] = Chunks
      BY DEF CarriedOK
    <2>1. /\ outcome'[v] = outcome[v] /\ job'[v] = job[v] /\ sent'[v] = sent[v]
          /\ chat' = chat
      BY <1>4
    <2> QED BY <2>1, <1>3 DEF CarriedOK
  <1>8. IdleOK'
    BY DEF IdleOK, Idle, TypeOK
  <1>6. s = "delivered" => chat[job[w]] = 1..Chunks
    BY <1>1 DEF CarriedOK, TypeOK
  <1>7. DeliveredWasSent' /\ ChunksInOrder'
    BY <1>3, <1>6 DEF DeliveredWasSent, ChunksInOrder
  <1> QED BY <1>2, <1>5, <1>7, <1>8

LEMMA SendKeepsIInv ==
  ASSUME IInv, NEW w \in Workers, SendChunk(w)
  PROVE  IInv'
  <1> USE DEF IInv
  <1>1. /\ job[w] \in Rows /\ sent[w] \in Nat /\ sent[w] < Chunks
        /\ 1..sent[w] \subseteq chat[job[w]] /\ outcome[w] = "sending"
    BY DEF SendChunk, CarriedOK, TypeOK
  <1>2. PICK got \in {{}, {sent[w] + 1}} :
          /\ chat' = [chat EXCEPT ![job[w]] = @ \cup got]
          /\ \/ /\ got = {sent[w] + 1}
                /\ sent' = [sent EXCEPT ![w] = @ + 1]
                /\ outcome' = [outcome EXCEPT ![w] =
                      IF sent[w] + 1 = Chunks THEN "ok" ELSE "sending"]
             \/ /\ sent' = sent
                /\ \E o \in {"retryable", "permanent"} : outcome' = [outcome EXCEPT ![w] = o]
    <2>1. CASE chat' = chat
      BY <2>1, <1>1 DEF SendChunk, TypeOK
    <2>2. CASE chat' # chat
      BY <2>2, <1>1 DEF SendChunk, TypeOK
    <2> QED BY <2>1, <2>2
  <1>3. UNCHANGED <<job, attempt, elapsed, losses, status, attempts, due, claim>>
    BY DEF SendChunk, rowVars
  <1>4. TypeOK'
    <2>1. chat' \in [Rows -> SUBSET (1..Chunks)]
      <3>1. got \subseteq 1..Chunks
        BY <1>1, ConstantsOK
      <3>2. chat[job[w]] \cup got \in SUBSET (1..Chunks)
        BY <3>1, <1>1 DEF TypeOK
      <3> QED BY <3>2, <1>1, <1>2 DEF TypeOK
    <2>2. sent' \in [Workers -> 0..Chunks]
      BY <1>1, <1>2, ConstantsOK DEF TypeOK
    <2>3. outcome' \in [Workers -> {"idle", "sending", "ok", "retryable", "permanent"}]
      BY <1>2 DEF TypeOK
    <2> QED BY <1>3, <2>1, <2>2, <2>3 DEF TypeOK
  <1>5. \A d \in Rows : chat[d] \subseteq chat'[d]
    BY <1>2 DEF TypeOK
  <1>6. CarriedOK'
    <2> SUFFICES ASSUME NEW v \in Workers, outcome'[v] # "idle"
                 PROVE  /\ job[v] \in Rows /\ status[job[v]] # "none"
                        /\ 1..sent'[v] \subseteq chat'[job[v]]
                        /\ outcome'[v] = "sending" => sent'[v] < Chunks
                        /\ outcome'[v] = "ok" => sent'[v] = Chunks
      BY <1>3 DEF CarriedOK
    <2>1. CASE v # w
      BY <2>1, <1>2, <1>5 DEF CarriedOK, TypeOK
    <2>2. CASE v = w
      <3>1. job[w] \in Rows /\ status[job[w]] # "none"
        BY <1>1 DEF CarriedOK
      <3>2. 1..sent'[w] \subseteq chat'[job[w]]
        BY <1>1, <1>2 DEF TypeOK
      <3>3. /\ outcome'[w] = "sending" => sent'[w] < Chunks
            /\ outcome'[w] = "ok" => sent'[w] = Chunks
        BY <1>1, <1>2, ConstantsOK DEF TypeOK
      <3> QED BY <2>2, <3>1, <3>2, <3>3
    <2> QED BY <2>1, <2>2
  <1>9. IdleOK'
    BY <1>1, <1>2 DEF IdleOK, TypeOK
  <1>7. DeliveredWasSent'
    BY <1>3, <1>4, <1>5 DEF DeliveredWasSent, TypeOK
  <1>8. ChunksInOrder'
    <2> SUFFICES ASSUME NEW d \in Rows, NEW k \in chat'[d] PROVE 1..k \subseteq chat'[d]
      BY DEF ChunksInOrder
    <2>1. CASE k \in chat[d]
      BY <2>1, <1>5 DEF ChunksInOrder
    <2>2. CASE k \notin chat[d]
      <3>1. d = job[w] /\ k = sent[w] + 1
        BY <2>2, <1>1, <1>2 DEF TypeOK
      <3> QED BY <3>1, <1>1, <1>5
    <2> QED BY <2>1, <2>2
  <1> QED BY <1>4, <1>6, <1>7, <1>8, <1>9

LEMMA ClaimKeepsIInv ==
  ASSUME IInv, NEW w \in Workers, NEW d \in Rows, ClaimRow(w, d)
  PROVE  IInv'
  <1> USE DEF IInv
  <1>1. /\ outcome[w] = "idle" /\ status[d] \notin {"none", "delivered"}
        /\ status' = [status EXCEPT ![d] = "claimed"]
        /\ job' = [job EXCEPT ![w] = d] /\ outcome' = [outcome EXCEPT ![w] = "sending"]
        /\ UNCHANGED <<chat, sent, due, elapsed, losses>>
    BY DEF ClaimRow, Due
  <1>2. attempts'[d] \in 0..Most /\ attempts' \in [Rows -> 0..Most]
    BY ConstantsOK, MostSpan DEF ClaimRow, TypeOK
  <1>3. TypeOK'
    BY <1>1, <1>2, ConstantsOK DEF ClaimRow, TypeOK
  <1>4. CarriedOK'
    <2> SUFFICES ASSUME NEW v \in Workers, outcome'[v] # "idle"
                 PROVE  /\ job'[v] \in Rows /\ status'[job'[v]] # "none"
                        /\ 1..sent[v] \subseteq chat[job'[v]]
                        /\ outcome'[v] = "sending" => sent[v] < Chunks
                        /\ outcome'[v] = "ok" => sent[v] = Chunks
      BY <1>1 DEF CarriedOK
    <2>1. CASE v = w
      BY <2>1, <1>1, ConstantsOK DEF IdleOK, TypeOK
    <2>2. CASE v # w
      BY <2>2, <1>1 DEF CarriedOK, TypeOK
    <2> QED BY <2>1, <2>2
  <1>5. IdleOK'
    BY <1>1 DEF IdleOK, TypeOK
  <1>6. DeliveredWasSent' /\ ChunksInOrder'
    BY <1>1 DEF DeliveredWasSent, ChunksInOrder, TypeOK
  <1> QED BY <1>3, <1>4, <1>5, <1>6

LEMMA LostKeepsIInv ==
  ASSUME IInv, NEW w \in Workers, AttemptLost(w)
  PROVE  IInv'
  <1> USE DEF IInv
  <1>1. Idle(w) /\ UNCHANGED <<chat, status, attempts, due, claim>> /\ losses' \in 0..MaxLosses
    BY ConstantsOK DEF AttemptLost, rowVars, TypeOK
  <1>2. TypeOK'
    BY <1>1, IdleType DEF TypeOK
  <1>3. \A v \in Workers : outcome'[v] # "idle" =>
          outcome'[v] = outcome[v] /\ job'[v] = job[v] /\ sent'[v] = sent[v]
    BY <1>1 DEF Idle, TypeOK
  <1>4. CarriedOK'
    BY <1>1, <1>3 DEF CarriedOK
  <1>5. IdleOK' /\ DeliveredWasSent' /\ ChunksInOrder'
    BY <1>1 DEF IdleOK, Idle, DeliveredWasSent, ChunksInOrder, TypeOK
  <1> QED BY <1>2, <1>4, <1>5

LEMMA TickKeepsIInv == IInv /\ Tick => IInv'
  <1> SUFFICES ASSUME IInv, Tick PROVE IInv'
    OBVIOUS
  <1> USE DEF IInv
  <1>1. due' \in [Rows -> 0..Retry] /\ claim' \in [Rows -> 0..Claim]
    BY ConstantsOK DEF Tick, Down, TypeOK
  <1>2. elapsed' \in [Workers -> 0..Span]
    BY MostSpan DEF Tick, TypeOK
  <1>3. TypeOK'
    BY <1>1, <1>2 DEF Tick, TypeOK
  <1>4. CarriedOK' /\ IdleOK' /\ DeliveredWasSent' /\ ChunksInOrder'
    BY DEF Tick, CarriedOK, IdleOK, DeliveredWasSent, ChunksInOrder
  <1> QED BY <1>3, <1>4

\* A mark, seen as the change it makes.
LEMMA MarkSteps ==
  ASSUME IInv, NEW w \in Workers, MarkDelivered(w) \/ MarkDead(w) \/ MarkFailed(w)
  PROVE  /\ outcome[w] # "idle" /\ Idle(w) /\ UNCHANGED <<attempts, chat, losses>>
         /\ \E s \in {"delivered", "failed", "dead"}, wait \in 0..Retry :
              Mark(job[w], s, wait) /\ (s = "delivered" => outcome[w] = "ok")
  <1>1. outcome[w] # "idle" /\ Idle(w) /\ UNCHANGED <<attempts, chat, losses>>
    BY DEF MarkDelivered, MarkDead, MarkFailed
  <1>2. job[w] \in Rows /\ due[job[w]] \in 0..Retry /\ elapsed[w] \in Nat
    BY <1>1 DEF IInv, CarriedOK, TypeOK
  <1>3. (IF elapsed[w] < Retry THEN Retry - elapsed[w] ELSE 0) \in 0..Retry
    BY <1>2, ConstantsOK
  <1>4. \E s \in {"delivered", "failed", "dead"}, wait \in 0..Retry :
              Mark(job[w], s, wait) /\ (s = "delivered" => outcome[w] = "ok")
    BY <1>2, <1>3 DEF MarkDelivered, MarkDead, MarkFailed
  <1> QED BY <1>1, <1>4

LEMMA NextIInv == IInv /\ [Next]_vars => IInv'
  <1> SUFFICES ASSUME IInv, [Next]_vars PROVE IInv'
    OBVIOUS
  <1>1. ASSUME NEW d \in Rows, Enqueue(d) PROVE IInv'
    BY <1>1 DEF Enqueue, workerVars, IInv, TypeOK, CarriedOK, IdleOK,
                DeliveredWasSent, ChunksInOrder
  <1>2. ASSUME NEW w \in Workers, WorkerStep(w) PROVE IInv'
    <2>1. ASSUME NEW d \in Rows, ClaimRow(w, d) PROVE IInv'
      BY <2>1, ClaimKeepsIInv
    <2>2. CASE SendChunk(w)
      BY <2>2, SendKeepsIInv
    <2>3. CASE MarkDelivered(w) \/ MarkDead(w) \/ MarkFailed(w)
      BY <2>3, MarkSteps, MarkKeepsIInv
    <2> QED BY <1>2, <2>1, <2>2, <2>3 DEF WorkerStep
  <1>3. ASSUME NEW w \in Workers, AttemptLost(w) PROVE IInv'
    BY <1>3, LostKeepsIInv
  <1>4. CASE Tick
    BY <1>4, TickKeepsIInv
  <1>5. CASE UNCHANGED vars
    BY <1>5 DEF vars, IInv, TypeOK, CarriedOK, IdleOK, DeliveredWasSent, ChunksInOrder
  <1> QED BY <1>1, <1>2, <1>3, <1>4, <1>5 DEF Next

LEMMA SpecIInv == Spec => []IInv
  BY InitIInv, NextIInv, PTL DEF Spec

\* Every reachable state of the rows and the workers is well typed.
THEOREM TypeCorrect == Spec => []TypeOK
  <1>1. IInv => TypeOK
    BY DEF IInv
  <1> QED BY SpecIInv, <1>1, PTL

\* A row is marked delivered only with its whole message in the chat, although
\* any number of workers may carry it and mark it for one another.
THEOREM DeliveredRowsWereSent == Spec => []DeliveredWasSent
  <1>1. IInv => DeliveredWasSent
    BY DEF IInv
  <1> QED BY SpecIInv, <1>1, PTL

\* No chunk overtakes an earlier chunk of its message.
THEOREM ChunksArriveInOrder == Spec => []ChunksInOrder
  <1>1. IInv => ChunksInOrder
    BY DEF IInv
  <1> QED BY SpecIInv, <1>1, PTL

\* A settled row keeps its status, whoever still carries it.
THEOREM SettledRowsStay == Spec => SettledIsFinal
  <1>1. ASSUME IInv, [Next]_vars
        PROVE  [\A d \in Rows : status[d] \in Settled => status'[d] = status[d]]_vars
    <2> SUFFICES ASSUME NEW d \in Rows, status[d] \in Settled PROVE status'[d] = status[d]
      OBVIOUS
    <2> USE <1>1 DEF IInv, Settled
    <2>1. ASSUME NEW e \in Rows, Enqueue(e) PROVE status'[d] = status[d]
      BY <2>1 DEF Enqueue, TypeOK
    <2>2. ASSUME NEW w \in Workers, NEW e \in Rows, ClaimRow(w, e)
          PROVE  status'[d] = status[d]
      BY <2>2 DEF ClaimRow, Due, TypeOK
    <2>3. ASSUME NEW w \in Workers, MarkDelivered(w) \/ MarkDead(w) \/ MarkFailed(w)
          PROVE  status'[d] = status[d]
      BY <2>3, MarkSteps DEF Mark, TypeOK
    <2>4. ASSUME \/ \E w \in Workers : SendChunk(w) \/ AttemptLost(w)
                 \/ Tick \/ UNCHANGED vars
          PROVE  status'[d] = status[d]
      BY <2>4 DEF SendChunk, AttemptLost, Tick, rowVars, vars
    <2> QED BY <2>1, <2>2, <2>3, <2>4 DEF Next, WorkerStep
  <1> QED BY SpecIInv, <1>1, PTL DEF Spec, SettledIsFinal

-----------------------------------------------------------------------------
(* The outbox implements the at-least-once queue.                            *)

LEMMA InitRefines == Init => Outbox!Init
  BY ConstantsOK DEF Init, Outbox!Init, Settled

LEMMA StepRefines == IInv /\ [Next]_vars => [Outbox!Next]_(Outbox!vars)
  <1> SUFFICES ASSUME IInv, [Next]_vars PROVE Outbox!Next \/ UNCHANGED Outbox!vars
    OBVIOUS
  <1> USE DEF IInv, Settled
  <1>1. ASSUME NEW d \in Rows, Enqueue(d) PROVE Outbox!Accept(d)
    BY <1>1 DEF Enqueue, Outbox!Accept, TypeOK
  <1>2. ASSUME NEW w \in Workers, NEW d \in Rows, ClaimRow(w, d)
        PROVE  UNCHANGED Outbox!vars
    BY <1>2 DEF ClaimRow, Due, Outbox!vars, TypeOK
  <1>3. ASSUME NEW w \in Workers, SendChunk(w)
        PROVE  Outbox!Next \/ UNCHANGED Outbox!vars
    <2>1. /\ job[w] \in Rows /\ status[job[w]] # "none" /\ status' = status
          /\ \A d \in Rows \ {job[w]} : chat'[d] = chat[d]
          /\ chat[job[w]] \subseteq chat'[job[w]]
      BY <1>3 DEF SendChunk, CarriedOK, TypeOK, rowVars
    <2>2. chat'[job[w]] \subseteq 1..Chunks
      BY <1>3, <2>1, SendKeepsIInv DEF TypeOK
    <2>3. CASE chat'[job[w]] = 1..Chunks
      <3>1. Outbox!Receive(job[w])
        BY <2>1, <2>3 DEF Outbox!Receive
      <3> QED BY <2>1, <3>1 DEF Outbox!Next, Outbox!Receive
    <2>4. CASE chat'[job[w]] # 1..Chunks
      BY <2>1, <2>2, <2>4 DEF Outbox!vars, TypeOK
    <2> QED BY <2>3, <2>4
  <1>4. ASSUME NEW w \in Workers, MarkDelivered(w) \/ MarkDead(w) \/ MarkFailed(w)
        PROVE  Outbox!Next \/ UNCHANGED Outbox!vars
    <2>1. job[w] \in Rows /\ chat' = chat
      BY <1>4, MarkSteps DEF CarriedOK
    <2>2. PICK s \in {"delivered", "failed", "dead"}, wait \in 0..Retry :
            Mark(job[w], s, wait) /\ (s = "delivered" => outcome[w] = "ok")
      BY <1>4, MarkSteps
    <2>3. CASE status[job[w]] # "claimed" \/ s = "failed"
      BY <2>1, <2>2, <2>3 DEF Mark, Outbox!vars, TypeOK
    <2>4. CASE status[job[w]] = "claimed" /\ s = "delivered"
      <3>1. chat[job[w]] = 1..Chunks
        BY <2>1, <2>2, <2>4 DEF CarriedOK, TypeOK
      <3>2. Outbox!Confirm(job[w])
        BY <2>1, <2>2, <2>4, <3>1 DEF Mark, Outbox!Confirm, TypeOK
      <3> QED BY <2>1, <3>2 DEF Outbox!Next, Outbox!Confirm
    <2>5. CASE status[job[w]] = "claimed" /\ s = "dead"
      <3>1. Outbox!GiveUp(job[w])
        BY <2>1, <2>2, <2>5 DEF Mark, Outbox!GiveUp, TypeOK
      <3> QED BY <2>1, <3>1 DEF Outbox!Next, Outbox!GiveUp
    <2> QED BY <2>3, <2>4, <2>5
  <1>5. ASSUME \/ \E w \in Workers : AttemptLost(w)
               \/ Tick \/ UNCHANGED vars
        PROVE  UNCHANGED Outbox!vars
    BY <1>5 DEF AttemptLost, Tick, vars, rowVars, Outbox!vars
  <1> QED BY <1>1, <1>2, <1>3, <1>4, <1>5 DEF Next, WorkerStep, Outbox!Next

\* Every behaviour of the outbox, seen from the rows and the chat, is one of
\* the at-least-once queue: confirmed only when received, settled once.
THEOREM OutboxRefines == Spec => ImplementsOutbox
  <1>1. Init => Outbox!Init
    BY InitRefines
  <1>2. IInv /\ [Next]_vars => [Outbox!Next]_(Outbox!vars)
    BY StepRefines
  <1> QED BY SpecIInv, <1>1, <1>2, PTL DEF Spec, ImplementsOutbox, Outbox!Spec

-----------------------------------------------------------------------------
(* How long a first attempt has the row for itself.                          *)

\* A carried row was claimed before, as often as its worker counts or more.
AttemptsCounted ==
    \A w \in Workers : outcome[w] # "idle" => attempt[w] \in 1..attempts[job[w]]

\* A worker in its loop carries nothing, and its clock stands at the next claim.
IdleEmpty == \A w \in Workers : outcome[w] = "idle" => job[w] = NoRow /\ elapsed[w] = 0

\* Until the claim of a row's first attempt expires, the row stays claimed, the
\* claim lasts as long as the worker's own count says, and no other worker
\* carries the row.
FirstIsAlone ==
    \A w \in Workers :
        outcome[w] # "idle" /\ attempt[w] = 1 /\ elapsed[w] < Claim =>
            /\ status[job[w]] = "claimed"
            /\ claim[job[w]] + elapsed[w] >= Claim
            /\ \A v \in Workers : job[v] = job[w] => v = w

ClaimInv == AttemptsCounted /\ IdleEmpty /\ FirstIsAlone


\* A worker that settles or loses its attempt leaves the others their claims.
LEMMA ReleaseKeepsClaims ==
  ASSUME IInv, ClaimInv, NEW w \in Workers, outcome[w] # "idle", Idle(w), UNCHANGED attempts,
         \A d \in Rows \ {job[w]} : status'[d] = status[d] /\ claim'[d] = claim[d],
         UNCHANGED <<status, claim>> \/ status[job[w]] # "none"
  PROVE  ClaimInv'
  <1> USE DEF IInv, TypeOK, ClaimInv
  <1>1. /\ \A v \in Workers \ {w} : /\ job'[v] = job[v] /\ attempt'[v] = attempt[v]
                                    /\ outcome'[v] = outcome[v] /\ elapsed'[v] = elapsed[v]
        /\ outcome'[w] = "idle" /\ job'[w] = NoRow /\ elapsed'[w] = 0 /\ job[w] \in Rows
    BY DEF Idle, CarriedOK
  <1>2. AttemptsCounted' /\ IdleEmpty'
    BY <1>1 DEF AttemptsCounted, IdleEmpty
  <1>3. FirstIsAlone'
    <2> SUFFICES ASSUME NEW v \in Workers, outcome'[v] # "idle", attempt'[v] = 1,
                        elapsed'[v] < Claim
                 PROVE  /\ status'[job'[v]] = "claimed"
                        /\ claim'[job'[v]] + elapsed'[v] >= Claim
                        /\ \A u \in Workers : job'[u] = job'[v] => u = v
      BY DEF FirstIsAlone
    <2>1. v # w /\ job[v] \in Rows /\ job[v] # job[w]
      BY <1>1, ConstantsOK DEF CarriedOK, FirstIsAlone
    <2>2. \A u \in Workers : job'[u] = job'[v] => u = v
      BY <1>1, <2>1, ConstantsOK DEF FirstIsAlone
    <2> QED BY <1>1, <2>1, <2>2 DEF FirstIsAlone
  <1> QED BY <1>2, <1>3

\* A claim passes over every row whose first attempt still holds it, and is a
\* first attempt itself only on a row nobody carries.
LEMMA ClaimKeepsClaims ==
  ASSUME IInv, ClaimInv, NEW w \in Workers, NEW d \in Rows, ClaimRow(w, d)
  PROVE  ClaimInv'
  <1> USE DEF IInv, TypeOK, ClaimInv
  <1>1. /\ outcome[w] = "idle" /\ Due(d) /\ job[w] = NoRow /\ elapsed[w] = 0
        /\ \A e \in Rows : status'[e] = IF e = d THEN "claimed" ELSE status[e]
        /\ \A e \in Rows : claim'[e] = IF e = d THEN Claim ELSE claim[e]
        /\ \A v \in Workers : job'[v] = IF v = w THEN d ELSE job[v]
        /\ \A v \in Workers : outcome'[v] = IF v = w THEN "sending" ELSE outcome[v]
        /\ \A v \in Workers : attempt'[v] = IF v = w THEN attempts'[d] ELSE attempt[v]
        /\ UNCHANGED elapsed
    BY DEF ClaimRow, IdleEmpty
  <1>2. /\ attempts[d] \in Nat /\ Most \in Nat /\ Most > 1
        /\ \A e \in Rows : attempts'[e] = IF e # d THEN attempts[e]
                                          ELSE IF attempts[d] < Most THEN attempts[d] + 1 ELSE Most
    <2>1. Most \in Nat /\ Most > 1
      BY CountsAssumption DEF Most
    <2>2. attempts \in [Rows -> 0..Most] /\ attempts[d] \in Nat
      BY <2>1
    <2>3. attempts' = [attempts EXCEPT ![d] = IF attempts[d] < Most THEN attempts[d] + 1 ELSE Most]
      BY DEF ClaimRow
    <2> QED BY <2>1, <2>2, <2>3
  <1>3. attempts'[d] \in Nat /\ attempts'[d] >= 1 /\ (attempts[d] >= 1 => attempts'[d] > 1)
        /\ attempts'[d] >= attempts[d]
    BY <1>2, MostSpan
  <1>4. AttemptsCounted'
    <2> SUFFICES ASSUME NEW v \in Workers, outcome'[v] # "idle"
                 PROVE  attempt'[v] \in 1..attempts'[job'[v]]
      BY DEF AttemptsCounted
    <2>1. CASE v = w
      BY <1>1, <1>3, <2>1
    <2>2. CASE v # w
      <3>1. attempt[v] \in 1..attempts[job[v]] /\ job[v] \in Rows
        BY <1>1, <2>2 DEF AttemptsCounted, CarriedOK
      <3>2. CASE job[v] = d
        BY <1>1, <1>3, <2>2, <3>1, <3>2
      <3>3. CASE job[v] # d
        BY <1>1, <1>2, <2>2, <3>1, <3>3
      <3> QED BY <3>2, <3>3
    <2> QED BY <2>1, <2>2
  <1>5. IdleEmpty'
    BY <1>1 DEF IdleEmpty
  <1>6. FirstIsAlone'
    <2> SUFFICES ASSUME NEW v \in Workers, outcome'[v] # "idle", attempt'[v] = 1,
                        elapsed'[v] < Claim
                 PROVE  /\ status'[job'[v]] = "claimed"
                        /\ claim'[job'[v]] + elapsed'[v] >= Claim
                        /\ \A u \in Workers : job'[u] = job'[v] => u = v
      BY DEF FirstIsAlone
    <2>1. CASE v = w
      <3>1. attempts[d] = 0
        BY <1>1, <1>2, <1>3, <2>1
      <3>2. \A u \in Workers : job[u] # d
        BY <3>1, ConstantsOK DEF AttemptsCounted, IdleEmpty
      <3> QED BY <1>1, <2>1, <3>2, ConstantsOK
    <2>2. CASE v # w
      <3>1. /\ status[job[v]] = "claimed" /\ claim[job[v]] + elapsed[v] >= Claim
            /\ \A u \in Workers : job[u] = job[v] => u = v
            /\ job[v] \in Rows
        BY <1>1, <2>2 DEF FirstIsAlone, CarriedOK
      <3>2. claim[job[v]] # 0
        <4>1. claim \in [Rows -> 0..Claim] /\ elapsed \in [Workers -> 0..Span] /\ elapsed' = elapsed
          BY <1>1
        <4> HIDE DEF IInv, TypeOK, ClaimInv
        <4>2. claim[job[v]] \in 0..Claim /\ elapsed[v] \in 0..Span /\ elapsed[v] < Claim
          BY <3>1, <4>1
        <4> QED BY <3>1, <4>2, ConstantsOK, MostSpan
      <3>3. job[v] # d
        BY <1>1, <3>1, <3>2 DEF Due
      <3> QED BY <1>1, <2>2, <3>1, <3>3
    <2> QED BY <2>1, <2>2
  <1> QED BY <1>4, <1>5, <1>6

\* A tick shortens a claim by what it adds to the worker's own count.
LEMMA TickKeepsClaims ==
  ASSUME IInv, ClaimInv, Tick
  PROVE  ClaimInv'
  <1> USE DEF IInv, TypeOK, ClaimInv
  <1>1. /\ UNCHANGED <<status, attempts, job, attempt, outcome>>
        /\ \A d \in Rows : claim'[d] = IF claim[d] > 0 THEN claim[d] - 1 ELSE 0
        /\ \A w \in Workers : elapsed'[w] =
             IF outcome[w] # "idle" /\ elapsed[w] < Span THEN elapsed[w] + 1 ELSE elapsed[w]
    BY DEF Tick, Down
  <1>2. Claim <= Span
    BY ConstantsOK DEF Span
  <1>3. AttemptsCounted' /\ IdleEmpty'
    BY <1>1 DEF AttemptsCounted, IdleEmpty
  <1>4. FirstIsAlone'
    <2> SUFFICES ASSUME NEW v \in Workers, outcome[v] # "idle", attempt[v] = 1,
                        elapsed'[v] < Claim
                 PROVE  /\ status[job[v]] = "claimed"
                        /\ claim'[job[v]] + elapsed'[v] >= Claim
                        /\ \A u \in Workers : job[u] = job[v] => u = v
      BY <1>1 DEF FirstIsAlone
    <2>1. job[v] \in Rows /\ elapsed[v] \in Nat /\ claim[job[v]] \in Nat
      BY DEF CarriedOK
    <2>2. elapsed[v] < Claim /\ elapsed'[v] = elapsed[v] + 1
      BY <1>1, <1>2, <2>1, MostSpan, ConstantsOK
    <2>3. /\ status[job[v]] = "claimed" /\ claim[job[v]] + elapsed[v] >= Claim
          /\ \A u \in Workers : job[u] = job[v] => u = v
      BY <2>2 DEF FirstIsAlone
    <2>4. claim[job[v]] > 0
      BY <2>1, <2>2, <2>3, ConstantsOK
    <2>5. claim'[job[v]] = claim[job[v]] - 1
      BY <1>1, <2>1, <2>4
    <2> QED BY <1>1, <2>1, <2>2, <2>3, <2>5, ConstantsOK
  <1> QED BY <1>3, <1>4

LEMMA NextClaims == IInv /\ ClaimInv /\ [Next]_vars => ClaimInv'
  <1> SUFFICES ASSUME IInv, ClaimInv, [Next]_vars PROVE ClaimInv'
    OBVIOUS
  <1> USE DEF IInv, TypeOK
  <1>1. ASSUME NEW d \in Rows, Enqueue(d) PROVE ClaimInv'
    BY <1>1 DEF Enqueue, workerVars, ClaimInv, AttemptsCounted, IdleEmpty, FirstIsAlone
  <1>2. ASSUME NEW w \in Workers, WorkerStep(w) PROVE ClaimInv'
    <2>1. ASSUME NEW d \in Rows, ClaimRow(w, d) PROVE ClaimInv'
      BY <2>1, ClaimKeepsClaims
    <2>2. CASE SendChunk(w)
      <3>1. /\ UNCHANGED <<job, attempt, elapsed, status, attempts, claim>>
            /\ outcome[w] # "idle" /\ outcome'[w] # "idle"
            /\ \A v \in Workers \ {w} : outcome'[v] = outcome[v]
        BY <2>2 DEF SendChunk, rowVars
      <3> QED BY <3>1 DEF ClaimInv, AttemptsCounted, IdleEmpty, FirstIsAlone
    <2>3. CASE MarkDelivered(w) \/ MarkDead(w) \/ MarkFailed(w)
      <3>1. /\ outcome[w] # "idle" /\ Idle(w) /\ UNCHANGED attempts
            /\ \E s \in {"delivered", "failed", "dead"}, wait \in 0..Retry : Mark(job[w], s, wait)
        BY <2>3, MarkSteps
      <3>2. /\ \A d \in Rows \ {job[w]} : status'[d] = status[d] /\ claim'[d] = claim[d]
            /\ status[job[w]] # "none"
        BY <3>1 DEF Mark, CarriedOK
      <3> QED BY <3>1, <3>2, ReleaseKeepsClaims
    <2> QED BY <1>2, <2>1, <2>2, <2>3 DEF WorkerStep
  <1>3. ASSUME NEW w \in Workers, AttemptLost(w) PROVE ClaimInv'
    BY <1>3, ReleaseKeepsClaims DEF AttemptLost, rowVars
  <1>4. CASE Tick
    BY <1>4, TickKeepsClaims
  <1>5. CASE UNCHANGED vars
    BY <1>5 DEF vars, ClaimInv, AttemptsCounted, IdleEmpty, FirstIsAlone
  <1> QED BY <1>1, <1>2, <1>3, <1>4, <1>5 DEF Next

\* No second worker sends a row while its first attempt is within its claim, for
\* any number of workers and rows, any claim and retry times.
THEOREM FirstAttemptUndoubled == Spec => []LiveClaimIsExclusive
  <1>1. Init => ClaimInv
    BY DEF Init, ClaimInv, AttemptsCounted, IdleEmpty, FirstIsAlone
  <1>2. IInv /\ ClaimInv /\ [Next]_vars => ClaimInv'
    BY NextClaims
  <1>3. IInv /\ ClaimInv => LiveClaimIsExclusive
    <2> SUFFICES ASSUME IInv, ClaimInv, NEW v \in Workers, NEW w \in Workers, v # w,
                        job[v] = job[w], job[v] # NoRow, elapsed[v] < Claim, elapsed[w] < Claim
                 PROVE  attempt[v] > 1 /\ attempt[w] > 1
      BY DEF LiveClaimIsExclusive
    <2>1. outcome[v] # "idle" /\ outcome[w] # "idle"
      BY DEF ClaimInv, IdleEmpty
    <2>2. attempt[v] \in Nat /\ attempt[v] >= 1 /\ attempt[w] \in Nat /\ attempt[w] >= 1
      BY <2>1 DEF ClaimInv, AttemptsCounted, IInv, TypeOK
    <2>3. attempt[v] # 1 /\ attempt[w] # 1
      BY <2>1 DEF ClaimInv, FirstIsAlone
    <2> QED BY <2>2, <2>3
  <1> QED BY SpecIInv, <1>1, <1>2, <1>3, PTL DEF Spec
=============================================================================
