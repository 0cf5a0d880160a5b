----------------------------- MODULE LifeOutbox -----------------------------
(***************************************************************************)
(* The delivery outbox of life mode (oxide-agent-life/src/delivery.rs and   *)
(* storage/sqlx.rs, the Telegram sender of the web transport): assistant    *)
(* turns leave rows to send; the worker loop of each web process claims the *)
(* oldest due row, sends the message chunk by chunk and marks the row.      *)
(*                                                                          *)
(* Each statement on the table is one action.  The marks look at the row's  *)
(* status and not at its owner, as in the code, so claimed_by is left out.  *)
(***************************************************************************)
EXTENDS Integers

CONSTANTS
    Rows,         \* rows of one transport, numbered in (created_at, id) order
    NoRow,        \* a worker that carries no row
    Workers,      \* one delivery loop per web process
    Chunks,       \* messages of one row (sendMessage takes 4096 characters)
    MaxAttempts,  \* LifeDeliveryWorker::max_attempts
    Claim,        \* ticks until a claim expires (LIFE_DELIVERY_CLAIM_MILLIS)
    Retry,        \* ticks between a failed attempt and the next
    MaxLosses     \* bound: lost attempts (crashes, failed marks)

ASSUME RowsAssumption == Rows \subseteq Int /\ NoRow \notin Rows
ASSUME CountsAssumption ==
    /\ Chunks \in Nat /\ MaxAttempts \in Nat /\ MaxLosses \in Nat
    /\ Chunks > 0 /\ MaxAttempts > 0
ASSUME TimesAssumption == Claim \in Nat /\ Retry \in Nat /\ Claim > 0

VARIABLES
    status,    \* life_delivery_outbox.status ("none": no row yet)
    attempts,  \* attempt_count; only compared, so counted to one past the limit
    due,       \* ticks until next_attempt_at
    claim,     \* ticks until claim_expires_at
    chat,      \* chunks that reached the chat
    job,       \* row carried by a worker
    attempt,   \* the attempt_count its claim returned
    sent,      \* chunks its send has had confirmed
    outcome,   \* result of the send
    elapsed,   \* ticks since the `now` of its claim
    losses     \* lost attempts so far

vars == <<status, attempts, due, claim, chat, job, attempt, sent, outcome,
          elapsed, losses>>
rowVars == <<status, attempts, due, claim>>
workerVars == <<job, attempt, sent, outcome, elapsed>>

Span == IF Claim > Retry THEN Claim ELSE Retry
Most == MaxAttempts + 1

TypeOK ==
    /\ status \in [Rows -> {"none", "queued", "claimed", "delivered", "failed", "dead"}]
    /\ attempts \in [Rows -> 0..Most]
    /\ due \in [Rows -> 0..Retry]
    /\ claim \in [Rows -> 0..Claim]
    /\ chat \in [Rows -> SUBSET (1..Chunks)]
    /\ job \in [Workers -> Rows \cup {NoRow}]
    /\ attempt \in [Workers -> 0..Most]
    /\ sent \in [Workers -> 0..Chunks]
    /\ outcome \in [Workers -> {"idle", "sending", "ok", "retryable", "permanent"}]
    /\ elapsed \in [Workers -> 0..Span]
    /\ losses \in 0..MaxLosses

Init ==
    /\ status = [d \in Rows |-> "none"]
    /\ attempts = [d \in Rows |-> 0]
    /\ due = [d \in Rows |-> 0]
    /\ claim = [d \in Rows |-> 0]
    /\ chat = [d \in Rows |-> {}]
    /\ job = [w \in Workers |-> NoRow]
    /\ attempt = [w \in Workers |-> 0]
    /\ sent = [w \in Workers |-> 0]
    /\ outcome = [w \in Workers |-> "idle"]
    /\ elapsed = [w \in Workers |-> 0]
    /\ losses = 0

\* append_assistant_turn_and_enqueue_deliveries: row d is due at once.
Enqueue(d) ==
    /\ status[d] = "none"
    /\ status' = [status EXCEPT ![d] = "queued"]
    /\ UNCHANGED <<attempts, due, claim, chat, losses, workerVars>>

DueUnexpired(d) ==  \* mutant: claim_expires_at not looked at
    status[d] \in {"queued", "failed", "claimed"} /\ due[d] = 0
DueOnce(d) ==  \* mutant: expired claims are not taken over
    status[d] \in {"queued", "failed"} /\ due[d] = 0
Due(d) ==
    \/ status[d] \in {"queued", "failed"} /\ due[d] = 0
    \/ status[d] = "claimed" /\ claim[d] = 0

\* The worker goes back to its loop.
Idle(w) ==
    /\ job' = [job EXCEPT ![w] = NoRow]
    /\ attempt' = [attempt EXCEPT ![w] = 0]
    /\ sent' = [sent EXCEPT ![w] = 0]
    /\ outcome' = [outcome EXCEPT ![w] = "idle"]
    /\ elapsed' = [elapsed EXCEPT ![w] = 0]

\* process_one: claim_next_delivery takes the oldest due row.
ClaimRow(w, d) ==
    /\ outcome[w] = "idle"
    /\ Due(d) /\ \A e \in Rows : Due(e) => d <= e
    /\ status' = [status EXCEPT ![d] = "claimed"]
    /\ attempts' = [attempts EXCEPT ![d] = IF @ < Most THEN @ + 1 ELSE Most]
    /\ claim' = [claim EXCEPT ![d] = Claim]
    /\ job' = [job EXCEPT ![w] = d]
    /\ attempt' = [attempt EXCEPT ![w] = attempts'[d]]
    /\ outcome' = [outcome EXCEPT ![w] = "sending"]
    /\ UNCHANGED <<due, chat, sent, elapsed, losses>>

\* TelegramLifeDeliverySender::send, one send_chunk: confirmed; failed or its
\* answer unreadable, whether or not the chat got it; or refused for good
\* (before the first chunk also a bad address or an empty text).
SendChunkRegardless(w) ==  \* mutant: a failed chunk is skipped
    /\ outcome[w] = "sending"
    /\ \E got \in {{}, {sent[w] + 1}} :
         chat' = [chat EXCEPT ![job[w]] = @ \cup got]
    /\ sent' = [sent EXCEPT ![w] = @ + 1]
    /\ outcome' = [outcome EXCEPT ![w] = IF sent[w] + 1 = Chunks THEN "ok" ELSE "sending"]
    /\ UNCHANGED <<job, attempt, elapsed, losses, rowVars>>
SendChunk(w) ==
    /\ outcome[w] = "sending"
    /\ \/ /\ chat' = [chat EXCEPT ![job[w]] = @ \cup {sent[w] + 1}]
          /\ sent' = [sent EXCEPT ![w] = @ + 1]
          /\ outcome' = [outcome EXCEPT ![w] =
                IF sent[w] + 1 = Chunks THEN "ok" ELSE "sending"]
       \/ /\ \E got \in {{}, {sent[w] + 1}} :
               chat' = [chat EXCEPT ![job[w]] = @ \cup got]
          /\ outcome' = [outcome EXCEPT ![w] = "retryable"]
          /\ UNCHANGED sent
       \/ /\ outcome' = [outcome EXCEPT ![w] = "permanent"]
          /\ UNCHANGED <<chat, sent>>
    /\ UNCHANGED <<job, attempt, elapsed, losses, rowVars>>

\* The three marks touch a row that is still claimed, by whomever.
MarkAlways(d, s, wait) ==  \* mutant: WHERE status = 'claimed' dropped
    /\ status' = [status EXCEPT ![d] = s]
    /\ claim' = [claim EXCEPT ![d] = 0]
    /\ due' = [due EXCEPT ![d] = wait]
Mark(d, s, wait) ==
    IF status[d] = "claimed"
    THEN /\ status' = [status EXCEPT ![d] = s]
         /\ claim' = [claim EXCEPT ![d] = 0]
         /\ due' = [due EXCEPT ![d] = wait]
    ELSE UNCHANGED <<status, claim, due>>

Exhausted(w) == attempt[w] >= MaxAttempts

\* process_one after the send.  next_attempt_at counts from the `now` of the
\* claim, so a slow send uses up the retry delay.
MarkDelivered(w) ==
    /\ outcome[w] = "ok"
    /\ Mark(job[w], "delivered", due[job[w]])
    /\ Idle(w)
    /\ UNCHANGED <<attempts, chat, losses>>
MarkDead(w) ==
    /\ outcome[w] = "permanent" \/ (outcome[w] = "retryable" /\ Exhausted(w))
    /\ Mark(job[w], "dead", due[job[w]])
    /\ Idle(w)
    /\ UNCHANGED <<attempts, chat, losses>>
MarkFailed(w) ==
    /\ outcome[w] = "retryable" /\ ~Exhausted(w)
    /\ Mark(job[w], "failed", IF elapsed[w] < Retry THEN Retry - elapsed[w] ELSE 0)
    /\ Idle(w)
    /\ UNCHANGED <<attempts, chat, losses>>

\* The process crashed, or the mark failed and the loop went on.
AttemptLost(w) ==
    /\ outcome[w] # "idle"
    /\ losses < MaxLosses
    /\ losses' = losses + 1
    /\ Idle(w)
    /\ UNCHANGED <<chat, rowVars>>

Down(n) == IF n > 0 THEN n - 1 ELSE 0

Tick ==
    /\ \/ \E d \in Rows : due[d] > 0 \/ claim[d] > 0
       \/ \E w \in Workers : outcome[w] # "idle" /\ elapsed[w] < Span
    /\ due' = [d \in Rows |-> Down(due[d])]
    /\ claim' = [d \in Rows |-> Down(claim[d])]
    /\ elapsed' = [w \in Workers |->
         IF outcome[w] # "idle" /\ elapsed[w] < Span THEN elapsed[w] + 1 ELSE elapsed[w]]
    /\ UNCHANGED <<status, attempts, chat, job, attempt, sent, outcome, losses>>

\* One turn of run_telegram_delivery_loop.
WorkerStep(w) ==
    \/ \E d \in Rows : ClaimRow(w, d)
    \/ SendChunk(w) \/ MarkDelivered(w) \/ MarkDead(w) \/ MarkFailed(w)

Next ==
    \/ \E d \in Rows : Enqueue(d)
    \/ \E w \in Workers : WorkerStep(w) \/ AttemptLost(w)
    \/ Tick

Spec == Init /\ [][Next]_vars

\* The loops never stop, a send returns, and time passes; nothing is ever
\* required to be enqueued or lost, nor a send to succeed.
FairSpec == Spec /\ WF_vars(Tick) /\ \A w \in Workers : WF_vars(WorkerStep(w))

-----------------------------------------------------------------------------
Settled == {"delivered", "dead"}

\* A delivered row's whole message is in the chat, whichever worker marked it
\* and however many carried the row ("Successfully sent").
DeliveredWasSent ==
    \A d \in Rows : status[d] = "delivered" => chat[d] = 1..Chunks

\* A chunk reaches the chat only after all chunks before it, whatever attempts
\* overlap (chunk_plain_text, "deterministic ordering").
ChunksInOrder ==
    \A d \in Rows : \A k \in chat[d] : 1..k \subseteq chat[d]

\* A settled row is never claimed, failed or settled otherwise by a worker
\* that still carries it.
SettledIsFinal ==
    [][\A d \in Rows : status[d] \in Settled => status'[d] = status[d]]_vars

\* The outbox is an at-least-once queue: what it confirms the chat has, and
\* what it accepted it settles once.
Outbox == INSTANCE AtLeastOnce WITH
    Messages <- Rows,
    state <- [d \in Rows |-> IF status[d] \in Settled \cup {"none"}
                             THEN status[d] ELSE "accepted"],
    received <- {d \in Rows : chat[d] = 1..Chunks}
ImplementsOutbox == Outbox!Spec

\* Two workers within their claims carry one row only after an earlier attempt
\* outlived its own claim and freed the row with its late mark_delivery_failed:
\* the first attempt is never doubled while its claim_expires_at holds.
LiveClaimIsExclusive ==
    \A v, w \in Workers :
        /\ v # w /\ job[v] = job[w] /\ job[v] # NoRow
        /\ elapsed[v] < Claim /\ elapsed[w] < Claim
        => attempt[v] > 1 /\ attempt[w] > 1

\* Every accepted row is settled, although attempts are lost on the way: "a
\* delivery worker crash cannot permanently strand assistant responses".
RowsSettle ==
    \A d \in Rows : status[d] = "queued" ~> status[d] \in Settled
=============================================================================
