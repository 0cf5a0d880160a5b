------------------------- MODULE EventStreamProofs -------------------------
(***************************************************************************)
(* Proofs about EventStream for any number of events, runs, faults and       *)
(* connections: a running task's log is found, a browser that has finished   *)
(* has caught up, and the stream misses events in the named ways only.       *)
(***************************************************************************)
EXTENDS EventStream, FiniteSetTheorems, WellFoundedInduction, TLAPS

Items == [kind : {"event", "status", "closed"}, status : Statuses, seq : Seqs]
Logs == [rows : SUBSET (1..MaxSeq), messages : Seq(Items), done : BOOLEAN]
WriterStates == [pc : {"none", "collect", "push", "save", "notify", "gone"},
                 seq : 1..MaxSeq + 1, status : Statuses]
RouteStates == [resume : {"idle", "save", "spawn"}, cancel : BOOLEAN, seq : Seqs,
                cancelSeq : Seqs, overwrote : BOOLEAN]
StreamStates == [pc : {"none", "reload", "attach", "live", "ended"}, log : 0..MaxRuns,
                 after : Seqs, last : Seqs, status : Statuses, seen : Seqs, pos : Nat,
                 sent : SUBSET (1..MaxSeq), missed : SUBSET (1..MaxSeq)]
ClientStates == [pc : {"backfill", "connect", "stream", "closing", "done", "gaveUp"},
                 last : Seqs, attempts : 0..MaxAttempts - 1, told : BOOLEAN,
                 error : BOOLEAN]

Shapes ==
    /\ stored \in SUBSET (1..MaxSeq)
    /\ task \in [status : Statuses, last : Seqs]
    /\ run \in Runs
    /\ writer \in [Runs -> WriterStates]
    /\ \A r \in Runs : writer[r].pc \in {"push", "save"} => writer[r].seq <= MaxSeq
    /\ log \in [Runs -> Logs]
    /\ registry \in 0..MaxRuns
    /\ route \in RouteStates
    /\ stream \in StreamStates
    /\ client \in ClientStates
    /\ faults \in 0..MaxFaults

-----------------------------------------------------------------------------
(* The task and its runs.                                                   *)

\* Only the latest registered run can be at work.
RunsInTurn ==
    \A r \in Runs :
        /\ r > run => writer[r].pc = "none"
        /\ r < run => writer[r].pc \in {"notify", "gone"}

\* What the phase of the latest run says of the record ...
StatusOfRun ==
    /\ task.status = "interrupted" => writer[run].pc = "gone"
    /\ task.status \in {"waiting", "ended"} /\ route.resume = "idle"
         => writer[run].pc \in {"notify", "gone"}
    /\ writer[run].pc = "notify" => task.status \in Closing

\* ... and what the handlers say of both and of the browser.
Resuming ==
    /\ route.resume # "idle" =>
         /\ run > 1 /\ writer[run].pc = "none" /\ client.pc \in {"done", "gaveUp"}
         /\ route.seq \in stored
    /\ route.resume = "save" =>
         task.status \in {"waiting", "cancelled"} /\ route.seq = task.last + 1
    /\ route.resume = "spawn" =>
         task.status \in {"running", "cancelled"} /\ route.seq = task.last
    /\ route.cancel => task.status = "cancelled" \/ route.overwrote

\* The number of the last answer.
AnswerNumber ==
    /\ route.seq <= task.last + 1
    /\ task.status = "running" => route.seq <= task.last
    /\ run = 1 => route.seq = 0
    /\ run = 1 /\ writer[1].pc = "none" => stored = {}

\* EVENT_LOGS holds the log of the latest run or none, and no log is written to
\* before its run is spawned.
LogOfRun ==
    /\ registry \in {0, run} \/ route.resume # "idle"
    /\ \A r \in Runs : writer[r].pc = "none" => log[r] = EmptyLog /\ registry # r

\* What is stored above the record's last event is on its way into the record.
StoredIsRecorded ==
    \/ task.status \in {"cancelled", "interrupted"} /\ route.resume = "idle"
    \/ \A n \in stored :
         \/ n <= task.last
         \/ n = route.seq
         \/ writer[run].pc \in {"push", "save"} /\ n = writer[run].seq

\* The writer's next event is newer than all that is stored.
NewestStored ==
    /\ writer[run].pc = "collect" => \A n \in stored : n < writer[run].seq
    /\ writer[run].pc \in {"push", "save"} =>
         writer[run].seq \in stored /\ \A n \in stored : n <= writer[run].seq

\* The events among the messages of a log are its rows, in rising order.
InOrder(l) ==
    \A i \in 1..Len(l.messages) :
        l.messages[i].kind = "event" =>
            /\ l.messages[i].seq \in l.rows
            /\ \A j \in 1..i - 1 :
                   l.messages[j].kind = "event" => l.messages[j].seq < l.messages[i].seq

\* The log of the latest run holds what its writer pushed, in order.
RowsInOrder ==
    /\ log[run].rows \subseteq stored
    /\ writer[run].pc = "push" => \A n \in log[run].rows : n < writer[run].seq
    /\ writer[run].pc = "save" => writer[run].seq \in log[run].rows
    /\ InOrder(log[run])

TaskInv ==
    /\ RunsInTurn /\ StatusOfRun /\ Resuming /\ AnswerNumber
    /\ LogOfRun /\ StoredIsRecorded /\ NewestStored /\ RowsInOrder

-----------------------------------------------------------------------------
(* The browser and its stream.                                              *)

\* The stream is the one the browser watches, and it watches the latest run.
StreamOfClient ==
    /\ stream.pc # "none" => client.pc = "stream"
    /\ stream.pc = "none" => stream.log = 0
    /\ stream.log \in {0, run}
    /\ client.told => client.pc = "stream"
    /\ stream.pc \in {"reload", "attach"} => stream.last = stream.after
    /\ stream.pc \in {"none", "ended"} => stream.last = 0
    /\ stream.pc = "live" => stream.log = run /\ stream.pos <= Len(log[run].messages)

\* A cursor is the number of a stored event.
CursorsAreStored ==
    /\ client.last \in stored \cup {0}
    /\ stream.last \in stored \cup {0} /\ stream.after \in stored \cup {0}

\* What the log of the latest run and the browser say of the end of the task.
EndIsTrue ==
    route.overwrote \/
        /\ \A i \in 1..Len(log[run].messages) :
             log[run].messages[i].kind = "status" /\ log[run].messages[i].status \in Closing
                 => task.status \in Closing
        /\ client.told \/ client.pc \in {"closing", "done"}
             => task.status \in Closing \/ route.resume = "spawn"

\* DoneIsCaughtUp, with an answer excepted only while it is not in the record.
CaughtUp ==
    client.pc = "done" /\ ~client.error /\ task.status \in {"ended", "waiting"}
        => route.overwrote \/ \A n \in stored : n <= client.last \/ (n = route.seq /\ n > task.last)

WatchInv == StreamOfClient /\ CursorsAreStored /\ EndIsTrue /\ CaughtUp

-----------------------------------------------------------------------------
(* What is ahead of the stream.                                             *)

Unpushed(n) == writer[run].pc = "push" /\ n = writer[run].seq

\* Between the reload and the subscription: what the reload did not count is in
\* the log, or will be.
ReloadCounts ==
    stream.pc = "attach" /\ stream.status \notin Closing /\ stream.log # 0 =>
        \A n \in stored : n <= stream.seen \/ n \in log[run].rows \/ Unpushed(n)

\* A subscribed stream will still be told of what is above its cursor, or has
\* counted it as missed.
Ahead(n) ==
    \E i \in stream.pos + 1..Len(log[run].messages) :
        log[run].messages[i].kind = "event" /\ log[run].messages[i].seq = n
LiveIsTold ==
    stream.pc = "live" =>
        \A n \in stored : n <= stream.last \/ n \in stream.missed \/ Unpushed(n) \/ Ahead(n)

StreamInv == ReloadCounts /\ LiveIsTold /\ MissesOnlyTheWindow

-----------------------------------------------------------------------------
(* Maxima of bounded sets of numbers, and sequences that grow.              *)

LEMMA MaxOfBounded ==
  ASSUME NEW S \in SUBSET Nat, S # {}, NEW n \in Nat, \A x \in S : x <= n
  PROVE  Max(S) \in S /\ \A y \in S : y <= Max(S)
<1> DEFINE R == OpToRel(<, Nat)
           U == {m \in Nat : \A x \in S : x <= m}
<1>1. \A x, y \in Nat : x < y => <<x, y>> \in R
  BY DEF OpToRel
<1>2. IsWellFoundedOn(R, Nat)
  BY NatLessThanWellFounded
<1> HIDE DEF R
<1>3. n \in U /\ U \subseteq Nat
  OBVIOUS
<1>4. PICK m \in U : \A y \in U : ~(<<y, m>> \in R)
  <2> HIDE DEF U
  <2> QED BY <1>2, <1>3, WFMin
<1>5. m \in S
  <2> SUFFICES ASSUME m \notin S PROVE FALSE
    OBVIOUS
  <2>1. \A x \in S : x <= m - 1
    BY <1>4
  <2>2. m \in Nat /\ m - 1 \in Nat
    <3>1. PICK x \in S : x \in Nat
      OBVIOUS
    <3> QED BY <2>1, <3>1
  <2>3. m - 1 \in U
    BY <2>1, <2>2
  <2>4. <<m - 1, m>> \in R
    BY <1>1, <2>2
  <2> QED BY <1>4, <2>3, <2>4
<1>6. \A y \in S : m >= y
  BY <1>4
<1> QED BY <1>5, <1>6 DEF Max

LEMMA MaxOfSeqs ==
  ASSUME NEW S \in SUBSET Seqs, S # {}
  PROVE  Max(S) \in S /\ Max(S) \in Seqs /\ \A y \in S : y <= Max(S)
<1>1. S \in SUBSET Nat /\ MaxSeq \in Nat /\ \A x \in S : x <= MaxSeq
  BY StreamAssumption DEF Seqs
<1>2. Max(S) \in S /\ \A y \in S : y <= Max(S)
  BY <1>1, MaxOfBounded
<1> QED BY <1>2

LEMMA MaxOfTwo ==
  ASSUME NEW a \in Seqs, NEW b \in Seqs
  PROVE  Max({a, b}) \in {a, b} /\ Max({a, b}) \in Seqs /\ a <= Max({a, b}) /\ b <= Max({a, b})
BY MaxOfSeqs

LEMMA AppendFacts ==
  ASSUME NEW S, NEW m \in Seq(S), NEW x \in S
  PROVE  /\ Append(m, x) \in Seq(S) /\ Len(m) \in Nat /\ Len(Append(m, x)) = Len(m) + 1
         /\ \A i \in 1..Len(m) : Append(m, x)[i] = m[i]
         /\ Append(m, x)[Len(m) + 1] = x
OBVIOUS

\* Every item of a log's messages is one.
LEMMA ItemTypes ==
  ASSUME Shapes, NEW r \in Runs
  PROVE  /\ log[r] \in Logs /\ log[r].messages \in Seq(Items) /\ Len(log[r].messages) \in Nat
         /\ \A i \in 1..Len(log[r].messages) :
              /\ log[r].messages[i] \in Items
              /\ log[r].messages[i].seq \in Seqs /\ log[r].messages[i].status \in Statuses
<1>1. log[r] \in Logs
  BY DEF Shapes
<1>2. log[r].messages \in Seq(Items)
  BY <1>1 DEF Logs
<1>3. \A i \in 1..Len(log[r].messages) : log[r].messages[i] \in Items
  BY <1>2
<1> QED BY <1>1, <1>2, <1>3 DEF Items

-----------------------------------------------------------------------------
(* The operations of a log.                                                 *)

LEMMA ItemsTyped ==
  /\ \A n \in Seqs : Event(n) \in Items
  /\ \A n \in Seqs, s \in Statuses : Status(s, n) \in Items
  /\ Closed \in Items
BY StreamAssumption DEF Items, Event, Status, Closed, Statuses, Seqs

LEMMA PushFacts ==
  ASSUME NEW l \in Logs, NEW n \in 1..MaxSeq
  PROVE  /\ PushPersisted(l, n) \in Logs
         /\ PushPersisted(l, n).rows = l.rows \cup {n}
         /\ PushPersisted(l, n).messages = Append(l.messages, Event(n))
         /\ PushPersisted(l, n).done = l.done
<1>1. l.messages \in Seq(Items) /\ l.rows \in SUBSET (1..MaxSeq)
  BY DEF Logs
<1>2. n \in Seqs
  BY DEF Seqs
<1>3. Append(l.messages, Event(n)) \in Seq(Items)
  BY <1>1, <1>2, ItemsTyped, AppendFacts
<1>4. l.rows \cup {n} \in SUBSET (1..MaxSeq)
  BY <1>1
<1> QED BY <1>3, <1>4 DEF PushPersisted, Logs

LEMMA NotifyFacts ==
  ASSUME NEW l \in Logs, NEW s \in Statuses, NEW n \in Seqs
  PROVE  /\ NotifyStatus(l, s, n) \in Logs
         /\ NotifyStatus(l, s, n).rows = l.rows
         /\ NotifyStatus(l, s, n).messages = Append(l.messages, Status(s, n))
         /\ NotifyStatus(l, s, n).done = l.done
<1>1. l.messages \in Seq(Items)
  BY DEF Logs
<1>2. Append(l.messages, Status(s, n)) \in Seq(Items)
  BY <1>1, ItemsTyped, AppendFacts
<1> QED BY <1>2 DEF NotifyStatus, Logs

LEMMA CloseFacts ==
  ASSUME NEW l \in Logs
  PROVE  /\ Close(l) \in Logs /\ Close(l).done
         /\ Close(l).rows = l.rows
         /\ Close(l).messages \in {l.messages, Append(l.messages, Closed)}
<1>1. l.messages \in Seq(Items)
  BY DEF Logs
<1>2. Append(l.messages, Closed) \in Seq(Items)
  BY <1>1, ItemsTyped, AppendFacts
<1>3. CASE l.done
  BY <1>3 DEF Close
<1>4. CASE ~l.done
  <2>1. Close(l) = [l EXCEPT !.done = TRUE, !.messages = Append(l.messages, Closed)]
    BY <1>4 DEF Close
  <2> QED BY <1>2, <2>1 DEF Logs
<1> QED BY <1>3, <1>4

\* A status and, at most, the sentinel after it.
LEMMA EndFacts ==
  ASSUME NEW l \in Logs, NEW s \in Statuses, NEW n \in Seqs
  PROVE  LET e == Close(NotifyStatus(l, s, n))
         IN  /\ e \in Logs /\ e.done /\ e.rows = l.rows
             /\ Len(e.messages) \in Nat /\ Len(e.messages) > Len(l.messages)
             /\ \A i \in 1..Len(l.messages) : e.messages[i] = l.messages[i]
             /\ \A i \in Len(l.messages) + 1..Len(e.messages) :
                  e.messages[i] \in {Status(s, n), Closed}
<1> DEFINE o == NotifyStatus(l, s, n)
           e == Close(o)
<1>1. o \in Logs /\ o.rows = l.rows /\ o.messages = Append(l.messages, Status(s, n))
  BY NotifyFacts
<1> HIDE DEF o
<1>2. e \in Logs /\ e.done /\ e.rows = l.rows
      /\ e.messages \in {o.messages, Append(o.messages, Closed)}
  BY <1>1, CloseFacts
<1> HIDE DEF e
<1>3. l.messages \in Seq(Items) /\ o.messages \in Seq(Items)
  BY <1>1 DEF Logs
<1>4. /\ Len(l.messages) \in Nat /\ Len(o.messages) = Len(l.messages) + 1
      /\ \A i \in 1..Len(l.messages) : o.messages[i] = l.messages[i]
      /\ o.messages[Len(l.messages) + 1] = Status(s, n)
  BY <1>1, <1>3, ItemsTyped, AppendFacts
<1>5. CASE e.messages = o.messages
  <2>1. \A i \in Len(l.messages) + 1..Len(e.messages) : i = Len(l.messages) + 1
    BY <1>4, <1>5
  <2> QED BY <1>2, <1>4, <1>5, <2>1 DEF e, o
<1>6. CASE e.messages = Append(o.messages, Closed)
  <2>1. /\ Len(e.messages) = Len(o.messages) + 1
        /\ \A i \in 1..Len(o.messages) : e.messages[i] = o.messages[i]
        /\ e.messages[Len(o.messages) + 1] = Closed
    BY <1>3, <1>6, ItemsTyped, AppendFacts
  <2>2. \A i \in Len(l.messages) + 1..Len(e.messages) :
           i = Len(l.messages) + 1 \/ i = Len(o.messages) + 1
    BY <1>4, <2>1
  <2>3. \A i \in 1..Len(l.messages) : i \in 1..Len(o.messages)
    BY <1>4
  <2>4. Len(l.messages) + 1 \in 1..Len(o.messages)
    BY <1>4
  <2>5. \A i \in Len(l.messages) + 1..Len(e.messages) : e.messages[i] \in {Status(s, n), Closed}
    BY <1>4, <2>1, <2>2, <2>4
  <2>6. \A i \in 1..Len(l.messages) : e.messages[i] = l.messages[i]
    BY <1>4, <2>1, <2>3
  <2>7. Len(e.messages) \in Nat /\ Len(e.messages) > Len(l.messages)
    BY <1>4, <2>1
  <2> QED BY <1>2, <2>5, <2>6, <2>7 DEF e, o
<1> QED BY <1>2, <1>5, <1>6

-----------------------------------------------------------------------------
(* Every state is well shaped.                                              *)

LEMMA Consts ==
  /\ MaxSeq \in Nat \ {0} /\ MaxRuns \in Nat \ {0} /\ Capacity \in Nat \ {0}
  /\ 0 \in Seqs /\ 1..MaxSeq \subseteq Seqs /\ Seqs \subseteq Int /\ 1 \in Runs
  /\ Runs \subseteq 0..MaxRuns /\ 0 \in 0..MaxRuns /\ Closing \subseteq Statuses
  /\ "running" \in Statuses /\ "running" \notin Closing
BY StreamAssumption DEF Seqs, Runs, Closing, Statuses

LEMMA StreamShapes ==
  ASSUME Shapes
  PROVE  NoStream \in StreamStates /\ Ended \in StreamStates /\ NoWriter \in WriterStates
         /\ Gone \in WriterStates /\ Watching \in ClientStates /\ EmptyLog \in Logs
<1> USE Consts
<1>1. NoStream \in StreamStates
  BY DEF NoStream, StreamStates
<1>2. Ended \in StreamStates
  BY <1>1 DEF Ended, Shapes, StreamStates
<1>3. NoWriter \in WriterStates /\ Gone \in WriterStates
  BY DEF NoWriter, Gone, WriterStates
<1>4. Watching \in ClientStates
  BY StreamAssumption DEF Watching, ClientStates
<1>5. EmptyLog \in Logs
  BY DEF EmptyLog, Logs
<1> QED BY <1>1, <1>2, <1>3, <1>4, <1>5

LEMMA StreamFields ==
  ASSUME Shapes
  PROVE  /\ stream.log \in 0..MaxRuns /\ stream.last \in Seqs /\ stream.after \in Seqs
         /\ stream.seen \in Seqs /\ stream.status \in Statuses /\ stream.pos \in Nat
         /\ stream.sent \in SUBSET (1..MaxSeq) /\ stream.missed \in SUBSET (1..MaxSeq)
         /\ client.last \in Seqs /\ client.attempts \in 0..MaxAttempts - 1
         /\ task.status \in Statuses /\ task.last \in Seqs
         /\ route.seq \in Seqs /\ route.cancelSeq \in Seqs
         /\ stored \in SUBSET Seqs
BY Consts DEF Shapes, StreamStates, ClientStates, RouteStates

\* What a stream sends makes it move on.
LEMMA SentMax ==
  ASSUME Shapes, NEW D \in SUBSET (1..MaxSeq)
  PROVE  /\ Max(D \cup {stream.last}) \in D \cup {stream.last}
         /\ \A n \in D \cup {stream.last} : n <= Max(D \cup {stream.last})
         /\ Max(D \cup {stream.last}) \in Seqs
<1>1. D \cup {stream.last} \in SUBSET Seqs
  BY Consts, StreamFields
<1> QED BY <1>1, MaxOfSeqs

LEMMA SentFacts ==
  ASSUME Shapes, NEW D \in SUBSET (1..MaxSeq), NEW missing \in SUBSET (1..MaxSeq)
  PROVE  /\ Sent(D, missing) \in StreamStates
         /\ Sent(D, missing).log = stream.log /\ Sent(D, missing).after = stream.after
         /\ Sent(D, missing).seen = stream.seen /\ Sent(D, missing).pos = stream.pos
         /\ Sent(D, missing).pc = stream.pc /\ Sent(D, missing).status = stream.status
<1> DEFINE m == Max(D \cup {stream.last})
           gone == stream.missed \cup {n \in missing : n > stream.last /\ n \notin D}
<1>2. m \in Seqs
  BY SentMax
<1>3. gone \in SUBSET (1..MaxSeq)
  BY StreamFields
<1>4. Sent(D, missing) = [stream EXCEPT !.sent = stream.sent \cup D, !.last = m, !.missed = gone]
  BY DEF Sent
<1> HIDE DEF m, gone
<1>5. stream \in StreamStates /\ stream.sent \cup D \in SUBSET (1..MaxSeq)
  BY StreamFields DEF Shapes
<1> QED BY <1>2, <1>3, <1>4, <1>5 DEF StreamStates

LEMMA SentMoves ==
  ASSUME Shapes, NEW D \in SUBSET (1..MaxSeq), NEW missing \in SUBSET (1..MaxSeq)
  PROVE  /\ Sent(D, missing).sent = stream.sent \cup D
         /\ Sent(D, missing).last = Max(D \cup {stream.last})
         /\ Sent(D, missing).missed =
              stream.missed \cup {n \in missing : n > stream.last /\ n \notin D}
BY DEF Sent, Shapes, StreamStates

LEMMA ShownFacts ==
  ASSUME Shapes, NEW D \in SUBSET Seqs
  PROVE  /\ Shown(D) \in ClientStates
         /\ Shown(D).last \in D \cup {client.last}
         /\ \A n \in D \cup {client.last} : n <= Shown(D).last
         /\ Shown(D).pc = client.pc /\ Shown(D).told = client.told
         /\ Shown(D).error = client.error
<1> DEFINE m == Max(D \cup {client.last})
<1>1. D \cup {client.last} \in SUBSET Seqs
  BY Consts, StreamFields
<1>2. m \in D \cup {client.last} /\ (\A n \in D \cup {client.last} : n <= m) /\ m \in Seqs
  BY <1>1, MaxOfSeqs
<1>3. Shown(D) = [client EXCEPT !.last = m]
  BY DEF Shown
<1> HIDE DEF m
<1> QED BY <1>2, <1>3 DEF Shapes, ClientStates

LEMMA BackfillFacts ==
  ASSUME Shapes
  PROVE  /\ BackfillTo \in Seqs /\ BackfillTo \in stored \cup {client.last}
         /\ client.last >= task.last => BackfillTo = client.last
         /\ client.last < task.last => \A n \in stored : n <= BackfillTo
<1>1. stored \cup {client.last} \in SUBSET Seqs
  BY Consts, StreamFields
<1>2. /\ Max(stored \cup {client.last}) \in stored \cup {client.last}
      /\ Max(stored \cup {client.last}) \in Seqs
      /\ \A n \in stored \cup {client.last} : n <= Max(stored \cup {client.last})
  BY <1>1, MaxOfSeqs
<1>3. client.last \in Int /\ task.last \in Int /\ client.last \in Seqs
  BY Consts, StreamFields
<1> QED BY <1>2, <1>3 DEF BackfillTo

LEMMA ReplayFacts ==
  ASSUME Shapes, NEW rows \in SUBSET (1..MaxSeq)
  PROVE  /\ Replay(rows) \subseteq {n \in rows \cup stored : stream.last < n /\ n <= stream.seen}
         /\ Replay(rows) \in SUBSET (1..MaxSeq)
         /\ \A n \in stored : stream.last < n /\ n <= stream.seen =>
              n \in Replay(rows) \/ \E x \in Replay(rows) : n < x
<1> DEFINE memory == IF Max(rows \cup {0}) >= stream.last THEN Due(rows) ELSE {}
           top == Max(memory \cup {0})
<1>1. memory \subseteq {n \in rows : stream.last < n /\ n <= stream.seen}
  BY DEF Due
<1> HIDE DEF memory
<1>2. memory \cup {0} \in SUBSET Seqs
  BY <1>1, Consts
<1>3. top \in memory \cup {0} /\ top \in Seqs
  BY <1>2, MaxOfSeqs
<1>4. Replay(rows) = memory \cup {n \in Due(stored) : n > top}
  BY DEF Replay, memory
<1> HIDE DEF top
<1>5. Due(stored) = {n \in stored : stream.last < n /\ n <= stream.seen}
  BY DEF Due
<1>6. stored \in SUBSET (1..MaxSeq)
  BY DEF Shapes
<1>7. ASSUME NEW n \in stored, stream.last < n, n <= stream.seen
      PROVE n \in Replay(rows) \/ \E x \in Replay(rows) : n < x
  <2>1. n \in Int /\ n > 0 /\ top \in Int
    BY <1>3, <1>6, Consts
  <2>2. CASE n > top
    BY <1>4, <1>5, <1>7, <2>2
  <2>3. CASE n = top
    BY <1>3, <1>4, <2>1, <2>3
  <2>4. CASE n < top
    BY <1>3, <1>4, <2>1, <2>4
  <2> QED BY <2>1, <2>2, <2>3, <2>4
<1>8. Replay(rows) \subseteq {n \in rows \cup stored : stream.last < n /\ n <= stream.seen}
  BY <1>1, <1>4, <1>5
<1>9. Replay(rows) \in SUBSET (1..MaxSeq)
  BY <1>6, <1>8
<1> QED BY <1>7, <1>8, <1>9

LEMMA MessagesFacts ==
  ASSUME Shapes
  PROVE  /\ Len(Messages) \in Nat
         /\ \A i \in 1..Len(Messages) :
              Messages[i] \in Items /\ Messages[i].seq \in Seqs /\ Messages[i].status \in Statuses
<1>1. CASE stream.log = 0
  BY <1>1 DEF Messages
<1>2. CASE stream.log # 0
  <2>1. stream.log \in Runs
    BY <1>2, StreamFields, StreamAssumption DEF Runs
  <2> QED BY <1>2, <2>1, ItemTypes DEF Messages
<1> QED BY <1>1, <1>2

LEMMA ReceivedFacts ==
  ASSUME Shapes, stream.pos < Len(Messages)
  PROVE  /\ Received \in Items /\ Received.seq \in Seqs /\ Received.status \in Statuses
         /\ stream.pos + 1 \in 1..Len(Messages) /\ stream.pos + 1 \in Nat
BY MessagesFacts, StreamFields DEF Received

LEMMA InitShapes == Init => Shapes
<1> USE Consts
<1> SUFFICES ASSUME Init PROVE Shapes
  OBVIOUS
<1>1. NoStream \in StreamStates /\ NoWriter \in WriterStates /\ EmptyLog \in Logs
  BY DEF NoStream, StreamStates, NoWriter, WriterStates, EmptyLog, Logs
<1>2. Watching \in ClientStates
  BY StreamAssumption DEF Watching, ClientStates
<1>3. route \in RouteStates /\ task \in [status : Statuses, last : Seqs]
  BY DEF Init, RouteStates
<1>4. NoWriter.pc = "none"
  BY DEF NoWriter
<1>5. faults \in 0..MaxFaults
  BY StreamAssumption DEF Init
<1> QED BY <1>1, <1>2, <1>3, <1>4, <1>5 DEF Init, Shapes

\* The steps of the run's processes.
LEMMA WriterShapes ==
  ASSUME Shapes, NEW r \in Runs, WriterStep(r)
  PROVE  Shapes'
<1> USE Consts
<1>0. /\ writer[r] \in WriterStates /\ log[r] \in Logs /\ writer[r].seq \in 1..MaxSeq + 1
      /\ task \in [status : Statuses, last : Seqs] /\ task.last \in Seqs /\ task.status \in Statuses
  BY DEF Shapes, WriterStates
<1>k. ASSUME NEW w \in WriterStates, writer' = [writer EXCEPT ![r] = w],
             w.pc \in {"push", "save"} => w.seq <= MaxSeq,
             stored' \in SUBSET (1..MaxSeq), task' \in [status : Statuses, last : Seqs],
             log' \in [Runs -> Logs], faults' \in 0..MaxFaults,
             UNCHANGED <<run, registry, route, stream, client>>
      PROVE  Shapes'
  <2>1. writer' \in [Runs -> WriterStates]
    BY <1>k DEF Shapes
  <2>2. \A q \in Runs : writer'[q].pc \in {"push", "save"} => writer'[q].seq <= MaxSeq
    BY <1>k DEF Shapes
  <2> QED BY <1>k, <2>1, <2>2 DEF Shapes
<1>s. ASSUME writer[r].seq <= MaxSeq
      PROVE  Skip(writer[r]) \in WriterStates /\ Skip(writer[r]).pc = "collect"
  <2> DEFINE n == writer[r].seq + 1
  <2>1. n \in 1..MaxSeq + 1
    BY <1>0, <1>s
  <2> HIDE DEF n
  <2>2. Skip(writer[r]) = [writer[r] EXCEPT !.pc = "collect", !.seq = n]
    BY <1>0 DEF Skip, n, WriterStates
  <2> QED BY <1>0, <2>1, <2>2 DEF WriterStates
<1>1. CASE AppendEvent(r)
  <2>1. [writer[r] EXCEPT !.pc = "push"] \in WriterStates
        /\ [writer[r] EXCEPT !.pc = "push"].seq = writer[r].seq
    BY <1>0 DEF WriterStates
  <2>2. writer[r].seq \in 1..MaxSeq
    BY <1>0, <1>1 DEF AppendEvent
  <2>3. stored' \in SUBSET (1..MaxSeq)
    BY <1>1, <2>2 DEF AppendEvent, Shapes
  <2> QED BY <1>1, <1>k, <2>1, <2>2, <2>3 DEF AppendEvent, Shapes
<1>2. CASE AppendFails(r)
  <2>1. faults' \in 0..MaxFaults
    BY <1>2, StreamAssumption DEF AppendFails, Fault, Shapes
  <2> QED BY <1>2, <1>k, <1>s, <2>1 DEF AppendFails, Shapes
<1>3. CASE Drop(r)
  BY <1>3, <1>k, <1>s DEF Drop, Shapes
<1>4. CASE Push(r)
  <2>1. [writer[r] EXCEPT !.pc = "save"] \in WriterStates
        /\ [writer[r] EXCEPT !.pc = "save"].seq = writer[r].seq
    BY <1>0 DEF WriterStates
  <2>2. writer[r].seq \in 1..MaxSeq
    BY <1>0, <1>4 DEF Push, Shapes
  <2>3. log' \in [Runs -> Logs]
    BY <1>0, <1>4, <2>2, PushFacts DEF Push, Shapes
  <2> QED BY <1>4, <1>k, <2>1, <2>2, <2>3 DEF Push, Shapes
<1>5. CASE SaveLast(r)
  <2>1. writer[r].seq \in 1..MaxSeq /\ writer[r].seq \in Seqs /\ writer[r].seq <= MaxSeq
    BY <1>0, <1>5 DEF SaveLast, Shapes
  <2>2. Max({task.last, writer[r].seq}) \in Seqs
    BY <1>0, <2>1, MaxOfTwo
  <2>3. task' \in [status : Statuses, last : Seqs]
    BY <1>0, <1>5, <2>2 DEF SaveLast
  <2> QED BY <1>5, <1>k, <1>s, <2>1, <2>3 DEF SaveLast, Shapes
<1>6. CASE Outcome(r)
  <2>1. PICK s \in {"waiting", "ended"} : Settled(r, s)
    BY <1>6 DEF Outcome
  <2>2. s \in Statuses
    BY DEF Statuses, Closing
  <2>3. task' \in [status : Statuses, last : Seqs]
    BY <1>0, <2>1, <2>2 DEF Settled
  <2>4. [writer[r] EXCEPT !.pc = "notify", !.status = s] \in WriterStates
        /\ [writer[r] EXCEPT !.pc = "notify", !.status = s].pc = "notify"
    BY <1>0, <2>2 DEF WriterStates
  <2> QED BY <1>k, <2>1, <2>3, <2>4 DEF Settled, Shapes
<1>7. CASE CloseLog(r)
  <2>1. Gone \in WriterStates /\ Gone.pc = "gone"
    BY StreamShapes DEF Gone, NoWriter
  <2>2. writer[r].status \in Statuses
    BY <1>0 DEF WriterStates
  <2>3. Close(NotifyStatus(log[r], writer[r].status, task.last)) \in Logs
    BY <1>0, <2>2, EndFacts
  <2>4. log' \in [Runs -> Logs]
    BY <1>7, <2>3 DEF CloseLog, Shapes
  <2> QED BY <1>7, <1>k, <2>1, <2>4 DEF CloseLog, Shapes
<1> QED BY <1>1, <1>2, <1>3, <1>4, <1>5, <1>6, <1>7 DEF WriterStep

\* Spawning, the cleanup, the routes and a restart.
LEMMA RouteShapes ==
  ASSUME Shapes, AnswerNumber, Resuming,
         Spawn \/ Evict \/ ResumeAppend \/ ResumeSave \/ CancelSave \/ CancelNotify \/ Restart
  PROVE  Shapes'
<1> USE Consts
<1>0. /\ route \in RouteStates /\ route.seq \in Seqs /\ task.last \in Seqs /\ task.status \in Statuses
      /\ run \in Runs /\ writer[run] \in WriterStates /\ log[run] \in Logs
      /\ route.cancelSeq \in Seqs
  BY DEF Shapes, RouteStates
<1>1. CASE Spawn
  <2>1. CASE run = 1
    <3>1. route.seq = 0
      BY <2>1 DEF AnswerNumber
    <3>a. 1 \in 1..MaxSeq + 1
      OBVIOUS
    <3>2. [writer[run] EXCEPT !.pc = "collect", !.seq = 1] \in WriterStates
          /\ [writer[run] EXCEPT !.pc = "collect", !.seq = 1].pc = "collect"
      BY <1>0, <3>a DEF WriterStates
    <3>3. writer' = [writer EXCEPT ![run] = [writer[run] EXCEPT !.pc = "collect", !.seq = 1]]
      BY <1>1, <3>1 DEF Spawn
    <3>4. route' \in RouteStates
      BY <1>0, <1>1 DEF Spawn, RouteStates
    <3> QED BY <1>0, <1>1, <2>1, <3>2, <3>3, <3>4 DEF Spawn, Shapes
  <2>2. CASE run # 1
    <3>1. route.seq \in 1..MaxSeq /\ route.seq \in Seqs /\ run \in 0..MaxRuns
      BY <1>1, <2>2 DEF Spawn, Resuming, Shapes
    <3> DEFINE n == route.seq + 1
    <3>2. n \in 1..MaxSeq + 1
      BY <3>1
    <3> HIDE DEF n
    <3>3. [writer[run] EXCEPT !.pc = "collect", !.seq = n] \in WriterStates
          /\ [writer[run] EXCEPT !.pc = "collect", !.seq = n].pc = "collect"
      BY <1>0, <3>2 DEF WriterStates
    <3>4. writer' = [writer EXCEPT ![run] = [writer[run] EXCEPT !.pc = "collect", !.seq = n]]
      BY <1>1 DEF Spawn, n
    <3>5. NotifyStatus(PushPersisted(log[run], route.seq), "running", route.seq) \in Logs
      BY <1>0, <3>1, PushFacts, NotifyFacts
    <3>6. log' \in [Runs -> Logs]
      BY <1>1, <2>2, <3>5 DEF Spawn, Shapes
    <3>7. route' \in RouteStates /\ client' \in ClientStates
      BY <1>0, <1>1, StreamShapes DEF Spawn, RouteStates, Shapes
    <3> QED BY <1>0, <1>1, <3>1, <3>3, <3>4, <3>6, <3>7 DEF Spawn, Shapes
  <2> QED BY <2>1, <2>2
<1>2. CASE Evict
  BY <1>2 DEF Evict, Shapes
<1>3. CASE ResumeAppend
  <2> DEFINE n == task.last + 1
  <2>1. n \in 1..MaxSeq /\ n \in Seqs
    BY <1>0, <1>3 DEF ResumeAppend, Seqs
  <2>2. run' \in Runs
    BY <1>0, <1>3, StreamAssumption DEF ResumeAppend, Runs
  <2>3. route' = [route EXCEPT !.resume = "save", !.seq = n] /\ stored' = stored \cup {n}
    BY <1>3 DEF ResumeAppend
  <2> HIDE DEF n
  <2>4. route' \in RouteStates /\ stored' \in SUBSET (1..MaxSeq)
    BY <1>0, <2>1, <2>3 DEF RouteStates, Shapes
  <2> QED BY <1>3, <2>2, <2>4 DEF ResumeAppend, Shapes
<1>4. CASE ResumeSave
  <2>1. Max({task.last, route.seq}) \in Seqs
    BY <1>0, MaxOfTwo
  <2>2. task' \in [status : Statuses, last : Seqs]
    BY <1>4, <2>1 DEF ResumeSave
  <2> DEFINE b == route.overwrote \/ task.status = "cancelled"
  <2>3. b \in BOOLEAN
    OBVIOUS
  <2>4. route' = [route EXCEPT !.resume = "spawn", !.overwrote = b]
    BY <1>4 DEF ResumeSave
  <2> HIDE DEF b
  <2>5. route' \in RouteStates
    BY <1>0, <2>3, <2>4 DEF RouteStates
  <2> QED BY <1>4, <2>2, <2>5 DEF ResumeSave, Shapes
<1>5. CASE CancelSave
  <2>1. "cancelled" \in Statuses
    BY DEF Statuses, Closing
  <2>2. task' \in [status : Statuses, last : Seqs]
    BY <1>5, <2>1 DEF CancelSave, Shapes
  <2>3. route' \in RouteStates
    BY <1>0, <1>5 DEF CancelSave, RouteStates
  <2> QED BY <1>5, <2>2, <2>3 DEF CancelSave, Shapes
<1>6. CASE CancelNotify
  <2>1. route' \in RouteStates
    BY <1>0, <1>6 DEF CancelNotify, RouteStates
  <2>2. log' \in [Runs -> Logs]
    <3>1. CASE registry = 0
      BY <1>6, <3>1 DEF CancelNotify, Shapes
    <3>2. CASE registry # 0
      <4>1. registry \in Runs
        BY <3>2, StreamAssumption DEF Shapes, Runs
      <4>2. log[registry] \in Logs /\ "cancelled" \in Statuses
        BY <4>1 DEF Shapes, Statuses, Closing
      <4>3. Close(NotifyStatus(log[registry], "cancelled", route.cancelSeq)) \in Logs
        BY <1>0, <4>2, EndFacts
      <4>4. log' = [log EXCEPT ![registry] =
                       Close(NotifyStatus(log[registry], "cancelled", route.cancelSeq))]
        BY <1>6, <3>2 DEF CancelNotify
      <4> QED BY <4>1, <4>3, <4>4 DEF Shapes
    <3> QED BY <3>1, <3>2
  <2> QED BY <1>6, <2>1, <2>2 DEF CancelNotify, Shapes
<1>7. CASE Restart
  <2>1. faults' \in 0..MaxFaults
    BY <1>7, StreamAssumption DEF Restart, Fault, Shapes
  <2>2. writer' \in [Runs -> WriterStates] /\ Gone.pc = "gone"
    BY <1>7, StreamShapes DEF Restart, Shapes, Gone, NoWriter
  <2>3. \A r \in Runs : writer'[r].pc \in {"push", "save"} => writer'[r].seq <= MaxSeq
    BY <1>7, <2>2 DEF Restart, Shapes
  <2>4. log' \in [Runs -> Logs] /\ stream' \in StreamStates
    BY <1>7, StreamShapes DEF Restart, Shapes
  <2>5. task' \in [status : Statuses, last : Seqs]
    BY <1>7 DEF Restart, Shapes, Statuses, Closing
  <2>6. route' \in RouteStates
    BY <1>0, <1>7 DEF Restart, RouteStates
  <2> QED BY <1>7, <2>1, <2>2, <2>3, <2>4, <2>5, <2>6 DEF Restart, Shapes
<1> QED BY <1>1, <1>2, <1>3, <1>4, <1>5, <1>6, <1>7

\* What a step of the stream does to the stream and the browser.
LEMMA AttachFacts ==
  ASSUME Shapes, Attach
  PROVE  LET rows == IF stream.log = 0 THEN {} ELSE log[stream.log].rows
             due == Replay(rows)
             late == {n \in rows : n > stream.seen}
             missing == stored \cap 1..Max(due \cup late \cup {0})
         IN  /\ rows \in SUBSET (1..MaxSeq) /\ due \in SUBSET (1..MaxSeq)
             /\ missing \in SUBSET (1..MaxSeq)
             /\ \A n \in due \cup late : n <= Max(due \cup late \cup {0})
             /\ \/ stream' = Ended
                \/ /\ stream.status \notin Closing /\ stream.log # 0
                   /\ stream'.pc = "live" /\ stream' \in StreamStates
                   /\ stream'.pos = Len(log[stream.log].messages)
                   /\ stream'.sent = Sent(due, missing).sent
                   /\ stream'.last = Sent(due, missing).last
                   /\ stream'.missed = Sent(due, missing).missed
                   /\ stream'.after = stream.after /\ stream'.log = stream.log
                   /\ stream'.seen = stream.seen /\ stream'.status = stream.status
             /\ client' = Shown(due)
<1> USE Consts
<1>0. \A D, M \in SUBSET (1..MaxSeq) :
         /\ Sent(D, M) \in StreamStates
         /\ Sent(D, M).log = stream.log /\ Sent(D, M).after = stream.after
         /\ Sent(D, M).seen = stream.seen /\ Sent(D, M).status = stream.status
  BY SentFacts
<1> DEFINE rows == IF stream.log = 0 THEN {} ELSE log[stream.log].rows
           due == Replay(rows)
           late == {n \in rows : n > stream.seen}
           missing == stored \cap 1..Max(due \cup late \cup {0})
<1>1. rows \in SUBSET (1..MaxSeq)
  <2>1. CASE stream.log = 0
    BY <2>1
  <2>2. CASE stream.log # 0
    <3>1. stream.log \in Runs
      BY <2>2, StreamFields, StreamAssumption DEF Runs
    <3> QED BY <2>2, <3>1, ItemTypes DEF Logs
  <2> QED BY <2>1, <2>2
<1>2. /\ \/ /\ stream.status \in Closing \/ stream.log = 0
            /\ stream' = Ended
         \/ /\ stream.status \notin Closing /\ stream.log # 0
            /\ stream' = [Sent(due, missing) EXCEPT !.pc = "live",
                                                    !.pos = Len(log[stream.log].messages)]
      /\ client' = Shown(due)
  BY DEF Attach
<1> HIDE DEF rows
<1>3. due \in SUBSET (1..MaxSeq)
  BY <1>1, ReplayFacts
<1> HIDE DEF due
<1>4. missing \in SUBSET (1..MaxSeq)
  BY DEF Shapes
<1>5. \A n \in due \cup late : n <= Max(due \cup late \cup {0})
  <2>1. due \cup late \cup {0} \in SUBSET Seqs
    BY <1>1, <1>3
  <2> HIDE DEF late
  <2> QED BY <2>1, MaxOfSeqs
<1> HIDE DEF missing, late
<1>6. ASSUME stream.status \notin Closing, stream.log # 0
      PROVE  LET x == [Sent(due, missing) EXCEPT !.pc = "live",
                                                 !.pos = Len(log[stream.log].messages)]
             IN  /\ x \in StreamStates /\ x.pc = "live"
                 /\ x.pos = Len(log[stream.log].messages)
                 /\ x.sent = Sent(due, missing).sent /\ x.last = Sent(due, missing).last
                 /\ x.missed = Sent(due, missing).missed
                 /\ x.after = stream.after /\ x.log = stream.log
                 /\ x.seen = stream.seen /\ x.status = stream.status
  <2>1. stream.log \in Runs
    BY <1>6, StreamFields, StreamAssumption DEF Runs
  <2>2. Len(log[stream.log].messages) \in Nat
    BY <2>1, ItemTypes
  <2>3. /\ Sent(due, missing) \in StreamStates
        /\ Sent(due, missing).log = stream.log /\ Sent(due, missing).after = stream.after
        /\ Sent(due, missing).seen = stream.seen /\ Sent(due, missing).status = stream.status
    BY <1>0, <1>3, <1>4
  <2> DEFINE len == Len(log[stream.log].messages)
             y == Sent(due, missing)
  <2> HIDE DEF len, y
  <2> QED BY <2>2, <2>3 DEF StreamStates, len, y
<1>7. \/ stream' = Ended
      \/ /\ stream.status \notin Closing /\ stream.log # 0
         /\ stream'.pc = "live" /\ stream' \in StreamStates
         /\ stream'.pos = Len(log[stream.log].messages)
         /\ stream'.sent = Sent(due, missing).sent
         /\ stream'.last = Sent(due, missing).last
         /\ stream'.missed = Sent(due, missing).missed
         /\ stream'.after = stream.after /\ stream'.log = stream.log
         /\ stream'.seen = stream.seen /\ stream'.status = stream.status
  BY <1>2, <1>6
<1> QED BY <1>1, <1>2, <1>3, <1>4, <1>5, <1>7 DEF rows, due, missing, late

LEMMA RecvEventFacts ==
  ASSUME Shapes, RecvEvent
  PROVE  /\ stream.pc = "live" /\ stream.pos < Len(Messages) /\ Received.kind = "event"
         /\ stream' \in StreamStates /\ stream'.pos = stream.pos + 1
         /\ stream'.pc = "live" /\ stream'.log = stream.log /\ stream'.after = stream.after
         /\ stream'.missed = stream.missed /\ stream'.status = stream.status
         /\ \/ /\ Received.seq <= stream.last
               /\ stream'.last = stream.last /\ stream'.sent = stream.sent
               /\ client' = Shown({})
            \/ /\ Received.seq > stream.last
               /\ stream'.last = Received.seq
               /\ stream'.sent = stream.sent \cup {Received.seq}
               /\ client' = Shown({Received.seq})
<1> USE Consts
<1>1. stream.pc = "live" /\ stream.pos < Len(Messages) /\ Received.kind = "event"
  BY DEF RecvEvent
<1>2. Received.seq \in Seqs /\ stream.pos + 1 \in Nat /\ stream.last \in Seqs
  BY <1>1, ReceivedFacts, StreamFields
<1>3. Max({stream.seen, Received.seq}) \in Seqs
  BY <1>2, MaxOfTwo, StreamFields
<1> DEFINE e == Received.seq
           next == stream.pos + 1
           seen == Max({stream.seen, e})
<1>4. CASE e <= stream.last
  <2>1. stream' = [stream EXCEPT !.pos = next] /\ client' = Shown({})
    BY <1>4 DEF RecvEvent
  <2> HIDE DEF e, next
  <2>2. stream \in StreamStates /\ next \in Nat
    BY <1>2 DEF Shapes, next
  <2> QED BY <1>1, <1>4, <2>1, <2>2 DEF StreamStates, next, e
<1>5. CASE ~(e <= stream.last)
  <2>0. e > stream.last /\ e \in 1..MaxSeq
    BY <1>2, <1>5 DEF Seqs
  <2>1. /\ stream' = [stream EXCEPT !.pos = next, !.last = e, !.sent = stream.sent \cup {e},
                                    !.seen = seen]
        /\ client' = Shown({e})
    BY <1>5 DEF RecvEvent
  <2> HIDE DEF e, next, seen
  <2>2. stream \in StreamStates /\ next \in Nat /\ e \in Seqs /\ seen \in Seqs
        /\ stream.sent \cup {e} \in SUBSET (1..MaxSeq)
    BY <1>2, <1>3, <2>0, StreamFields DEF Shapes, next, e, seen
  <2> QED BY <1>1, <2>0, <2>1, <2>2 DEF StreamStates, next, e
<1> QED BY <1>4, <1>5

\* The messages that bring no event.
LEMMA RecvStatusFacts ==
  ASSUME Shapes, RecvStatus
  PROVE  /\ stream.pc = "live" /\ stream.pos < Len(Messages) /\ Received.kind = "status"
         /\ stream' \in StreamStates /\ stream'.pos = stream.pos + 1
         /\ stream'.pc = "live" /\ stream'.log = stream.log /\ stream'.after = stream.after
         /\ stream'.missed = stream.missed /\ stream'.last = stream.last
         /\ stream'.sent = stream.sent
         /\ client' = [client EXCEPT !.told = client.told \/ Received.status \in Closing]
<1> USE Consts
<1>1. stream.pc = "live" /\ stream.pos < Len(Messages) /\ Received.kind = "status"
  BY DEF RecvStatus
<1>2. Received.seq \in Seqs /\ stream.pos + 1 \in Nat /\ Received.status \in Statuses
  BY <1>1, ReceivedFacts, StreamFields
<1>3. Max({stream.seen, Received.seq}) \in Seqs
  BY <1>2, MaxOfTwo, StreamFields
<1> DEFINE next == stream.pos + 1
           status == Received.status
           seen == Max({stream.seen, Received.seq})
<1>4. /\ stream' = [stream EXCEPT !.pos = next, !.status = status, !.seen = seen]
      /\ client' = [client EXCEPT !.told = client.told \/ Received.status \in Closing]
  BY DEF RecvStatus
<1>5. next \in Nat /\ status \in Statuses /\ seen \in Seqs
  BY <1>2, <1>3
<1> HIDE DEF next, status, seen
<1>6. stream \in StreamStates
  BY DEF Shapes
<1> QED BY <1>1, <1>4, <1>5, <1>6 DEF StreamStates, next

LEMMA RecvLaggedFacts ==
  ASSUME Shapes, StreamOfClient, RecvLagged
  PROVE  LET oldest == Len(Messages) - Capacity
             lost == {Messages[i].seq : i \in {j \in stream.pos + 1..oldest :
                                                  Messages[j].kind = "event"}}
             rows == Due(log[stream.log].rows)
             due == IF rows # {} THEN rows ELSE Due(FirstPage(stream.last))
         IN  /\ stream.pc = "live" /\ oldest > stream.pos /\ oldest <= Len(Messages) /\ oldest \in Nat
             /\ due \in SUBSET (1..MaxSeq) /\ lost \cap 1..MaxSeq \in SUBSET (1..MaxSeq)
             /\ due \subseteq log[stream.log].rows \cup stored
             /\ lost \in SUBSET Seqs
             /\ stream' \in StreamStates
             /\ stream'.pc = "live" /\ stream'.pos = oldest
             /\ stream'.log = stream.log /\ stream'.after = stream.after
             /\ stream'.sent = stream.sent \cup due
             /\ stream'.last = Max(due \cup {stream.last})
             /\ stream'.missed = stream.missed \cup {n \in lost : n > stream.last /\ n \notin due}
             /\ client' = Shown(due)
<1> USE Consts
<1> DEFINE oldest == Len(Messages) - Capacity
           lost == {Messages[i].seq : i \in {j \in stream.pos + 1..oldest :
                                                Messages[j].kind = "event"}}
           rows == Due(log[stream.log].rows)
           due == IF rows # {} THEN rows ELSE Due(FirstPage(stream.last))
           gone == stream.missed \cup {n \in lost : n > stream.last /\ n \notin due}
           top == Max(due \cup {stream.last})
<1>1. stream.pc = "live" /\ stream.log = run /\ run \in Runs
  BY DEF RecvLagged, StreamOfClient, Shapes
<1>2. /\ Len(Messages) \in Nat /\ stream.pos \in Nat
      /\ oldest > stream.pos /\ oldest <= Len(Messages) /\ oldest \in Nat
  BY MessagesFacts, StreamFields, SMTT(30) DEF RecvLagged, Lagging
<1>3. log[stream.log].rows \in SUBSET (1..MaxSeq) /\ stored \in SUBSET (1..MaxSeq)
  BY <1>1, ItemTypes DEF Logs, Shapes
<1>4. rows \subseteq log[stream.log].rows /\ Due(FirstPage(stream.last)) \subseteq stored
  BY DEF Due, FirstPage
<1>5. due \in SUBSET (1..MaxSeq) /\ due \subseteq log[stream.log].rows \cup stored
  BY <1>3, <1>4
<1>6. lost \in SUBSET Seqs
  BY <1>2, MessagesFacts
<1>7. stream' = [Sent(due, lost) EXCEPT !.pos = oldest] /\ client' = Shown(due)
  BY DEF RecvLagged
<1> HIDE DEF due, lost, oldest
<1>8. due \cup {stream.last} \in SUBSET Seqs
  BY <1>5, StreamFields
<1>9. top \in Seqs
  BY <1>8, MaxOfSeqs
<1>10. gone \in SUBSET (1..MaxSeq)
  <2>1. \A n \in lost : n > stream.last => n \in 1..MaxSeq
    BY <1>6, StreamFields, StreamAssumption DEF Seqs
  <2> QED BY <2>1, StreamFields
<1>11. Sent(due, lost) = [stream EXCEPT !.sent = stream.sent \cup due, !.last = top, !.missed = gone]
  BY DEF Sent
<1> HIDE DEF gone, top
<1>12. stream \in StreamStates /\ stream.sent \cup due \in SUBSET (1..MaxSeq)
  BY <1>5, StreamFields DEF Shapes
<1>13. /\ stream' \in StreamStates /\ stream'.pc = "live" /\ stream'.pos = oldest
       /\ stream'.log = stream.log /\ stream'.after = stream.after
       /\ stream'.sent = stream.sent \cup due /\ stream'.last = top /\ stream'.missed = gone
  BY <1>1, <1>2, <1>7, <1>9, <1>10, <1>11, <1>12 DEF StreamStates
<1> QED BY <1>1, <1>2, <1>5, <1>6, <1>7, <1>13 DEF gone, top, due, lost, oldest

\* The stream and the browser leave everything else alone.
Aside == UNCHANGED <<stored, task, run, writer, log, registry, route>>

LEMMA StreamAside ==
  ASSUME StreamStep \/ StreamLost \/ Keepalive \/ ClientStep \/ BackfillFails
         \/ LastBackfillFails
  PROVE  Aside
<1>1. CASE StreamStep
  BY <1>1 DEF StreamStep, Reload, Attach, RecvEvent, RecvStatus, RecvClosed, RecvLagged, Aside
<1>2. CASE ClientStep
  BY <1>2 DEF ClientStep, Backfill, Connect, Reconnect, Retry, CloseStream, LastBackfill, Aside
<1>3. CASE StreamLost \/ Keepalive \/ BackfillFails \/ LastBackfillFails
  BY <1>3 DEF StreamLost, Keepalive, BackfillFails, LastBackfillFails, Aside
<1> QED BY <1>1, <1>2, <1>3

LEMMA ViewShapes ==
  ASSUME Shapes, StreamOfClient,
         StreamStep \/ StreamLost \/ Keepalive \/ ClientStep \/ BackfillFails
         \/ LastBackfillFails
  PROVE  Shapes'
<1> USE Consts
<1>0. stream \in StreamStates /\ client \in ClientStates
  BY DEF Shapes
<1>k. ASSUME stream' \in StreamStates, client' \in ClientStates, faults' \in 0..MaxFaults
      PROVE  Shapes'
  BY <1>k, StreamAside DEF Shapes, Aside
<1>f. faults \in 0..MaxFaults /\ (Fault => faults' \in 0..MaxFaults)
  BY StreamAssumption DEF Shapes, Fault
<1>t. ASSUME NEW b \in BOOLEAN
      PROVE  [client EXCEPT !.told = b] \in ClientStates
  BY <1>0 DEF ClientStates
<1>1. CASE Reload
  <2>1. stream' = [stream EXCEPT !.pc = "attach", !.status = task.status, !.seen = task.last]
    BY <1>1 DEF Reload
  <2>2. stream' \in StreamStates
    BY <1>0, <2>1, StreamFields DEF StreamStates
  <2>3. client' \in ClientStates
    <3> DEFINE b == client.told \/ task.status \in Closing
    <3>1. client' = [client EXCEPT !.told = b] /\ b \in BOOLEAN
      BY <1>1 DEF Reload
    <3> HIDE DEF b
    <3> QED BY <1>t, <3>1
  <2> QED BY <1>1, <1>f, <1>k, <2>2, <2>3 DEF Reload
<1>2. CASE Attach
  <2>1. stream' \in StreamStates
    BY <1>2, AttachFacts, StreamShapes
  <2>2. PICK D \in SUBSET (1..MaxSeq) : client' = Shown(D)
    BY <1>2, AttachFacts
  <2>3. client' \in ClientStates
    BY <2>2, ShownFacts
  <2> QED BY <1>2, <1>f, <1>k, <2>1, <2>3 DEF Attach
<1>3. CASE RecvEvent
  <2>1. Received.seq \in Seqs
    BY <1>3, RecvEventFacts, ReceivedFacts
  <2>2. PICK D \in SUBSET Seqs : client' = Shown(D)
    BY <1>3, <2>1, RecvEventFacts
  <2>3. client' \in ClientStates
    BY <2>2, ShownFacts
  <2>4. stream' \in StreamStates /\ faults' = faults
    BY <1>3, RecvEventFacts DEF RecvEvent
  <2> QED BY <1>f, <1>k, <2>3, <2>4
<1>4. CASE RecvStatus
  <2> DEFINE b == client.told \/ Received.status \in Closing
  <2>1. client' = [client EXCEPT !.told = b] /\ b \in BOOLEAN
    BY <1>4, RecvStatusFacts
  <2> HIDE DEF b
  <2>2. stream' \in StreamStates /\ faults' = faults
    BY <1>4, RecvStatusFacts DEF RecvStatus
  <2> QED BY <1>f, <1>k, <1>t, <2>1, <2>2
<1>5. CASE RecvClosed \/ Keepalive
  <2> DEFINE b == client.told \/ task.status \in Closing
  <2>1. client' = [client EXCEPT !.told = b] /\ b \in BOOLEAN
    BY <1>5 DEF RecvClosed, Keepalive
  <2> HIDE DEF b
  <2>2. stream' \in StreamStates /\ faults' = faults
    BY <1>0, <1>5, StreamShapes DEF RecvClosed, Keepalive
  <2> QED BY <1>f, <1>k, <1>t, <2>1, <2>2
<1>6. CASE RecvLagged
  <2>1. PICK D \in SUBSET (1..MaxSeq) : client' = Shown(D)
    BY <1>6, RecvLaggedFacts
  <2>2. client' \in ClientStates
    BY <2>1, ShownFacts
  <2>3. stream' \in StreamStates /\ faults' = faults
    BY <1>6, RecvLaggedFacts DEF RecvLagged
  <2> QED BY <1>f, <1>k, <2>2, <2>3
<1>7. CASE StreamLost
  BY <1>0, <1>7, <1>f, <1>k, StreamShapes DEF StreamLost
<1>8. CASE Backfill \/ LastBackfill
  <2> DEFINE last == BackfillTo
  <2>1. last \in Seqs
    BY BackfillFacts
  <2>2. \E pc \in {"connect", "done"}, a \in {client.attempts, 0} :
            client' = [client EXCEPT !.pc = pc, !.last = last, !.attempts = a]
    <3>1. CASE LastBackfill
      BY <1>0, <3>1 DEF LastBackfill, ClientStates
    <3>2. CASE Backfill
      BY <1>0, <3>2 DEF Backfill, ClientStates
    <3> QED BY <1>8, <3>1, <3>2
  <2> HIDE DEF last
  <2>3. client.attempts \in 0..MaxAttempts - 1 /\ 0 \in 0..MaxAttempts - 1
    BY StreamFields, StreamAssumption
  <2>4. client' \in ClientStates
    BY <1>0, <2>1, <2>2, <2>3, ZenonT(60) DEF ClientStates
  <2> QED BY <1>0, <1>8, <1>f, <1>k, <2>4 DEF Backfill, LastBackfill
<1>9. CASE Connect \/ Reconnect
  <2>1. client.last \in Seqs /\ stream.after \in Seqs
    BY StreamFields
  <2>2. \A n \in Seqs : Opened(n) \in StreamStates
    BY StreamShapes DEF Opened, StreamStates, Shapes
  <2>3. stream' \in StreamStates
    BY <1>9, <2>1, <2>2 DEF Connect, Reconnect
  <2>4. client' \in ClientStates
    BY <1>0, <1>9 DEF Connect, Reconnect, ClientStates
  <2> QED BY <1>9, <1>f, <1>k, <2>3, <2>4 DEF Connect, Reconnect
<1>10. CASE Retry
  <2>1. 0 \in 0..MaxAttempts - 1
    BY StreamAssumption
  <2>2. CASE client.attempts + 1 = MaxAttempts
    <3>1. client' \in ClientStates
      BY <1>0, <1>10, <2>1, <2>2 DEF Retry, ClientStates
    <3> QED BY <1>10, <1>f, <1>k, <3>1, StreamShapes DEF Retry
  <2>3. CASE client.attempts + 1 # MaxAttempts
    <3> DEFINE a == client.attempts + 1
    <3>1. a \in 0..MaxAttempts - 1
      BY <2>3, StreamFields, StreamAssumption
    <3>2. client' = [client EXCEPT !.pc = "backfill", !.attempts = a]
      BY <1>10, <2>3 DEF Retry
    <3> HIDE DEF a
    <3>3. client' \in ClientStates
      BY <1>0, <3>1, <3>2 DEF ClientStates
    <3> QED BY <1>10, <1>f, <1>k, <3>3, StreamShapes DEF Retry
  <2> QED BY <2>2, <2>3
<1>11. CASE CloseStream
  <2>1. 0 \in 0..MaxAttempts - 1
    BY StreamAssumption
  <2>2. client' \in ClientStates
    BY <1>0, <1>11, <2>1 DEF CloseStream, ClientStates
  <2> QED BY <1>11, <1>f, <1>k, <2>2, StreamShapes DEF CloseStream
<1>12. CASE BackfillFails \/ LastBackfillFails
  <2>1. client' \in ClientStates
    BY <1>0, <1>12 DEF BackfillFails, LastBackfillFails, ClientStates
  <2> QED BY <1>0, <1>12, <1>f, <1>k, <2>1 DEF BackfillFails, LastBackfillFails
<1> QED BY <1>1, <1>2, <1>3, <1>4, <1>5, <1>6, <1>7, <1>8, <1>9, <1>10, <1>11, <1>12
        DEF StreamStep, ClientStep

LEMMA NextShapes ==
  ASSUME Shapes, AnswerNumber, Resuming, StreamOfClient, [Next]_vars
  PROVE  Shapes'
<1>1. CASE UNCHANGED vars
  BY <1>1 DEF vars, Shapes
<1> QED BY <1>1, WriterShapes, RouteShapes, ViewShapes DEF Next

-----------------------------------------------------------------------------
(* The messages of a log stay in order.                                      *)

LEMMA OrderEmpty == InOrder(EmptyLog) /\ EmptyLog.rows = {}
BY DEF InOrder, EmptyLog

LEMMA OrderPush ==
  ASSUME NEW l \in Logs, NEW n \in 1..MaxSeq, InOrder(l), \A m \in l.rows : m < n
  PROVE  InOrder(PushPersisted(l, n))
<1> DEFINE p == PushPersisted(l, n)
<1>1. p.rows = l.rows \cup {n} /\ p.messages = Append(l.messages, Event(n))
  BY PushFacts
<1> HIDE DEF p
<1>2. l.messages \in Seq(Items) /\ Event(n) \in Items
  BY ItemsTyped, Consts DEF Logs
<1>3. /\ Len(l.messages) \in Nat /\ Len(p.messages) = Len(l.messages) + 1
      /\ \A i \in 1..Len(l.messages) : p.messages[i] = l.messages[i]
      /\ p.messages[Len(l.messages) + 1] = Event(n)
  BY <1>1, <1>2, AppendFacts
<1>4. Event(n).seq = n
  BY DEF Event
<1>5. SUFFICES ASSUME NEW i \in 1..Len(p.messages), p.messages[i].kind = "event"
               PROVE  /\ p.messages[i].seq \in p.rows
                      /\ \A j \in 1..i - 1 : p.messages[j].kind = "event" =>
                             p.messages[j].seq < p.messages[i].seq
  BY DEF InOrder, p
<1>6. CASE i <= Len(l.messages)
  <2>1. i \in 1..Len(l.messages) /\ \A j \in 1..i - 1 : j \in 1..Len(l.messages)
    BY <1>3, <1>6
  <2>2. p.messages[i] = l.messages[i] /\ \A j \in 1..i - 1 : p.messages[j] = l.messages[j]
    BY <1>3, <2>1
  <2>3. /\ l.messages[i].seq \in l.rows
        /\ \A j \in 1..i - 1 : l.messages[j].kind = "event" =>
               l.messages[j].seq < l.messages[i].seq
    BY <1>5, <2>1, <2>2 DEF InOrder
  <2> QED BY <1>1, <2>2, <2>3
<1>7. CASE i = Len(l.messages) + 1
  <2>1. \A j \in 1..i - 1 : j \in 1..Len(l.messages)
    BY <1>3, <1>7
  <2>2. p.messages[i] = Event(n) /\ \A j \in 1..i - 1 : p.messages[j] = l.messages[j]
    BY <1>3, <1>7, <2>1
  <2>3. \A j \in 1..i - 1 : l.messages[j].kind = "event" => l.messages[j].seq \in l.rows
    BY <2>1 DEF InOrder
  <2> QED BY <1>1, <1>4, <2>2, <2>3
<1> QED BY <1>3, <1>6, <1>7, SMTT(60)

\* Messages that bring no event change nothing.
LEMMA OrderKept ==
  ASSUME NEW l, NEW k, InOrder(l), k.rows = l.rows,
         Len(l.messages) \in Nat, Len(k.messages) \in Nat,
         \A i \in 1..Len(l.messages) : k.messages[i] = l.messages[i],
         \A i \in Len(l.messages) + 1..Len(k.messages) : k.messages[i].kind # "event"
  PROVE  InOrder(k)
<1>1. SUFFICES ASSUME NEW i \in 1..Len(k.messages), k.messages[i].kind = "event"
               PROVE  /\ k.messages[i].seq \in k.rows
                      /\ \A j \in 1..i - 1 : k.messages[j].kind = "event" =>
                             k.messages[j].seq < k.messages[i].seq
  BY DEF InOrder
<1>2. i \in 1..Len(l.messages)
  BY <1>1
<1>3. \A j \in 1..i - 1 : j \in 1..Len(l.messages)
  BY <1>2
<1> QED BY <1>1, <1>2, <1>3 DEF InOrder

LEMMA OrderNotify ==
  ASSUME NEW l \in Logs, NEW s \in Statuses, NEW n \in Seqs, InOrder(l)
  PROVE  InOrder(NotifyStatus(l, s, n))
<1> DEFINE k == NotifyStatus(l, s, n)
<1>1. k.rows = l.rows /\ k.messages = Append(l.messages, Status(s, n))
  BY NotifyFacts
<1> HIDE DEF k
<1>2. l.messages \in Seq(Items) /\ Status(s, n) \in Items
  BY ItemsTyped DEF Logs
<1>3. /\ Len(l.messages) \in Nat /\ Len(k.messages) = Len(l.messages) + 1
      /\ \A i \in 1..Len(l.messages) : k.messages[i] = l.messages[i]
      /\ k.messages[Len(l.messages) + 1] = Status(s, n)
  BY <1>1, <1>2, AppendFacts
<1>4. Status(s, n).kind # "event"
  BY DEF Status
<1>5. \A i \in Len(l.messages) + 1..Len(k.messages) : k.messages[i].kind # "event"
  BY <1>3, <1>4
<1>6. InOrder(k)
  BY <1>1, <1>3, <1>5, OrderKept, SMTT(30)
<1> QED BY <1>6 DEF k

LEMMA OrderEnd ==
  ASSUME NEW l \in Logs, NEW s \in Statuses, NEW n \in Seqs, InOrder(l)
  PROVE  InOrder(Close(NotifyStatus(l, s, n)))
<1> DEFINE k == Close(NotifyStatus(l, s, n))
<1>1. /\ k.rows = l.rows /\ Len(k.messages) \in Nat
      /\ \A i \in 1..Len(l.messages) : k.messages[i] = l.messages[i]
      /\ \A i \in Len(l.messages) + 1..Len(k.messages) : k.messages[i] \in {Status(s, n), Closed}
  BY EndFacts
<1> HIDE DEF k
<1>2. Len(l.messages) \in Nat
  BY DEF Logs
<1>3. Status(s, n).kind # "event" /\ Closed.kind # "event"
  BY DEF Status, Closed
<1>4. \A i \in Len(l.messages) + 1..Len(k.messages) : k.messages[i].kind # "event"
  BY <1>1, <1>3
<1>5. InOrder(k)
  BY <1>1, <1>2, <1>4, OrderKept
<1> QED BY <1>5 DEF k

-----------------------------------------------------------------------------
(* The task and its runs: the invariant is kept.                             *)

LEMMA InitTask == Init => TaskInv
<1> SUFFICES ASSUME Init PROVE TaskInv
  OBVIOUS
<1>1. /\ stored = {} /\ task = [status |-> "running", last |-> 0] /\ run = 1 /\ registry = 0
      /\ \A r \in Runs : writer[r].pc = "none" /\ log[r] = EmptyLog
      /\ route.resume = "idle" /\ ~route.cancel /\ route.seq = 0
  BY DEF Init, NoWriter
<1>2. 1 \in Runs /\ log[run] = EmptyLog /\ writer[run].pc = "none"
  BY <1>1, Consts
<1>3. RunsInTurn /\ StatusOfRun
  BY <1>1, <1>2 DEF RunsInTurn, StatusOfRun, Runs
<1>4. Resuming /\ AnswerNumber
  BY <1>1 DEF Resuming, AnswerNumber
<1>5. LogOfRun
  BY <1>1, Consts DEF LogOfRun, Runs
<1>6. StoredIsRecorded /\ NewestStored
  BY <1>1, <1>2 DEF StoredIsRecorded, NewestStored
<1>7. RowsInOrder
  BY <1>1, <1>2, OrderEmpty DEF RowsInOrder
<1> QED BY <1>3, <1>4, <1>5, <1>6, <1>7 DEF TaskInv

\* While a resume is under way nobody watches.
LEMMA ViewTask ==
  ASSUME Shapes, TaskInv, StreamOfClient,
         StreamStep \/ StreamLost \/ Keepalive \/ ClientStep \/ BackfillFails
         \/ LastBackfillFails
  PROVE  TaskInv'
<1>1. Aside
  BY StreamAside
<1>2. route.resume = "idle"
  <2> SUFFICES ASSUME route.resume # "idle" PROVE FALSE
    OBVIOUS
  <2>1. client.pc \in {"done", "gaveUp"} /\ stream.pc = "none"
    BY DEF TaskInv, Resuming, StreamOfClient
  <2>2. ~StreamStep /\ ~StreamLost /\ ~Keepalive
    BY <2>1 DEF StreamStep, Reload, Attach, RecvEvent, RecvStatus, RecvClosed, RecvLagged,
                StreamLost, Keepalive
  <2>3. ~ClientStep /\ ~BackfillFails /\ ~LastBackfillFails
    BY <2>1 DEF ClientStep, Backfill, Connect, Reconnect, Retry, CloseStream, LastBackfill,
                BackfillFails, LastBackfillFails
  <2> QED BY <2>2, <2>3
<1>3. RunsInTurn' /\ StatusOfRun' /\ AnswerNumber' /\ LogOfRun'
  BY <1>1 DEF Aside, TaskInv, RunsInTurn, StatusOfRun, AnswerNumber, LogOfRun
<1>4. StoredIsRecorded' /\ NewestStored' /\ RowsInOrder'
  BY <1>1 DEF Aside, TaskInv, StoredIsRecorded, NewestStored, RowsInOrder
<1>5. Resuming'
  BY <1>1, <1>2 DEF Aside, TaskInv, Resuming
<1> QED BY <1>3, <1>4, <1>5 DEF TaskInv

\* What the writers, the logs and the record look like.
LEMMA RunFacts ==
  ASSUME Shapes
  PROVE  /\ run \in Runs /\ run \in Int /\ Runs \subseteq Int
         /\ DOMAIN writer = Runs /\ DOMAIN log = Runs
         /\ \A r \in Runs : writer[r] \in WriterStates /\ writer[r].seq \in 1..MaxSeq + 1
                            /\ writer[r].status \in Statuses /\ log[r] \in Logs
         /\ task.last \in Int /\ route.seq \in Int /\ stored \in SUBSET Int
         /\ task \in [status : Statuses, last : Seqs] /\ route \in RouteStates
<1>1. \A r \in Runs : writer[r] \in WriterStates /\ log[r] \in Logs
  BY DEF Shapes
<1>2. \A r \in Runs : writer[r].seq \in 1..MaxSeq + 1 /\ writer[r].status \in Statuses
  BY <1>1 DEF WriterStates
<1>3. task.last \in Int /\ route.seq \in Int
  BY Consts, StreamFields
<1>4. stored \in SUBSET Int
  BY Consts DEF Shapes
<1>5. run \in Runs /\ run \in Int /\ Runs \subseteq Int
  BY DEF Shapes, Runs
<1> QED BY <1>1, <1>2, <1>3, <1>4, <1>5 DEF Shapes

\* Only the latest run writes; an earlier one may still close its log.
LEMMA OnlyLatest ==
  ASSUME Shapes, RunsInTurn, NEW r \in Runs, r # run
  PROVE  writer[r].pc \in {"none", "notify", "gone"} /\ (writer[r].pc # "none" => r < run)
BY RunFacts DEF RunsInTurn

LEMMA WriterTask ==
  ASSUME Shapes, TaskInv, NEW r \in Runs, WriterStep(r)
  PROVE  TaskInv'
<1> USE RunFacts DEF TaskInv
<1>w. ASSUME NEW w, writer' = [writer EXCEPT ![r] = w]
      PROVE  writer'[r] = w /\ \A q \in Runs : q # r => writer'[q] = writer[q]
  BY <1>w
<1>o. /\ writer[r].pc \in {"collect", "push", "save"} => r = run /\ route.resume = "idle"
      /\ writer[r].pc # "none" => r <= run
  BY OnlyLatest DEF Resuming
<1>1. CASE AppendEvent(r)
  <2> DEFINE w == [writer[r] EXCEPT !.pc = "push"]
  <2>1. /\ r = run /\ writer[run].pc = "collect" /\ route.resume = "idle"
        /\ task.status # "cancelled" /\ stored' = stored \cup {writer[run].seq}
        /\ writer' = [writer EXCEPT ![r] = w] /\ w.pc = "push" /\ w.seq = writer[run].seq
        /\ UNCHANGED <<task, run, log, registry, route, client>>
    BY <1>1, <1>o DEF AppendEvent, WriterStates
  <2> HIDE DEF w
  <2>2. writer'[run] = w /\ \A q \in Runs : q # run => writer'[q] = writer[q]
    BY <1>w, <2>1
  <2>3. RunsInTurn' /\ StatusOfRun' /\ Resuming' /\ AnswerNumber'
    BY <2>1, <2>2 DEF RunsInTurn, StatusOfRun, Resuming, AnswerNumber
  <2>4. LogOfRun'
    BY <2>1, <2>2 DEF LogOfRun
  <2>5. StoredIsRecorded'
    <3>1. task.status # "interrupted"
      BY <2>1 DEF StatusOfRun
    <3> QED BY <2>1, <2>2, <3>1 DEF StoredIsRecorded
  <2>6. NewestStored'
    BY <2>1, <2>2 DEF NewestStored
  <2>7. RowsInOrder'
    BY <2>1, <2>2 DEF RowsInOrder, NewestStored
  <2> QED BY <2>3, <2>4, <2>5, <2>6, <2>7
<1>2. CASE AppendFails(r) \/ Drop(r)
  <2> DEFINE w == Skip(writer[r])
  <2>1. /\ r = run /\ writer[run].pc = "collect" /\ route.resume = "idle"
        /\ writer' = [writer EXCEPT ![r] = w] /\ w.pc = "collect" /\ w.seq = writer[run].seq + 1
        /\ UNCHANGED <<stored, task, run, log, registry, route, client>>
    BY <1>2, <1>o DEF AppendFails, Drop, Skip, WriterStates
  <2> HIDE DEF w
  <2>2. writer'[run] = w /\ \A q \in Runs : q # run => writer'[q] = writer[q]
    BY <1>w, <2>1
  <2>3. RunsInTurn' /\ StatusOfRun' /\ Resuming' /\ AnswerNumber'
    BY <2>1, <2>2 DEF RunsInTurn, StatusOfRun, Resuming, AnswerNumber
  <2>4. LogOfRun' /\ StoredIsRecorded' /\ RowsInOrder'
    BY <2>1, <2>2 DEF LogOfRun, StoredIsRecorded, RowsInOrder
  <2>5. NewestStored'
    BY <2>1, <2>2 DEF NewestStored
  <2> QED BY <2>3, <2>4, <2>5
<1>3. CASE Push(r)
  <2> DEFINE w == [writer[r] EXCEPT !.pc = "save"]
             l == PushPersisted(log[r], writer[r].seq)
  <2>1. /\ r = run /\ writer[run].pc = "push" /\ route.resume = "idle"
        /\ writer' = [writer EXCEPT ![r] = w] /\ w.pc = "save" /\ w.seq = writer[run].seq
        /\ log' = [log EXCEPT ![r] = l]
        /\ UNCHANGED <<stored, task, run, registry, route, client>>
    BY <1>3, <1>o DEF Push, WriterStates
  <2>2. writer[run].seq \in 1..MaxSeq /\ writer[run].seq \in stored
    BY <2>1 DEF Shapes, NewestStored
  <2>3. l.rows = log[run].rows \cup {writer[run].seq} /\ InOrder(l)
    BY <2>1, <2>2, PushFacts, OrderPush DEF RowsInOrder
  <2> HIDE DEF w, l
  <2>4. /\ writer'[run] = w /\ \A q \in Runs : q # run => writer'[q] = writer[q]
        /\ log'[run] = l /\ \A q \in Runs : q # run => log'[q] = log[q]
    BY <1>w, <2>1
  <2>5. RunsInTurn' /\ StatusOfRun' /\ Resuming' /\ AnswerNumber'
    BY <2>1, <2>4 DEF RunsInTurn, StatusOfRun, Resuming, AnswerNumber
  <2>6. LogOfRun' /\ StoredIsRecorded' /\ NewestStored'
    BY <2>1, <2>4 DEF LogOfRun, StoredIsRecorded, NewestStored
  <2>7. RowsInOrder'
    BY <2>1, <2>2, <2>3, <2>4 DEF RowsInOrder
  <2> QED BY <2>5, <2>6, <2>7
<1>4. CASE SaveLast(r)
  <2> DEFINE w == Skip(writer[r])
  <2>1. /\ r = run /\ writer[run].pc = "save" /\ route.resume = "idle"
        /\ writer' = [writer EXCEPT ![r] = w] /\ w.pc = "collect" /\ w.seq = writer[run].seq + 1
        /\ UNCHANGED <<stored, run, log, registry, route, client>>
    BY <1>4, <1>o DEF SaveLast, Skip, WriterStates
  <2>2. \/ task.status = "cancelled" /\ task' = task
        \/ /\ task.status # "cancelled" /\ task'.status = task.status
           /\ task'.last = Max({task.last, writer[run].seq})
    BY <1>4, <2>1 DEF SaveLast
  <2>3. writer[run].seq \in Seqs /\ task.last \in Seqs
    BY <2>1, Consts DEF Shapes
  <2> DEFINE m == Max({task.last, writer[run].seq})
  <2>4. task.last <= m /\ writer[run].seq <= m /\ m \in Int
    BY <2>3, MaxOfTwo, Consts
  <2> HIDE DEF w
  <2>5. writer'[run] = w /\ \A q \in Runs : q # run => writer'[q] = writer[q]
    BY <1>w, <2>1
  <2>6. /\ task'.status = task.status
        /\ task'.last = task.last \/ (task'.last = m /\ task.status # "cancelled")
        /\ task.status # "cancelled" => task'.last = m
    BY <2>2
  <2> HIDE DEF m
  <2>7. task'.last >= task.last /\ task'.last \in Int
    BY <2>4, <2>6
  <2>8. RunsInTurn' /\ StatusOfRun' /\ Resuming'
    BY <2>1, <2>5, <2>6 DEF RunsInTurn, StatusOfRun, Resuming
  <2>9. AnswerNumber' /\ LogOfRun'
    BY <2>1, <2>5, <2>6, <2>7 DEF AnswerNumber, LogOfRun
  <2>10. StoredIsRecorded'
    BY <2>1, <2>4, <2>5, <2>6 DEF StoredIsRecorded, StatusOfRun
  <2>11. NewestStored' /\ RowsInOrder'
    BY <2>1, <2>5 DEF NewestStored, RowsInOrder
  <2> QED BY <2>8, <2>9, <2>10, <2>11
<1>5. CASE Outcome(r)
  <2>1. PICK s \in {"waiting", "ended"} : Settled(r, s)
    BY <1>5 DEF Outcome
  <2> DEFINE w == [writer[r] EXCEPT !.pc = "notify", !.status = s]
  <2>2. /\ r = run /\ writer[run].pc = "collect" /\ route.resume = "idle"
        /\ writer' = [writer EXCEPT ![r] = w] /\ w.pc = "notify"
        /\ task'.last = task.last
        /\ task'.status = (IF task.status = "cancelled" THEN task.status ELSE s)
        /\ UNCHANGED <<stored, run, log, registry, route, client>>
    BY <1>5, <1>o, <2>1, ZenonT(60) DEF Outcome, Settled, WriterStates
  <2> HIDE DEF w
  <2>3. writer'[run] = w /\ \A q \in Runs : q # run => writer'[q] = writer[q]
    BY <1>w, <2>2
  <2>4. RunsInTurn' /\ StatusOfRun' /\ Resuming'
    BY <2>2, <2>3 DEF RunsInTurn, StatusOfRun, Resuming, Closing
  <2>5. AnswerNumber' /\ LogOfRun'
    BY <2>2, <2>3 DEF AnswerNumber, LogOfRun
  <2>6. StoredIsRecorded'
    BY <2>2, <2>3 DEF StoredIsRecorded, StatusOfRun
  <2>7. NewestStored' /\ RowsInOrder'
    BY <2>2, <2>3 DEF NewestStored, RowsInOrder
  <2> QED BY <2>4, <2>5, <2>6, <2>7
<1>6. CASE CloseLog(r)
  <2> DEFINE l == Close(NotifyStatus(log[r], writer[r].status, task.last))
  <2>1. /\ writer[r].pc = "notify" /\ r <= run
        /\ writer' = [writer EXCEPT ![r] = Gone] /\ Gone.pc = "gone"
        /\ log' = [log EXCEPT ![r] = l]
        /\ UNCHANGED <<stored, task, run, registry, route, client>>
    BY <1>6, <1>o DEF CloseLog, Gone, NoWriter
  <2>2. l.rows = log[r].rows /\ (InOrder(log[r]) => InOrder(l))
    BY <2>1, EndFacts, OrderEnd DEF Shapes
  <2> HIDE DEF l
  <2>3. /\ writer'[r].pc = "gone" /\ \A q \in Runs : q # r => writer'[q] = writer[q]
        /\ log'[r] = l /\ \A q \in Runs : q # r => log'[q] = log[q]
    BY <1>w, <2>1
  <2>4. RunsInTurn' /\ StatusOfRun' /\ Resuming' /\ AnswerNumber'
    BY <2>1, <2>3 DEF RunsInTurn, StatusOfRun, Resuming, AnswerNumber
  <2>5. LogOfRun' /\ StoredIsRecorded' /\ NewestStored'
    BY <2>1, <2>3 DEF LogOfRun, StoredIsRecorded, NewestStored
  <2>6. RowsInOrder'
    BY <2>1, <2>2, <2>3 DEF RowsInOrder
  <2> QED BY <2>4, <2>5, <2>6
<1> QED BY <1>1, <1>2, <1>3, <1>4, <1>5, <1>6 DEF WriterStep

LEMMA RouteTask ==
  ASSUME Shapes, TaskInv,
         Spawn \/ Evict \/ ResumeAppend \/ ResumeSave \/ CancelSave \/ CancelNotify \/ Restart
  PROVE  TaskInv'
<1> USE RunFacts DEF TaskInv
<1>1. CASE Spawn
  <2> DEFINE w == [writer[run] EXCEPT !.pc = "collect", !.seq = route.seq + 1]
             l == NotifyStatus(PushPersisted(log[run], route.seq), "running", route.seq)
  <2>1. /\ writer[run].pc = "none" /\ registry' = run
        /\ route.resume = IF run = 1 THEN "idle" ELSE "spawn"
        /\ writer' = [writer EXCEPT ![run] = w]
        /\ w.pc = "collect" /\ w.seq = route.seq + 1
        /\ log' = (IF run = 1 THEN log ELSE [log EXCEPT ![run] = l])
        /\ UNCHANGED <<stored, task, run>>
    BY <1>1 DEF Spawn, WriterStates
  <2>2. /\ route'.resume = "idle" /\ route'.cancel = route.cancel /\ route'.seq = route.seq
        /\ route'.overwrote = route.overwrote
    BY <1>1 DEF Spawn, RouteStates
  <2>3. log[run] = EmptyLog
    BY <2>1 DEF LogOfRun
  <2>4. run # 1 => route.seq \in stored /\ l.rows = {route.seq} /\ InOrder(l)
    <3>1. SUFFICES ASSUME run # 1 PROVE route.seq \in stored /\ l.rows = {route.seq} /\ InOrder(l)
      OBVIOUS
    <3>2. route.seq \in stored /\ route.seq \in 1..MaxSeq /\ route.seq \in Seqs
      BY <2>1, <3>1, Consts DEF Resuming, Shapes
    <3> DEFINE p == PushPersisted(log[run], route.seq)
    <3>3. p \in Logs /\ p.rows = {route.seq} /\ InOrder(p)
      BY <2>3, <3>2, OrderEmpty, OrderPush, PushFacts
    <3> HIDE DEF p
    <3>4. l.rows = {route.seq} /\ InOrder(l)
      <4>1. NotifyStatus(p, "running", route.seq).rows = {route.seq}
            /\ InOrder(NotifyStatus(p, "running", route.seq))
        BY <3>2, <3>3, Consts, NotifyFacts, OrderNotify, ZenonT(60)
      <4> QED BY <4>1 DEF p
    <3> QED BY <3>2, <3>4
  <2> HIDE DEF w, l
  <2>5. /\ writer'[run] = w /\ \A q \in Runs : q # run => writer'[q] = writer[q]
        /\ log'[run] = (IF run = 1 THEN EmptyLog ELSE l) /\ \A q \in Runs : q # run => log'[q] = log[q]
    BY <2>1, <2>3
  <2>6. RunsInTurn' /\ AnswerNumber' /\ Resuming'
    BY <2>1, <2>2, <2>5 DEF RunsInTurn, AnswerNumber, Resuming
  <2>7. StatusOfRun'
    BY <2>1, <2>2, <2>5 DEF StatusOfRun, Resuming
  <2>8. LogOfRun'
    BY <2>1, <2>5 DEF LogOfRun
  <2>9. StoredIsRecorded'
    BY <2>1, <2>2, <2>5 DEF StoredIsRecorded
  <2>10. NewestStored'
    <3>1. \A n \in stored : n < route.seq + 1
      <4>1. CASE run = 1
        BY <2>1, <4>1 DEF AnswerNumber
      <4>2. CASE run # 1
        BY <2>1, <4>2 DEF StoredIsRecorded, Resuming
      <4> QED BY <4>1, <4>2
    <3> QED BY <2>1, <2>5, <3>1 DEF NewestStored
  <2>11. RowsInOrder'
    BY <2>1, <2>4, <2>5, OrderEmpty DEF RowsInOrder
  <2> QED BY <2>6, <2>7, <2>8, <2>9, <2>10, <2>11
<1>2. CASE Evict
  <2>1. registry' = 0 /\ UNCHANGED <<stored, task, run, writer, log, route, client>>
    BY <1>2 DEF Evict
  <2>2. RunsInTurn' /\ StatusOfRun' /\ Resuming' /\ AnswerNumber'
    BY <2>1 DEF RunsInTurn, StatusOfRun, Resuming, AnswerNumber
  <2>3. LogOfRun' /\ StoredIsRecorded' /\ NewestStored' /\ RowsInOrder'
    BY <2>1 DEF LogOfRun, Runs, StoredIsRecorded, NewestStored, RowsInOrder
  <2> QED BY <2>2, <2>3
<1>3. CASE ResumeAppend
  <2>1. /\ task.status = "waiting" /\ route.resume = "idle" /\ client.pc \in {"done", "gaveUp"}
        /\ run < MaxRuns /\ run' = run + 1 /\ stored' = stored \cup {task.last + 1}
        /\ UNCHANGED <<task, writer, log, registry, client>>
    BY <1>3 DEF ResumeAppend
  <2>2. /\ route'.resume = "save" /\ route'.seq = task.last + 1 /\ route'.cancel = route.cancel
        /\ route'.overwrote = route.overwrote
    BY <1>3 DEF ResumeAppend, RouteStates
  <2>3. writer[run].pc \in {"notify", "gone"}
    BY <2>1 DEF StatusOfRun
  <2>4. run + 1 \in Runs /\ writer[run + 1].pc = "none" /\ log[run + 1] = EmptyLog
    BY <2>1, StreamAssumption DEF RunsInTurn, LogOfRun, Runs
  <2>5. RunsInTurn'
    BY <2>1, <2>3 DEF RunsInTurn
  <2>6. StatusOfRun'
    BY <2>1, <2>2, <2>4 DEF StatusOfRun
  <2>7. Resuming'
    BY <2>1, <2>2, <2>4 DEF Resuming, Runs
  <2>8. AnswerNumber'
    BY <2>1, <2>2 DEF AnswerNumber, Runs
  <2>9. LogOfRun' /\ NewestStored'
    BY <2>1, <2>2, <2>4 DEF LogOfRun, NewestStored
  <2>10. StoredIsRecorded'
    BY <2>1, <2>2, <2>3 DEF StoredIsRecorded, AnswerNumber
  <2>11. RowsInOrder'
    BY <2>1, <2>4, OrderEmpty DEF RowsInOrder
  <2> QED BY <2>5, <2>6, <2>7, <2>8, <2>9, <2>10, <2>11
<1>4. CASE ResumeSave
  <2>1. /\ route.resume = "save" /\ UNCHANGED <<stored, run, writer, log, registry, client>>
        /\ task' = [status |-> "running", last |-> Max({task.last, route.seq})]
        /\ route'.resume = "spawn" /\ route'.seq = route.seq /\ route'.cancel = route.cancel
        /\ route'.overwrote = (route.overwrote \/ task.status = "cancelled")
    BY <1>4 DEF ResumeSave, RouteStates
  <2>2. /\ run > 1 /\ writer[run].pc = "none" /\ client.pc \in {"done", "gaveUp"}
        /\ route.seq \in stored /\ route.seq = task.last + 1
        /\ task.status \in {"waiting", "cancelled"}
    BY <2>1 DEF Resuming
  <2>3. task'.status = "running" /\ task'.last = route.seq
    <3>1. route.seq \in Seqs /\ task.last \in Seqs
      BY StreamFields
    <3>2. Max({task.last, route.seq}) = route.seq
      BY <2>2, <3>1, MaxOfTwo
    <3> QED BY <2>1, <3>2
  <2>4. RunsInTurn' /\ StatusOfRun' /\ AnswerNumber'
    BY <2>1, <2>2, <2>3 DEF RunsInTurn, StatusOfRun, AnswerNumber
  <2>5. Resuming'
    BY <2>1, <2>2, <2>3 DEF Resuming
  <2>6. LogOfRun' /\ NewestStored' /\ RowsInOrder'
    BY <2>1 DEF LogOfRun, NewestStored, RowsInOrder
  <2>7. StoredIsRecorded'
    BY <2>1, <2>2, <2>3 DEF StoredIsRecorded
  <2> QED BY <2>4, <2>5, <2>6, <2>7
<1>5. CASE CancelSave
  <2>1. /\ task.status \in {"running", "waiting"}
        /\ task'.status = "cancelled" /\ task'.last = task.last
        /\ UNCHANGED <<stored, run, writer, log, registry, client>>
        /\ route'.resume = route.resume /\ route'.seq = route.seq
        /\ route'.overwrote = route.overwrote
    BY <1>5 DEF CancelSave, RouteStates
  <2>2. RunsInTurn' /\ StatusOfRun' /\ AnswerNumber'
    BY <2>1 DEF RunsInTurn, StatusOfRun, AnswerNumber, Closing
  <2>3. Resuming'
    BY <2>1 DEF Resuming
  <2>4. LogOfRun' /\ NewestStored' /\ RowsInOrder'
    BY <2>1 DEF LogOfRun, NewestStored, RowsInOrder
  <2>5. StoredIsRecorded'
    BY <2>1 DEF StoredIsRecorded
  <2> QED BY <2>2, <2>3, <2>4, <2>5
<1>6. CASE CancelNotify
  <2> DEFINE l == Close(NotifyStatus(log[registry], "cancelled", route.cancelSeq))
  <2>1. /\ log' = (IF registry = 0 THEN log ELSE [log EXCEPT ![registry] = l])
        /\ UNCHANGED <<stored, task, run, writer, registry, client>>
        /\ route'.resume = route.resume /\ route'.seq = route.seq /\ ~route'.cancel
        /\ route'.overwrote = route.overwrote
    BY <1>6 DEF CancelNotify, RouteStates
  <2>2. registry # 0 => /\ registry \in Runs /\ l.rows = log[registry].rows
                        /\ (InOrder(log[registry]) => InOrder(l))
    <3>1. SUFFICES ASSUME registry # 0
                   PROVE /\ registry \in Runs /\ l.rows = log[registry].rows
                         /\ (InOrder(log[registry]) => InOrder(l))
      OBVIOUS
    <3>2. registry \in Runs /\ "cancelled" \in Statuses
      BY <3>1, StreamAssumption DEF Shapes, Runs, Statuses, Closing
    <3>3. log[registry] \in Logs /\ route.cancelSeq \in Seqs
      BY <3>2, StreamFields
    <3> QED BY <3>2, <3>3, EndFacts, OrderEnd
  <2> HIDE DEF l
  <2>3. /\ \A q \in Runs : q # registry => log'[q] = log[q]
        /\ registry # 0 => log'[registry] = l
    BY <2>1, <2>2 DEF Runs
  <2>4. RunsInTurn' /\ StatusOfRun' /\ AnswerNumber' /\ Resuming'
    BY <2>1 DEF RunsInTurn, StatusOfRun, AnswerNumber, Resuming
  <2>5. LogOfRun' /\ StoredIsRecorded' /\ NewestStored'
    BY <2>1, <2>3 DEF LogOfRun, StoredIsRecorded, NewestStored
  <2>6. RowsInOrder'
    <3>1. log'[run].rows = log[run].rows /\ InOrder(log'[run])
      BY <2>2, <2>3 DEF RowsInOrder, Runs
    <3> QED BY <2>1, <3>1 DEF RowsInOrder
  <2> QED BY <2>4, <2>5, <2>6
<1>7. CASE Restart
  <2>1. /\ UNCHANGED <<stored, run>> /\ registry' = 0
        /\ task'.last = task.last
        /\ task'.status = (IF task.status = "running" THEN "interrupted" ELSE task.status)
        /\ \A r \in Runs : /\ writer'[r] = (IF r <= run THEN Gone ELSE writer[r])
                           /\ log'[r] = EmptyLog
        /\ Gone.pc = "gone"
    BY <1>7 DEF Restart, Gone, NoWriter
  <2>2. /\ route'.resume = "idle" /\ ~route'.cancel /\ route'.seq = route.seq
    BY <1>7 DEF Restart, RouteStates
  <2>3. writer'[run].pc = "gone" /\ log'[run] = EmptyLog
    BY <2>1
  <2>4. RunsInTurn'
    BY <2>1 DEF RunsInTurn
  <2>5. StatusOfRun' /\ Resuming'
    BY <2>1, <2>2, <2>3 DEF StatusOfRun, Resuming
  <2>6. AnswerNumber'
    BY <2>1, <2>2, <2>3, Consts DEF AnswerNumber
  <2>7. LogOfRun'
    BY <2>1, Consts DEF LogOfRun, Runs
  <2>8. StoredIsRecorded'
    BY <2>1, <2>2 DEF StoredIsRecorded, StatusOfRun, Resuming, Statuses, Closing
  <2>9. NewestStored' /\ RowsInOrder'
    BY <2>1, <2>3, OrderEmpty DEF NewestStored, RowsInOrder
  <2> QED BY <2>4, <2>5, <2>6, <2>7, <2>8, <2>9
<1> QED BY <1>1, <1>2, <1>3, <1>4, <1>5, <1>6, <1>7

-----------------------------------------------------------------------------
(* What the run and the routes do to a stream that is open.                  *)

\* A log that only got longer, and what its new messages are.
Grown(l, k) ==
    /\ l.rows \subseteq k.rows /\ Len(l.messages) <= Len(k.messages)
    /\ \A i \in 1..Len(l.messages) : k.messages[i] = l.messages[i]

Carries(k, from, n) ==
    \E i \in from..Len(k.messages) : k.messages[i].kind = "event" /\ k.messages[i].seq = n

\* A step that leaves the stream and the browser as they are: a new event is the newest
\* and not pushed yet, and one that is pushed is in the log.
LogMoves ==
    /\ UNCHANGED <<run, stream, client>>
    /\ Grown(log[run], log'[run])
    /\ stored \subseteq stored'
    /\ \A n \in stored' : n \in stored \/ (Unpushed(n)' /\ \A m \in stored : m < n)
    /\ \A n \in Seqs : Unpushed(n) =>
         Unpushed(n)' \/ (n \in log'[run].rows /\ Carries(log'[run], Len(log[run].messages) + 1, n))

LEMMA GrownSame ==
  ASSUME Shapes
  PROVE  Grown(log[run], log[run])
BY RunFacts, ItemTypes DEF Grown

LEMMA GrownPush ==
  ASSUME NEW l \in Logs, NEW n \in 1..MaxSeq
  PROVE  /\ Grown(l, PushPersisted(l, n)) /\ n \in PushPersisted(l, n).rows
         /\ Carries(PushPersisted(l, n), Len(l.messages) + 1, n)
         /\ \A i \in Len(l.messages) + 1..Len(PushPersisted(l, n).messages) :
                PushPersisted(l, n).messages[i].kind # "status"
<1> DEFINE p == PushPersisted(l, n)
<1>1. p.rows = l.rows \cup {n} /\ p.messages = Append(l.messages, Event(n))
  BY PushFacts
<1> HIDE DEF p
<1>2. l.messages \in Seq(Items) /\ Event(n) \in Items
  BY ItemsTyped, Consts DEF Logs
<1>3. /\ Len(l.messages) \in Nat /\ Len(p.messages) = Len(l.messages) + 1
      /\ \A i \in 1..Len(l.messages) : p.messages[i] = l.messages[i]
      /\ p.messages[Len(l.messages) + 1] = Event(n)
  BY <1>1, <1>2, AppendFacts
<1>4. Event(n).seq = n /\ Event(n).kind = "event"
  BY DEF Event
<1>5. Grown(l, p) /\ n \in p.rows
  BY <1>1, <1>3 DEF Grown
<1>6. Carries(p, Len(l.messages) + 1, n)
  <2>1. Len(l.messages) + 1 \in Len(l.messages) + 1..Len(p.messages)
    BY <1>3
  <2> QED BY <1>3, <1>4, <2>1 DEF Carries
<1>7. \A i \in Len(l.messages) + 1..Len(p.messages) : p.messages[i].kind # "status"
  BY <1>3, <1>4
<1> QED BY <1>5, <1>6, <1>7 DEF p

LEMMA GrownEnd ==
  ASSUME NEW l \in Logs, NEW s \in Statuses, NEW n \in Seqs
  PROVE  Grown(l, Close(NotifyStatus(l, s, n)))
<1> DEFINE k == Close(NotifyStatus(l, s, n))
<1>1. /\ k.rows = l.rows /\ Len(k.messages) \in Nat /\ Len(k.messages) > Len(l.messages)
      /\ \A i \in 1..Len(l.messages) : k.messages[i] = l.messages[i]
  BY EndFacts
<1> HIDE DEF k
<1>2. Len(l.messages) \in Nat
  BY DEF Logs
<1>3. Grown(l, k)
  BY <1>1, <1>2 DEF Grown
<1> QED BY <1>3 DEF k

LEMMA WriterMoves ==
  ASSUME Shapes, TaskInv, NEW r \in Runs, WriterStep(r)
  PROVE  LogMoves
<1> USE RunFacts DEF TaskInv
<1>w. ASSUME NEW w, writer' = [writer EXCEPT ![r] = w]
      PROVE  writer'[r] = w /\ \A q \in Runs : q # r => writer'[q] = writer[q]
  BY <1>w
<1>o. writer[r].pc \in {"collect", "push", "save"} => r = run
  BY OnlyLatest
<1>g. Grown(log[run], log[run])
  BY GrownSame
<1>1. CASE AppendEvent(r)
  <2>1. /\ r = run /\ writer[run].pc = "collect" /\ stored' = stored \cup {writer[run].seq}
        /\ writer'[run].pc = "push" /\ writer'[run].seq = writer[run].seq
        /\ UNCHANGED <<run, log, stream, client>>
    BY <1>1, <1>o DEF AppendEvent, WriterStates
  <2>2. \A n \in stored' : n \in stored \/ (Unpushed(n)' /\ \A m \in stored : m < n)
    BY <2>1 DEF Unpushed, NewestStored
  <2> QED BY <1>g, <2>1, <2>2 DEF LogMoves, Unpushed
<1>2. CASE AppendFails(r) \/ Drop(r)
  BY <1>2, <1>g, <1>o DEF AppendFails, Drop, LogMoves, Unpushed
<1>3. CASE Push(r)
  <2> DEFINE l == PushPersisted(log[r], writer[r].seq)
  <2>1. /\ r = run /\ writer[run].pc = "push" /\ log' = [log EXCEPT ![r] = l]
        /\ UNCHANGED <<stored, run, stream, client>>
    BY <1>3, <1>o DEF Push
  <2>2. writer[run].seq \in 1..MaxSeq
    BY <2>1 DEF Shapes
  <2>3. /\ Grown(log[run], l) /\ writer[run].seq \in l.rows
        /\ Carries(l, Len(log[run].messages) + 1, writer[run].seq)
    BY <2>1, <2>2, GrownPush
  <2> HIDE DEF l
  <2>4. log'[run] = l
    BY <2>1
  <2> QED BY <2>1, <2>3, <2>4 DEF LogMoves, Unpushed
<1>4. CASE SaveLast(r)
  BY <1>4, <1>g, <1>o DEF SaveLast, LogMoves, Unpushed
<1>5. CASE Outcome(r)
  BY <1>5, <1>g, <1>o DEF Outcome, Settled, LogMoves, Unpushed
<1>6. CASE CloseLog(r)
  <2> DEFINE l == Close(NotifyStatus(log[r], writer[r].status, task.last))
  <2>1. /\ writer[r].pc = "notify" /\ log' = [log EXCEPT ![r] = l]
        /\ writer' = [writer EXCEPT ![r] = Gone]
        /\ UNCHANGED <<stored, run, stream, client>>
    BY <1>6 DEF CloseLog
  <2>2. Grown(log[r], l)
    BY GrownEnd DEF Shapes
  <2> HIDE DEF l
  <2>3. log'[r] = l /\ \A q \in Runs : q # r => log'[q] = log[q]
    BY <2>1
  <2>4. Grown(log[run], log'[run])
    BY <1>g, <2>2, <2>3
  <2>5. \A n \in Seqs : Unpushed(n) => Unpushed(n)'
    BY <1>w, <2>1 DEF Unpushed
  <2> QED BY <2>1, <2>4, <2>5 DEF LogMoves
<1> QED BY <1>1, <1>2, <1>3, <1>4, <1>5, <1>6 DEF WriterStep

LEMMA RouteMoves ==
  ASSUME Shapes, TaskInv,
         Evict \/ ResumeSave \/ CancelSave \/ CancelNotify \/ (Spawn /\ run = 1)
  PROVE  LogMoves
<1> USE RunFacts DEF TaskInv
<1>g. Grown(log[run], log[run])
  BY GrownSame
<1>1. CASE Evict \/ ResumeSave \/ CancelSave
  BY <1>1, <1>g DEF Evict, ResumeSave, CancelSave, LogMoves, Unpushed
<1>2. CASE Spawn /\ run = 1
  <2>1. writer[run].pc = "none" /\ log' = log /\ stored = {} /\ stored' = {}
        /\ UNCHANGED <<run, stream, client>>
    BY <1>2 DEF Spawn, AnswerNumber
  <2> QED BY <1>g, <2>1 DEF LogMoves, Unpushed
<1>3. CASE CancelNotify
  <2> DEFINE l == Close(NotifyStatus(log[registry], "cancelled", route.cancelSeq))
  <2>1. /\ log' = (IF registry = 0 THEN log ELSE [log EXCEPT ![registry] = l])
        /\ UNCHANGED <<stored, run, writer, stream, client>>
    BY <1>3 DEF CancelNotify
  <2>2. registry # 0 => registry \in Runs /\ Grown(log[registry], l)
    <3>1. SUFFICES ASSUME registry # 0
                   PROVE registry \in Runs /\ Grown(log[registry], l)
      OBVIOUS
    <3>2. registry \in Runs /\ "cancelled" \in Statuses
      BY <3>1, StreamAssumption DEF Shapes, Runs, Statuses, Closing
    <3>3. log[registry] \in Logs /\ route.cancelSeq \in Seqs
      BY <3>2, StreamFields
    <3> QED BY <3>2, <3>3, GrownEnd
  <2> HIDE DEF l
  <2>3. Grown(log[run], log'[run])
    BY <1>g, <2>1, <2>2
  <2> QED BY <2>1, <2>3 DEF LogMoves, Unpushed
<1> QED BY <1>1, <1>2, <1>3

-----------------------------------------------------------------------------
(* The stream belongs to the browser, and cursors are stored.                *)

LEMMA InitWatch == Init => WatchInv /\ StreamInv
<1> SUFFICES ASSUME Init PROVE WatchInv /\ StreamInv
  OBVIOUS
<1>1. /\ stored = {} /\ task.status = "running" /\ run = 1 /\ log[1] = EmptyLog
      /\ stream = NoStream /\ client = Watching
  BY Consts DEF Init
<1>2. /\ stream.pc = "none" /\ stream.log = 0 /\ stream.last = 0 /\ stream.after = 0
      /\ client.pc = "backfill" /\ client.last = 0 /\ ~client.told
  BY <1>1 DEF NoStream, Watching
<1>3. StreamOfClient /\ CursorsAreStored
  BY <1>2 DEF StreamOfClient, CursorsAreStored
<1>4. EndIsTrue /\ CaughtUp
  BY <1>1, <1>2 DEF EndIsTrue, CaughtUp, EmptyLog
<1>5. StreamInv
  BY <1>1, <1>2 DEF StreamInv, ReloadCounts, LiveIsTold, MissesOnlyTheWindow
<1> QED BY <1>3, <1>4, <1>5 DEF WatchInv

LEMMA MovesOfClient ==
  ASSUME Shapes, Shapes', LogMoves, StreamOfClient, CursorsAreStored
  PROVE  StreamOfClient' /\ CursorsAreStored'
<1>1. CursorsAreStored'
  BY DEF LogMoves, CursorsAreStored
<1>2. stream.pc = "live" => stream.pos <= Len(log'[run].messages)
  <2>1. Len(log[run].messages) \in Nat /\ Len(log'[run].messages) \in Nat
    <3>1. run \in Runs /\ run' = run
      BY DEF Shapes, LogMoves
    <3>2. log'[run'] \in Logs
      BY <3>1 DEF Shapes
    <3> QED BY <3>1, <3>2, ItemTypes DEF Logs
  <2> QED BY <2>1, StreamFields DEF LogMoves, Grown, StreamOfClient
<1>3. StreamOfClient'
  BY <1>2 DEF LogMoves, StreamOfClient
<1> QED BY <1>1, <1>3

\* A new answer finds no stream, and a restart ends it.
LEMMA ApartOfClient ==
  ASSUME Shapes, TaskInv, StreamOfClient, CursorsAreStored,
         ResumeAppend \/ Restart \/ (Spawn /\ run # 1)
  PROVE  /\ StreamOfClient' /\ CursorsAreStored'
         /\ stream'.pc \in {"none", "ended"} /\ stream'.last = 0
<1>1. CASE ResumeAppend
  <2>1. client.pc \in {"done", "gaveUp"} /\ UNCHANGED <<stream, client>> /\ stored \subseteq stored'
    BY <1>1 DEF ResumeAppend
  <2>2. stream.pc = "none" /\ stream.log = 0 /\ stream.last = 0 /\ ~client.told
    BY <2>1 DEF StreamOfClient
  <2> QED BY <2>1, <2>2 DEF StreamOfClient, CursorsAreStored
<1>2. CASE Restart
  <2>1. /\ stream' = (IF stream.pc = "none" THEN stream ELSE Ended)
        /\ UNCHANGED <<stored, run, client>>
    BY <1>2 DEF Restart
  <2>2. Ended.pc = "ended" /\ Ended.last = 0 /\ Ended.log = 0 /\ Ended.after = stream.after
    BY DEF Ended, NoStream
  <2> QED BY <2>1, <2>2 DEF StreamOfClient, CursorsAreStored
<1>3. CASE Spawn /\ run # 1
  <2>1. /\ route.resume = "spawn" /\ client' = Watching /\ UNCHANGED <<stored, run, stream>>
    BY <1>3 DEF Spawn
  <2>2. client.pc \in {"done", "gaveUp"}
    BY <2>1 DEF TaskInv, Resuming
  <2>3. stream.pc = "none" /\ stream.log = 0 /\ stream.last = 0
    BY <2>2 DEF StreamOfClient
  <2>4. client'.last = 0 /\ ~client'.told
    BY <2>1 DEF Watching
  <2> QED BY <2>1, <2>3, <2>4 DEF StreamOfClient, CursorsAreStored
<1> QED BY <1>1, <1>2, <1>3

\* What the stream receives is in the log of the latest run.
LEMMA ReceivedOfLog ==
  ASSUME Shapes, StreamOfClient, stream.pc = "live"
  PROVE  Messages = log[run].messages /\ log[stream.log] = log[run] /\ run \in Runs
BY StreamAssumption DEF StreamOfClient, Messages, Shapes, Runs

LEMMA EventIsRow ==
  ASSUME Shapes, TaskInv, StreamOfClient, RecvEvent
  PROVE  Received.seq \in log[run].rows /\ Received.seq \in stored
<1>1. /\ stream.pc = "live" /\ stream.pos < Len(Messages) /\ Received.kind = "event"
      /\ stream.pos + 1 \in 1..Len(Messages)
  BY RecvEventFacts, ReceivedFacts
<1>2. Received = log[run].messages[stream.pos + 1]
      /\ stream.pos + 1 \in 1..Len(log[run].messages)
  BY <1>1, ReceivedOfLog DEF Received
<1> QED BY <1>1, <1>2 DEF TaskInv, RowsInOrder, InOrder

\* A step of the stream that goes on.
LEMMA LiveGoesOn ==
  ASSUME Shapes, TaskInv, StreamOfClient, CursorsAreStored, Aside,
         stream.pc \in {"attach", "live"}, stream'.pc = "live", stream'.log = stream.log,
         stream.log # 0, stream'.pos <= Len(log[run].messages),
         stream'.last \in stored \cup {0}, stream'.after = stream.after,
         client'.pc = client.pc, client'.last \in stored \cup {0}
  PROVE  StreamOfClient' /\ CursorsAreStored'
BY DEF StreamOfClient, CursorsAreStored, Aside

LEMMA ViewOfClient ==
  ASSUME Shapes, TaskInv, StreamOfClient, CursorsAreStored,
         StreamStep \/ StreamLost \/ Keepalive \/ ClientStep \/ BackfillFails
         \/ LastBackfillFails
  PROVE  StreamOfClient' /\ CursorsAreStored'
<1>a. Aside
  BY StreamAside
<1>s. stream \in StreamStates /\ client \in ClientStates
  BY DEF Shapes
<1>e. Ended.pc = "ended" /\ Ended.last = 0 /\ Ended.log = 0 /\ Ended.after = stream.after
  BY DEF Ended, NoStream
<1>n. NoStream.pc = "none" /\ NoStream.last = 0 /\ NoStream.log = 0 /\ NoStream.after = 0
  BY DEF NoStream
<1>1. CASE Reload
  <2>1. /\ stream.pc = "reload" /\ stream'.pc = "attach" /\ stream'.log = stream.log
        /\ stream'.last = stream.last /\ stream'.after = stream.after
        /\ client'.pc = client.pc /\ client'.last = client.last
    BY <1>1, <1>s DEF Reload, StreamStates, ClientStates
  <2> QED BY <1>a, <2>1 DEF StreamOfClient, CursorsAreStored, Aside
<1>2. CASE Attach
  <2>1. stream.pc = "attach"
    BY <1>2 DEF Attach
  <2> DEFINE rows == IF stream.log = 0 THEN {} ELSE log[stream.log].rows
             due == Replay(rows)
  <2>2. rows \subseteq stored /\ rows \in SUBSET (1..MaxSeq)
    BY <1>2, AttachFacts DEF TaskInv, RowsInOrder, StreamOfClient
  <2>3. due \in SUBSET (1..MaxSeq) /\ due \subseteq stored
    BY <2>2, ReplayFacts
  <2> DEFINE missing == stored \cap 1..Max(due \cup {n \in rows : n > stream.seen} \cup {0})
  <2>4. /\ missing \in SUBSET (1..MaxSeq) /\ client' = Shown(due)
        /\ \/ stream' = Ended
           \/ /\ stream.log # 0 /\ stream'.pc = "live"
              /\ stream'.pos = Len(log[stream.log].messages)
              /\ stream'.last = Sent(due, missing).last
              /\ stream'.after = stream.after /\ stream'.log = stream.log
    BY <1>2, AttachFacts
  <2> HIDE DEF missing, due, rows
  <2>5. Sent(due, missing).last \in stored \cup {0}
    BY <2>3, <2>4, SentMoves, SentMax, ZenonT(60) DEF CursorsAreStored
  <2>6. client'.last \in stored \cup {0} /\ client'.pc = client.pc /\ client'.told = client.told
    <3>1. due \in SUBSET Seqs
      BY <2>3, Consts
    <3> QED BY <2>3, <2>4, <3>1, ShownFacts DEF CursorsAreStored
  <2>7. CASE stream' = Ended
    BY <1>a, <1>e, <2>1, <2>6, <2>7 DEF StreamOfClient, CursorsAreStored, Aside
  <2>8. CASE stream'.pc = "live" /\ stream' # Ended
    <3>1. stream.log = run /\ Len(log[run].messages) \in Nat /\ stream'.pos = Len(log[run].messages)
      BY <2>4, <2>8, RunFacts, ItemTypes DEF StreamOfClient
    <3> QED BY <1>a, <2>1, <2>4, <2>5, <2>6, <2>8, <3>1, LiveGoesOn
  <2> QED BY <2>4, <2>7, <2>8
<1>3. CASE RecvEvent
  <2>1. stream.pc = "live" /\ stream'.pos = stream.pos + 1 /\ stream'.pc = "live"
        /\ stream'.log = stream.log /\ stream'.after = stream.after
        /\ stream.pos < Len(Messages)
    BY <1>3, RecvEventFacts
  <2>2. Received.seq \in stored /\ stream.log # 0
    BY <1>3, <2>1, EventIsRow, RunFacts, Consts DEF StreamOfClient, Runs
  <2>3. stream'.last \in stored \cup {0}
    BY <1>3, <2>2, RecvEventFacts DEF CursorsAreStored
  <2>4. PICK D \in SUBSET Seqs : client' = Shown(D) /\ D \subseteq stored
    BY <1>3, <2>2, StreamFields, RecvEventFacts
  <2>5. client'.last \in stored \cup {0} /\ client'.pc = client.pc /\ client'.told = client.told
    BY <2>4, ShownFacts DEF CursorsAreStored
  <2>6. stream'.pos <= Len(log[run].messages)
    BY <2>1, ReceivedOfLog, MessagesFacts, StreamFields
  <2> QED BY <1>a, <2>1, <2>2, <2>3, <2>5, <2>6, LiveGoesOn
<1>4. CASE RecvStatus
  <2>1. stream.pc = "live" /\ stream'.pos = stream.pos + 1 /\ stream'.pc = "live"
        /\ stream'.log = stream.log /\ stream'.after = stream.after /\ stream'.last = stream.last
        /\ stream.pos < Len(Messages)
        /\ client' = [client EXCEPT !.told = client.told \/ Received.status \in Closing]
    BY <1>4, RecvStatusFacts
  <2>2. client'.last = client.last /\ client'.pc = client.pc
    BY <1>s, <2>1 DEF ClientStates
  <2>3. stream'.pos <= Len(log[run].messages) /\ stream.log # 0
    BY <2>1, ReceivedOfLog, MessagesFacts, StreamFields, RunFacts DEF StreamOfClient, Runs
  <2>4. stream'.last \in stored \cup {0} /\ client'.last \in stored \cup {0}
    BY <2>1, <2>2 DEF CursorsAreStored
  <2> QED BY <1>a, <2>1, <2>2, <2>3, <2>4, LiveGoesOn
<1>5. CASE RecvClosed
  <2>1. stream.pc = "live" /\ stream' = Ended /\ client'.pc = client.pc /\ client'.last = client.last
    BY <1>5, <1>s DEF RecvClosed, ClientStates
  <2> QED BY <1>a, <1>e, <2>1 DEF StreamOfClient, CursorsAreStored, Aside
<1>6. CASE RecvLagged
  <2> DEFINE oldest == Len(Messages) - Capacity
             rows == Due(log[stream.log].rows)
             due == IF rows # {} THEN rows ELSE Due(FirstPage(stream.last))
  <2>1. /\ stream.pc = "live" /\ oldest <= Len(Messages)
        /\ due \in SUBSET (1..MaxSeq) /\ due \subseteq log[stream.log].rows \cup stored
        /\ stream'.pc = "live" /\ stream'.pos = oldest
        /\ stream'.log = stream.log /\ stream'.after = stream.after
        /\ stream'.last = Max(due \cup {stream.last}) /\ client' = Shown(due)
    BY <1>6, RecvLaggedFacts
  <2> HIDE DEF due, oldest
  <2>2. due \subseteq stored
    BY <2>1, ReceivedOfLog DEF TaskInv, RowsInOrder
  <2>3. stream'.last \in stored \cup {0}
    BY <2>1, <2>2, SentMax DEF CursorsAreStored
  <2>4. client'.last \in stored \cup {0} /\ client'.pc = client.pc
    <3>1. due \in SUBSET Seqs
      BY <2>1, Consts
    <3> QED BY <2>1, <2>2, <3>1, ShownFacts DEF CursorsAreStored
  <2>5. stream'.pos <= Len(log[run].messages) /\ stream.log # 0
    BY <2>1, ReceivedOfLog, RunFacts DEF StreamOfClient, Runs
  <2> QED BY <1>a, <2>1, <2>3, <2>4, <2>5, LiveGoesOn
<1>7. CASE StreamLost
  <2>1. stream.pc # "none" /\ stream' = Ended /\ client' = client
    BY <1>7 DEF StreamLost
  <2> QED BY <1>a, <1>e, <2>1 DEF StreamOfClient, CursorsAreStored, Aside
<1>8. CASE Keepalive
  <2>1. stream' = stream /\ client'.pc = client.pc /\ client'.last = client.last /\ client.pc = "stream"
    BY <1>8, <1>s DEF Keepalive, ClientStates
  <2> QED BY <1>a, <2>1 DEF StreamOfClient, CursorsAreStored, Aside
<1>9. CASE Backfill \/ LastBackfill
  <2>1. /\ stream' = stream /\ client.pc \in {"backfill", "closing"} /\ client'.pc # "stream"
        /\ client'.told = client.told /\ client'.last = BackfillTo
    BY <1>9, <1>s DEF Backfill, LastBackfill, ClientStates
  <2> QED BY <1>a, <2>1, BackfillFacts DEF StreamOfClient, CursorsAreStored, Aside
<1>10. CASE BackfillFails \/ LastBackfillFails
  <2>1. /\ stream' = stream /\ client.pc \in {"backfill", "closing"} /\ client'.pc # "stream"
        /\ client'.told = client.told /\ client'.last = client.last
    BY <1>10, <1>s DEF BackfillFails, LastBackfillFails, ClientStates
  <2> QED BY <1>a, <2>1 DEF StreamOfClient, CursorsAreStored, Aside
<1>11. CASE Connect \/ Reconnect
  <2>1. PICK n \in {client.last, stream.after} : stream' = Opened(n)
    BY <1>11 DEF Connect, Reconnect
  <2>2. /\ stream'.pc = "reload" /\ stream'.log = registry /\ stream'.after = n /\ stream'.last = n
    BY <2>1 DEF Opened, NoStream
  <2>3. /\ client'.pc = "stream" /\ client.pc \in {"connect", "stream"}
        /\ client'.last = client.last
    BY <1>11, <1>s DEF Connect, Reconnect, ClientStates
  <2>4. registry \in {0, run}
    BY <2>3 DEF TaskInv, LogOfRun, Resuming
  <2> QED BY <1>a, <2>2, <2>3, <2>4 DEF StreamOfClient, CursorsAreStored, Aside
<1>12. CASE Retry
  <2>1. /\ stream' = NoStream /\ client'.last = client.last /\ ~client'.told
    BY <1>12, <1>s DEF Retry, ClientStates
  <2> QED BY <1>a, <1>n, <2>1 DEF StreamOfClient, CursorsAreStored, Aside
<1>13. CASE CloseStream
  <2>1. /\ stream' = NoStream /\ client'.last = client.last /\ ~client'.told
    BY <1>13, <1>s DEF CloseStream, ClientStates
  <2> QED BY <1>a, <1>n, <2>1 DEF StreamOfClient, CursorsAreStored, Aside
<1> QED BY <1>1, <1>2, <1>3, <1>4, <1>5, <1>6, <1>7, <1>8, <1>9, <1>10, <1>11, <1>12, <1>13
        DEF StreamStep, ClientStep

-----------------------------------------------------------------------------
(* A task that is said to have ended has ended.                              *)

\* The end is true in the next state, given what the step does to both sides of it.
LEMMA EndKept ==
  ASSUME EndIsTrue, run' = run, client' = client, route.overwrote => route'.overwrote,
         ~route'.overwrote =>
             /\ task.status \in Closing => task'.status \in Closing
             /\ task.status \notin Closing /\ route.resume = "spawn" =>
                  task'.status \in Closing \/ route'.resume = "spawn"
             /\ \A i \in 1..Len(log'[run].messages) :
                  log'[run].messages[i].kind = "status" /\ log'[run].messages[i].status \in Closing
                    => \/ task'.status \in Closing
                       \/ /\ i \in 1..Len(log[run].messages)
                          /\ log'[run].messages[i] = log[run].messages[i]
  PROVE  EndIsTrue'
BY DEF EndIsTrue

LEMMA WriterEnds ==
  ASSUME Shapes, TaskInv, EndIsTrue, NEW r \in Runs, WriterStep(r)
  PROVE  EndIsTrue'
<1> USE RunFacts DEF TaskInv
<1>1. CASE AppendEvent(r) \/ AppendFails(r) \/ Drop(r)
  <2>1. UNCHANGED <<task, run, log, route, client>>
    BY <1>1 DEF AppendEvent, AppendFails, Drop
  <2> QED BY <2>1 DEF EndIsTrue
<1>2. CASE Push(r)
  <2> DEFINE l == PushPersisted(log[r], writer[r].seq)
  <2>1. /\ r = run /\ writer[run].pc = "push" /\ log' = [log EXCEPT ![r] = l]
        /\ UNCHANGED <<task, run, route, client>>
    BY <1>2, OnlyLatest DEF Push
  <2>2. writer[run].seq \in 1..MaxSeq
    BY <2>1 DEF Shapes
  <2>3. /\ Grown(log[run], l)
        /\ \A i \in Len(log[run].messages) + 1..Len(l.messages) : l.messages[i].kind # "status"
    BY <2>1, <2>2, GrownPush
  <2>4. Len(log[run].messages) \in Nat /\ Len(l.messages) \in Nat
    BY <2>1, <2>2, PushFacts DEF Logs
  <2> HIDE DEF l
  <2>5. log'[run] = l
    BY <2>1
  <2>6. \A i \in 1..Len(l.messages) :
           \/ i \in Len(log[run].messages) + 1..Len(l.messages)
           \/ i \in 1..Len(log[run].messages) /\ l.messages[i] = log[run].messages[i]
    BY <2>3, <2>4 DEF Grown
  <2> QED BY <2>1, <2>3, <2>5, <2>6, EndKept
<1>3. CASE SaveLast(r)
  <2>1. UNCHANGED <<run, log, route, client>> /\ task'.status = task.status
    BY <1>3 DEF SaveLast
  <2> QED BY <2>1 DEF EndIsTrue
<1>4. CASE Outcome(r)
  <2>1. UNCHANGED <<run, log, route, client>> /\ task'.status \in Closing
    BY <1>4 DEF Outcome, Settled, Closing
  <2> QED BY <2>1 DEF EndIsTrue
<1>5. CASE CloseLog(r)
  <2> DEFINE l == Close(NotifyStatus(log[r], writer[r].status, task.last))
  <2>1. /\ writer[r].pc = "notify" /\ log' = [log EXCEPT ![r] = l]
        /\ UNCHANGED <<task, run, route, client>>
    BY <1>5 DEF CloseLog
  <2> HIDE DEF l
  <2>3. log'[r] = l /\ (r # run => log'[run] = log[run])
    BY <2>1
  <2>4. CASE r = run
    <3>1. task.status \in Closing
      BY <2>1, <2>4 DEF StatusOfRun
    <3> QED BY <2>1, <3>1, EndKept
  <2>5. CASE r # run
    BY <2>1, <2>3, <2>5 DEF EndIsTrue
  <2> QED BY <2>4, <2>5
<1> QED BY <1>1, <1>2, <1>3, <1>4, <1>5 DEF WriterStep

LEMMA RouteEnds ==
  ASSUME Shapes, TaskInv, EndIsTrue, StreamOfClient,
         Spawn \/ Evict \/ ResumeAppend \/ ResumeSave \/ CancelSave \/ CancelNotify \/ Restart
  PROVE  EndIsTrue'
<1> USE RunFacts DEF TaskInv
<1>0. Len(EmptyLog.messages) = 0
  BY DEF EmptyLog
<1>1. CASE Spawn
  <2>1. UNCHANGED <<task, run>> /\ writer[run].pc = "none"
        /\ route'.overwrote = route.overwrote
    BY <1>1 DEF Spawn, RouteStates
  <2>2. CASE run = 1
    <3>1. UNCHANGED <<log, client>> /\ route.resume = "idle"
      BY <1>1, <2>2 DEF Spawn
    <3> QED BY <2>1, <3>1 DEF EndIsTrue
  <2>3. CASE run # 1
    <3> DEFINE p == PushPersisted(log[run], route.seq)
               l == NotifyStatus(p, "running", route.seq)
    <3>1. route.resume = "spawn" /\ client' = Watching /\ log' = [log EXCEPT ![run] = l]
      BY <1>1, <2>3 DEF Spawn
    <3>2. route.seq \in 1..MaxSeq /\ route.seq \in Seqs /\ log[run] = EmptyLog
      BY <2>1, <3>1, Consts DEF Resuming, Shapes, LogOfRun
    <3>3. p \in Logs /\ p.messages = Append(<<>>, Event(route.seq))
      <4>1. p \in Logs /\ p.messages = Append(log[run].messages, Event(route.seq))
        BY <3>2, PushFacts
      <4>2. log[run].messages = <<>>
        BY <3>2 DEF EmptyLog
      <4> QED BY <4>1, <4>2
    <3>4. l.messages = Append(p.messages, Status("running", route.seq))
      BY <3>2, <3>3, Consts, NotifyFacts
    <3>5. \A i \in 1..Len(l.messages) :
             l.messages[i] \in {Event(route.seq), Status("running", route.seq)}
      <4>1. Event(route.seq) \in Items /\ Status("running", route.seq) \in Items
        BY <3>2, ItemsTyped, Consts
      <4>2. p.messages = <<Event(route.seq)>>
        BY <3>3
      <4> HIDE DEF p, l
      <4> QED BY <3>4, <4>1, <4>2
    <3> HIDE DEF l
    <3>6. \A i \in 1..Len(log'[run].messages) :
             ~(log'[run].messages[i].kind = "status" /\ log'[run].messages[i].status \in Closing)
      <4>1. log'[run] = l
        BY <3>1
      <4> QED BY <3>5, <4>1, Consts, SMTT(30) DEF Event, Status
    <3>7. client'.pc = "backfill" /\ ~client'.told
      BY <3>1 DEF Watching
    <3> QED BY <2>1, <3>6, <3>7 DEF EndIsTrue
  <2> QED BY <2>2, <2>3
<1>2. CASE Evict
  BY <1>2 DEF Evict, EndIsTrue
<1>3. CASE ResumeAppend
  <2>1. /\ task.status = "waiting" /\ run' = run + 1 /\ run < MaxRuns /\ UNCHANGED <<task, log, client>>
    BY <1>3 DEF ResumeAppend
  <2>2. log'[run'] = EmptyLog
    BY <2>1, StreamAssumption DEF RunsInTurn, LogOfRun, Runs
  <2> QED BY <1>0, <2>1, <2>2 DEF EndIsTrue, Closing
<1>4. CASE ResumeSave
  <2>1. /\ route.resume = "save" /\ UNCHANGED <<run, log, client>>
        /\ route'.resume = "spawn"
    BY <1>4 DEF ResumeSave, RouteStates
  <2>2. log[run] = EmptyLog
    BY <2>1 DEF Resuming, LogOfRun
  <2> QED BY <1>0, <2>1, <2>2 DEF EndIsTrue
<1>5. CASE CancelSave
  <2>1. UNCHANGED <<run, log, client>> /\ task'.status \in Closing
    BY <1>5 DEF CancelSave, Closing
  <2> QED BY <2>1 DEF EndIsTrue
<1>6. CASE CancelNotify
  <2>1. /\ route.cancel /\ UNCHANGED <<task, run, client>>
        /\ route'.resume = route.resume /\ route'.overwrote = route.overwrote
    BY <1>6 DEF CancelNotify, RouteStates
  <2>2. task.status \in Closing \/ route.overwrote
    BY <2>1 DEF Resuming, Closing
  <2> QED BY <2>1, <2>2, EndKept
<1>7. CASE Restart
  <2>1. /\ UNCHANGED <<run, client>> /\ log'[run] = EmptyLog
        /\ task'.status = (IF task.status = "running" THEN "interrupted" ELSE task.status)
    BY <1>7 DEF Restart
  <2>2. task'.status \in Closing
    BY <2>1 DEF Statuses, Closing
  <2> QED BY <1>0, <2>1, <2>2 DEF EndIsTrue
<1> QED BY <1>1, <1>2, <1>3, <1>4, <1>5, <1>6, <1>7

LEMMA ViewEnds ==
  ASSUME Shapes, TaskInv, EndIsTrue, StreamOfClient,
         StreamStep \/ StreamLost \/ Keepalive \/ ClientStep \/ BackfillFails
         \/ LastBackfillFails
  PROVE  EndIsTrue'
<1>a. Aside
  BY StreamAside
<1>s. client \in ClientStates
  BY DEF Shapes
<1>k. ASSUME client'.told => client.told \/ task.status \in Closing \/ route.overwrote,
             client'.pc \in {"closing", "done"} =>
                 client.pc \in {"closing", "done"} \/ client.told \/ task.status \in Closing
      PROVE  EndIsTrue'
  BY <1>a, <1>k DEF EndIsTrue, Aside
<1>1. CASE Reload \/ RecvClosed \/ Keepalive
  <2>1. client'.told = (client.told \/ task.status \in Closing) /\ client'.pc = client.pc
    BY <1>1, <1>s DEF Reload, RecvClosed, Keepalive, ClientStates
  <2> QED BY <1>k, <2>1
<1>2. CASE Attach \/ RecvEvent \/ RecvLagged
  <2>1. PICK D \in SUBSET Seqs : client' = Shown(D)
    <3>1. CASE Attach \/ RecvLagged
      <4>1. PICK D \in SUBSET (1..MaxSeq) : client' = Shown(D)
        BY <3>1, AttachFacts, RecvLaggedFacts
      <4> QED BY <4>1, Consts
    <3>2. CASE RecvEvent
      <4>1. Received.seq \in Seqs
        BY <3>2, RecvEventFacts, ReceivedFacts
      <4> QED BY <3>2, <4>1, RecvEventFacts
    <3> QED BY <1>2, <3>1, <3>2
  <2> QED BY <1>k, <2>1, ShownFacts
<1>3. CASE RecvStatus
  <2>1. /\ stream.pc = "live" /\ stream.pos < Len(Messages) /\ Received.kind = "status"
        /\ stream.pos + 1 \in 1..Len(Messages)
        /\ client' = [client EXCEPT !.told = client.told \/ Received.status \in Closing]
    BY <1>3, RecvStatusFacts, ReceivedFacts
  <2>2. Received = log[run].messages[stream.pos + 1]
        /\ stream.pos + 1 \in 1..Len(log[run].messages)
    BY <2>1, ReceivedOfLog DEF Received
  <2>3. Received.status \in Closing => task.status \in Closing \/ route.overwrote
    BY <2>1, <2>2 DEF EndIsTrue
  <2>4. client'.told = (client.told \/ Received.status \in Closing) /\ client'.pc = client.pc
    BY <2>1, <1>s DEF ClientStates
  <2> QED BY <1>k, <2>3, <2>4
<1>4. CASE StreamLost
  BY <1>4, <1>k DEF StreamLost
<1>5. CASE Backfill
  <2>1. client'.told = client.told /\ (client'.pc = "done" => task.status = "ended")
        /\ client'.pc \in {"connect", "done"}
    BY <1>5, <1>s DEF Backfill, ClientStates
  <2> QED BY <1>k, <2>1 DEF Closing
<1>6. CASE BackfillFails \/ Connect \/ Reconnect \/ Retry
  <2>1. client'.told = client.told /\ client'.pc \notin {"closing", "done"}
    BY <1>6, <1>s DEF BackfillFails, Connect, Reconnect, Retry, ClientStates
  <2> QED BY <1>k, <2>1
<1>7. CASE CloseStream \/ LastBackfill \/ LastBackfillFails
  <2>1. (client'.told => client.told) /\ (client.told \/ client.pc = "closing")
    BY <1>7, <1>s DEF CloseStream, LastBackfill, LastBackfillFails, ClientStates
  <2> QED BY <1>k, <2>1
<1> QED BY <1>1, <1>2, <1>3, <1>4, <1>5, <1>6, <1>7 DEF StreamStep, ClientStep

-----------------------------------------------------------------------------
(* A browser that has finished has caught up.                                *)

LEMMA CaughtKept ==
  ASSUME CaughtUp, client' = client, route'.overwrote = route.overwrote,
         task'.status \in {"ended", "waiting"} =>
             /\ task.status = task'.status /\ stored' = stored /\ route'.seq = route.seq
             /\ task'.last = task.last
  PROVE  CaughtUp'
BY DEF CaughtUp

LEMMA WriterCaught ==
  ASSUME Shapes, TaskInv, EndIsTrue, CaughtUp, NEW r \in Runs, WriterStep(r)
  PROVE  CaughtUp'
<1> USE RunFacts DEF TaskInv
<1>o. /\ UNCHANGED <<route, client>>
      /\ writer[r].pc \in {"collect", "push", "save"} =>
           /\ r = run /\ route.resume = "idle"
           /\ task.status \in {"running", "cancelled"}
  BY OnlyLatest DEF Resuming, StatusOfRun, Statuses, Closing, WriterStep, AppendEvent, AppendFails,
     Drop, Push, SaveLast, Outcome, Settled, CloseLog
<1>1. CASE AppendEvent(r) \/ SaveLast(r)
  <2>1. task'.status = task.status /\ task.status \notin {"ended", "waiting"}
    BY <1>1, <1>o DEF AppendEvent, SaveLast
  <2> QED BY <1>o, <2>1, CaughtKept
<1>2. CASE AppendFails(r) \/ Drop(r) \/ Push(r) \/ CloseLog(r)
  <2>1. UNCHANGED <<stored, task>>
    BY <1>2 DEF AppendFails, Drop, Push, CloseLog
  <2> QED BY <1>o, <2>1, CaughtKept
<1>3. CASE Outcome(r)
  <2>1. r = run /\ route.resume = "idle" /\ task.status \in {"running", "cancelled"}
    BY <1>3, <1>o DEF Outcome
  <2>2. task.status = "cancelled" => task' = task /\ stored' = stored
    BY <1>3 DEF Outcome, Settled
  <2>3. task.status = "running" => client.pc # "done" \/ route.overwrote
    BY <2>1 DEF EndIsTrue, Closing
  <2> QED BY <1>o, <2>1, <2>2, <2>3 DEF CaughtUp
<1> QED BY <1>1, <1>2, <1>3 DEF WriterStep

LEMMA RouteCaught ==
  ASSUME Shapes, TaskInv, CaughtUp,
         Spawn \/ Evict \/ ResumeAppend \/ ResumeSave \/ CancelSave \/ CancelNotify \/ Restart
  PROVE  CaughtUp'
<1> USE RunFacts DEF TaskInv
<1>1. CASE Spawn
  <2>1. /\ UNCHANGED <<stored, task>> /\ route'.overwrote = route.overwrote
        /\ route'.seq = route.seq /\ client' \in {client, Watching}
    BY <1>1 DEF Spawn, RouteStates
  <2>2. Watching.pc = "backfill"
    BY DEF Watching
  <2> QED BY <2>1, <2>2 DEF CaughtUp
<1>2. CASE Evict
  BY <1>2, CaughtKept DEF Evict
<1>3. CASE ResumeAppend
  <2>1. /\ task.status = "waiting" /\ stored' = stored \cup {task.last + 1}
        /\ UNCHANGED <<task, client>> /\ route'.seq = task.last + 1
        /\ route'.overwrote = route.overwrote
    BY <1>3 DEF ResumeAppend, RouteStates
  <2>2. \A n \in stored : n = route.seq /\ n > task.last => n = task.last + 1
    BY DEF AnswerNumber
  <2> QED BY <2>1, <2>2 DEF CaughtUp
<1>4. CASE ResumeSave
  BY <1>4 DEF ResumeSave, CaughtUp
<1>5. CASE CancelSave
  <2>1. task'.status = "cancelled"
    BY <1>5 DEF CancelSave
  <2> QED BY <2>1 DEF CaughtUp
<1>6. CASE CancelNotify
  <2>1. /\ UNCHANGED <<stored, task, client>> /\ route'.overwrote = route.overwrote
        /\ route'.seq = route.seq
    BY <1>6 DEF CancelNotify, RouteStates
  <2> QED BY <2>1, CaughtKept
<1>7. CASE Restart
  <2>1. /\ UNCHANGED <<stored, client>> /\ route'.overwrote = route.overwrote
        /\ route'.seq = route.seq /\ task'.last = task.last
        /\ task'.status = (IF task.status = "running" THEN "interrupted" ELSE task.status)
    BY <1>7 DEF Restart, RouteStates
  <2> QED BY <2>1, CaughtKept
<1> QED BY <1>1, <1>2, <1>3, <1>4, <1>5, <1>6, <1>7

\* What a backfill brings when the task has ended.
LEMMA BackfillCatches ==
  ASSUME Shapes, TaskInv, task.status \in {"ended", "waiting"},
         client.pc \in {"backfill", "closing"}
  PROVE  \A n \in stored : n <= BackfillTo \/ (n = route.seq /\ n > task.last)
<1> USE DEF TaskInv
<1>1. route.resume = "idle" /\ writer[run].pc \in {"notify", "gone"}
  BY DEF Resuming, StatusOfRun
<1>2. \A n \in stored : n <= task.last \/ n = route.seq
  BY <1>1 DEF StoredIsRecorded
<1>3. /\ client.last \in Int /\ task.last \in Int /\ stored \in SUBSET Int
      /\ BackfillTo \in Int /\ route.seq \in Int
  BY RunFacts, StreamFields, Consts, BackfillFacts
<1>4. CASE client.last < task.last
  BY <1>4, BackfillFacts
<1>5. CASE client.last >= task.last
  <2>1. BackfillTo = client.last
    BY <1>5, BackfillFacts
  <2> QED BY <1>2, <1>3, <1>5, <2>1
<1> QED BY <1>3, <1>4, <1>5

LEMMA ViewCaught ==
  ASSUME Shapes, TaskInv, StreamOfClient, CaughtUp,
         StreamStep \/ StreamLost \/ Keepalive \/ ClientStep \/ BackfillFails
         \/ LastBackfillFails
  PROVE  CaughtUp'
<1>a. Aside
  BY StreamAside
<1>s. client \in ClientStates
  BY DEF Shapes
<1>1. CASE StreamStep \/ StreamLost \/ Keepalive
  <2>1. client.pc = "stream"
    BY <1>1 DEF StreamStep, Reload, Attach, RecvEvent, RecvStatus, RecvClosed, RecvLagged,
                StreamLost, Keepalive, StreamOfClient
  <2>2. client'.pc = client.pc
    BY <1>1, <1>s DEF StreamStep, Reload, Attach, RecvEvent, RecvStatus, RecvClosed, RecvLagged,
                      StreamLost, Keepalive, ClientStates, Shown
  <2> QED BY <2>1, <2>2 DEF CaughtUp
<1>2. CASE Backfill \/ LastBackfill
  <2>1. /\ client.pc \in {"backfill", "closing"} /\ client'.last = BackfillTo
    BY <1>2, <1>s DEF Backfill, LastBackfill, ClientStates
  <2>2. task.status \in {"ended", "waiting"} =>
            \A n \in stored : n <= client'.last \/ (n = route.seq /\ n > task.last)
    BY <2>1, BackfillCatches
  <2> QED BY <1>a, <2>2 DEF CaughtUp, Aside
<1>3. CASE Connect \/ Reconnect \/ Retry \/ CloseStream \/ BackfillFails
  <2>1. client'.pc # "done"
    BY <1>3, <1>s DEF Connect, Reconnect, Retry, CloseStream, BackfillFails, ClientStates
  <2> QED BY <2>1 DEF CaughtUp
<1>4. CASE LastBackfillFails
  <2>1. client'.error
    BY <1>4, <1>s DEF LastBackfillFails, ClientStates
  <2> QED BY <2>1 DEF CaughtUp
<1> QED BY <1>1, <1>2, <1>3, <1>4 DEF ClientStep

-----------------------------------------------------------------------------
(* What the stream misses.                                                   *)

LEMMA MovesOfStream ==
  ASSUME Shapes, Shapes', TaskInv, StreamOfClient, CursorsAreStored, StreamInv, LogMoves
  PROVE  StreamInv'
<1> USE DEF StreamInv
<1>1. /\ UNCHANGED <<run, stream>> /\ Grown(log[run], log'[run])
      /\ \A n \in stored' : n \in stored \/ (Unpushed(n)' /\ \A m \in stored : m < n)
      /\ \A n \in Seqs : Unpushed(n) =>
           Unpushed(n)' \/ (n \in log'[run].rows
                            /\ Carries(log'[run], Len(log[run].messages) + 1, n))
  BY DEF LogMoves
<1>2. stored \in SUBSET Seqs /\ stored' \in SUBSET (1..MaxSeq)
  BY StreamFields DEF Shapes
<1>3. /\ Len(log[run].messages) \in Nat /\ Len(log'[run].messages) \in Nat
      /\ stream.pos \in Nat
  <2>1. run \in Runs /\ run' = run
    BY <1>1 DEF Shapes
  <2>2. log'[run] \in Logs
    BY <1>1, <2>1 DEF Shapes
  <2> QED BY <2>1, <2>2, StreamFields, ItemTypes DEF Logs
<1>4. ReloadCounts'
  <2>1. SUFFICES ASSUME stream.pc = "attach", stream.status \notin Closing, stream.log # 0,
                        NEW n \in stored'
                 PROVE  n <= stream.seen \/ n \in log'[run].rows \/ Unpushed(n)'
    BY <1>1 DEF ReloadCounts
  <2>2. CASE n \in stored
    BY <1>1, <1>2, <2>1, <2>2 DEF ReloadCounts, Grown
  <2>3. CASE n \notin stored
    BY <1>1, <2>1, <2>3
  <2> QED BY <2>2, <2>3
<1>5. LiveIsTold'
  <2>1. SUFFICES ASSUME stream.pc = "live", NEW n \in stored'
                 PROVE  n <= stream.last \/ n \in stream.missed \/ Unpushed(n)' \/ Ahead(n)'
    BY <1>1 DEF LiveIsTold
  <2>2. ASSUME Carries(log'[run], Len(log[run].messages) + 1, n)
        PROVE  Ahead(n)'
    <3>1. PICK i \in Len(log[run].messages) + 1..Len(log'[run].messages) :
              log'[run].messages[i].kind = "event" /\ log'[run].messages[i].seq = n
      BY <2>2 DEF Carries
    <3>2. stream.pos <= Len(log[run].messages)
      BY <2>1 DEF StreamOfClient
    <3>3. i \in stream.pos + 1..Len(log'[run].messages)
      BY <1>3, <3>1, <3>2
    <3> QED BY <1>1, <3>1, <3>3 DEF Ahead
  <2>3. ASSUME Ahead(n)
        PROVE  Ahead(n)'
    <3>1. PICK i \in stream.pos + 1..Len(log[run].messages) :
              log[run].messages[i].kind = "event" /\ log[run].messages[i].seq = n
      BY <2>3 DEF Ahead
    <3>2. i \in 1..Len(log[run].messages) /\ i \in stream.pos + 1..Len(log'[run].messages)
      BY <1>1, <1>3, <3>1 DEF Grown
    <3>3. log'[run].messages[i] = log[run].messages[i]
      BY <1>1, <3>2 DEF Grown
    <3> QED BY <1>1, <3>1, <3>2, <3>3 DEF Ahead
  <2>4. CASE n \in stored
    BY <1>1, <1>2, <2>1, <2>2, <2>3, <2>4 DEF LiveIsTold
  <2>5. CASE n \notin stored
    BY <1>1, <2>5
  <2> QED BY <2>4, <2>5
<1>6. MissesOnlyTheWindow'
  <2>1. SUFFICES ASSUME NEW n \in stored', stream.after < n, n <= stream.last
                 PROVE  n \in stream.sent \cup stream.missed
    BY <1>1 DEF MissesOnlyTheWindow
  <2>2. n \in stored
    <3>1. SUFFICES ASSUME n \notin stored PROVE FALSE
      OBVIOUS
    <3>2. \A m \in stored : m < n
      BY <1>1, <3>1
    <3>3. stream.last \in stored \/ stream.last = 0
      BY DEF CursorsAreStored
    <3>4. stream.last \in Int
      BY StreamFields, Consts
    <3>5. n \in Int /\ n > 0
      BY <1>2, <2>1
    <3> QED BY <2>1, <3>2, <3>3, <3>4, <3>5
  <2> QED BY <2>1, <2>2 DEF MissesOnlyTheWindow
<1> QED BY <1>4, <1>5, <1>6

\* With no stream, or one that has ended, there is nothing to miss.
LEMMA ApartOfStream ==
  ASSUME Shapes', stream'.pc \in {"none", "ended"}, stream'.last = 0
  PROVE  StreamInv'
<1>1. \A n \in stored' : n \in Int /\ n > 0
  BY Consts DEF Shapes
<1> QED BY <1>1 DEF StreamInv, ReloadCounts, LiveIsTold, MissesOnlyTheWindow

LEMMA ReloadCountsAll ==
  ASSUME Shapes, TaskInv, StreamOfClient, Reload
  PROVE  StreamInv'
<1> USE DEF TaskInv
<1>1. /\ stream.pc = "reload" /\ stream'.pc = "attach" /\ stream'.status = task.status
      /\ stream'.seen = task.last /\ stream'.log = stream.log
      /\ stream'.last = stream.last /\ stream'.after = stream.after
      /\ UNCHANGED <<stored, run, writer, log>>
  BY DEF Reload, Shapes, StreamStates
<1>2. ReloadCounts'
  <2>1. SUFFICES ASSUME task.status \notin Closing, NEW n \in stored
                 PROVE  n <= task.last \/ n \in log[run].rows \/ Unpushed(n)
    BY <1>1 DEF ReloadCounts, Unpushed
  <2>2. task.status = "running"
    BY <2>1, StreamFields DEF Statuses
  <2>3. route.seq <= task.last
    BY <2>2 DEF AnswerNumber
  <2>4. n <= task.last \/ n = route.seq
        \/ (writer[run].pc \in {"push", "save"} /\ n = writer[run].seq)
    BY <2>1, <2>2 DEF StoredIsRecorded
  <2> QED BY <2>3, <2>4 DEF RowsInOrder, Unpushed
<1>3. stream.last = stream.after /\ stream.last \in Int /\ stored \in SUBSET Int
  BY <1>1, RunFacts, StreamFields, Consts DEF StreamOfClient
<1> QED BY <1>1, <1>2, <1>3 DEF StreamInv, LiveIsTold, MissesOnlyTheWindow

\* The subscription: what is in the log and not replayed counts as missed.
LEMMA AttachMisses ==
  ASSUME Shapes, Shapes', TaskInv, StreamOfClient, StreamInv, Attach
  PROVE  StreamInv'
<1> DEFINE rows == IF stream.log = 0 THEN {} ELSE log[stream.log].rows
           due == Replay(rows)
           late == {n \in rows : n > stream.seen}
           top == Max(due \cup late \cup {0})
           missing == stored \cap 1..top
           last == Max(due \cup {stream.last})
<1>1. /\ stream.pc = "attach" /\ UNCHANGED <<stored, run, writer, log>>
      /\ rows \in SUBSET (1..MaxSeq) /\ due \in SUBSET (1..MaxSeq)
      /\ missing \in SUBSET (1..MaxSeq)
      /\ \A n \in due \cup late : n <= top
      /\ \/ stream' = Ended
         \/ /\ stream.status \notin Closing /\ stream.log # 0
            /\ stream'.pc = "live"
            /\ stream'.pos = Len(log[stream.log].messages)
            /\ stream'.sent = Sent(due, missing).sent
            /\ stream'.last = Sent(due, missing).last
            /\ stream'.missed = Sent(due, missing).missed
            /\ stream'.after = stream.after
  <2>1. stream.pc = "attach" /\ UNCHANGED <<stored, run, writer, log>>
    BY DEF Attach
  <2> QED BY <2>1, AttachFacts
<1>2. CASE stream' = Ended
  BY <1>2, ApartOfStream DEF Ended, NoStream
<1>3. CASE stream' # Ended
  <2>1. stream.log = run /\ rows = log[run].rows /\ stream.last = stream.after
    BY <1>1, <1>3, RunFacts, Consts DEF StreamOfClient, Runs
  <2>2. /\ last \in due \cup {stream.last} /\ last \in Seqs
        /\ \A n \in due \cup {stream.last} : n <= last
    BY <1>1, SentMax
  <2>3. /\ Sent(due, missing).sent = stream.sent \cup due /\ Sent(due, missing).last = last
        /\ Sent(due, missing).missed =
             stream.missed \cup {n \in missing : n > stream.last /\ n \notin due}
    BY <1>1, SentMoves, ZenonT(60)
  <2>4. \A n \in stored : stream.last < n /\ n <= stream.seen =>
            n \in due \/ \E x \in due : n < x
    BY <1>1, ReplayFacts
  <2>5. \A n \in stored : n <= stream.seen \/ n \in rows \/ Unpushed(n)
    BY <1>1, <1>3, <2>1 DEF StreamInv, ReloadCounts
  <2>6. /\ stored \in SUBSET (1..MaxSeq) /\ stream.last \in Int /\ last \in Int
        /\ stored \in SUBSET Int /\ stream.seen \in Int /\ due \in SUBSET Int
    BY <1>1, <2>2, StreamFields, RunFacts, Consts DEF Shapes
  <2>7. missing = {n \in stored : n <= top}
    <3>1. \A n \in stored : n >= 1 /\ n \in Int
      BY <2>6
    <3>2. due \cup late \cup {0} \in SUBSET Seqs
      BY <1>1, Consts
    <3>3. top \in Int
      <4> HIDE DEF due, late
      <4> QED BY <3>2, MaxOfSeqs, Consts
    <3> HIDE DEF top
    <3> QED BY <3>1, <3>3
  <2>8. late = {n \in rows : n > stream.seen}
    OBVIOUS
  <2>9. /\ stream'.pc = "live" /\ stream'.pos = Len(log[run].messages)
        /\ stream'.sent = stream.sent \cup due /\ stream'.last = last
        /\ stream'.missed = stream.missed \cup {n \in missing : n > stream.last /\ n \notin due}
        /\ stream'.after = stream.last
    BY <1>1, <1>3, <2>1, <2>3
  <2>a. \A n \in due \cup late : n <= top
    BY <1>1
  <2> HIDE DEF rows, due, late, top, missing, last
  <2>10. ReloadCounts'
    BY <2>9 DEF ReloadCounts
  <2>11. LiveIsTold'
    <3>1. SUFFICES ASSUME NEW n \in stored
                   PROVE  n <= last \/ n \in stream'.missed \/ Unpushed(n)
      BY <1>1, <2>9 DEF LiveIsTold, Unpushed
    <3>2. CASE n <= stream.last
      BY <2>2, <2>6, <3>2
    <3>3. CASE n > stream.last /\ n <= stream.seen
      BY <2>2, <2>4, <2>6, <3>3
    <3>4. CASE n > stream.last /\ n > stream.seen
      <4>1. n \in late \/ Unpushed(n)
        BY <2>5, <2>6, <2>8, <3>4
      <4>2. n \in late => n \in missing
        BY <2>a, <2>7
      <4>3. n \in due => n <= last
        BY <2>2
      <4> QED BY <2>9, <3>4, <4>1, <4>2, <4>3
    <3> QED BY <2>6, <3>2, <3>3, <3>4
  <2>12. MissesOnlyTheWindow'
    <3>1. SUFFICES ASSUME NEW n \in stored, stream.last < n, n <= last
                   PROVE  n \in stream'.sent \cup stream'.missed
      BY <1>1, <2>9 DEF MissesOnlyTheWindow
    <3>2. last \in due
      BY <2>2, <2>6, <3>1
    <3>3. n <= top
      <4>1. last <= top
        BY <2>a, <3>2
      <4>2. top \in Int
        <5>1. due \cup late \cup {0} \in SUBSET Seqs
          BY <1>1, <2>6, Consts DEF due, late
        <5> QED BY <5>1, MaxOfSeqs, Consts DEF top
      <4> QED BY <2>6, <3>1, <4>1, <4>2
    <3> QED BY <2>7, <2>9, <3>1, <3>3
  <2> QED BY <2>10, <2>11, <2>12 DEF StreamInv
<1> QED BY <1>2, <1>3

\* A message: the events before it were sent or counted, those after it come later.
LEMMA EventMisses ==
  ASSUME Shapes, Shapes', TaskInv, StreamOfClient, StreamInv, RecvEvent
  PROVE  StreamInv'
<1> USE DEF TaskInv
<1> DEFINE e == Received.seq
           at == stream.pos + 1
<1>1. /\ stream.pc = "live" /\ stream.pos < Len(Messages) /\ Received.kind = "event"
      /\ stream'.pos = at /\ stream'.pc = "live" /\ stream'.after = stream.after
      /\ stream'.missed = stream.missed
      /\ \/ e <= stream.last /\ stream'.last = stream.last /\ stream'.sent = stream.sent
         \/ e > stream.last /\ stream'.last = e /\ stream'.sent = stream.sent \cup {e}
  BY RecvEventFacts
<1>2. UNCHANGED <<stored, run, writer, log>>
  BY DEF RecvEvent
<1>3. /\ log[run].messages[at].kind = "event" /\ log[run].messages[at].seq = e
      /\ at \in 1..Len(log[run].messages) /\ at \in Nat /\ Len(log[run].messages) \in Nat
      /\ e \in log[run].rows
  BY <1>1, ReceivedOfLog, ReceivedFacts, MessagesFacts, EventIsRow DEF Received
<1>4. stream.last \in Int /\ e \in Int /\ stored \in SUBSET Int /\ stream.pos \in Nat
  BY <1>1, ReceivedFacts, StreamFields, RunFacts, Consts
<1> HIDE DEF e
<1>5. \A n \in stored : Ahead(n) => n = e \/ (Ahead(n)' /\ e < n)
  <2>1. SUFFICES ASSUME NEW n \in stored, Ahead(n), n # e
                 PROVE  Ahead(n)' /\ e < n
    OBVIOUS
  <2>2. PICK i \in stream.pos + 1..Len(log[run].messages) :
            log[run].messages[i].kind = "event" /\ log[run].messages[i].seq = n
    BY <2>1 DEF Ahead
  <2>3. i # at
    BY <1>3, <2>1, <2>2
  <2>4. i \in at + 1..Len(log[run].messages) /\ i \in 1..Len(log[run].messages) /\ at \in 1..i - 1
    BY <1>3, <1>4, <2>2, <2>3
  <2>5. e < n
    BY <1>3, <2>2, <2>4 DEF RowsInOrder, InOrder
  <2>6. Ahead(n)'
    <3>1. i \in stream'.pos + 1..Len(log'[run'].messages)
      BY <1>1, <1>2, <2>4
    <3> QED BY <1>2, <2>2, <3>1 DEF Ahead
  <2> QED BY <2>5, <2>6
<1> HIDE DEF at
<1>6. ReloadCounts'
  BY <1>1 DEF ReloadCounts
<1>7. LiveIsTold'
  <2>1. SUFFICES ASSUME NEW n \in stored
                 PROVE  n <= stream'.last \/ n \in stream.missed \/ Unpushed(n) \/ Ahead(n)'
    BY <1>1, <1>2 DEF LiveIsTold, Unpushed
  <2>2. n <= stream.last \/ n \in stream.missed \/ Unpushed(n) \/ Ahead(n)
    BY <1>1 DEF StreamInv, LiveIsTold
  <2>3. n <= stream.last \/ n = e => n <= stream'.last
    BY <1>1, <1>4
  <2> QED BY <1>5, <2>2, <2>3
<1>8. MissesOnlyTheWindow'
  <2>1. SUFFICES ASSUME NEW n \in stored, stream.after < n, n <= stream'.last
                 PROVE  n \in stream'.sent \cup stream.missed
    BY <1>1, <1>2 DEF MissesOnlyTheWindow
  <2>2. CASE n <= stream.last
    BY <1>1, <2>1, <2>2 DEF StreamInv, MissesOnlyTheWindow
  <2>3. CASE n > stream.last
    <3>1. e > stream.last /\ stream'.last = e /\ stream'.sent = stream.sent \cup {e} /\ n <= e
      BY <1>1, <1>4, <2>1, <2>3
    <3>2. n \in stream.missed \/ Unpushed(n) \/ Ahead(n)
      BY <1>1, <1>4, <2>3 DEF StreamInv, LiveIsTold
    <3>3. ~Unpushed(n)
      BY <1>3, <1>4, <3>1 DEF Unpushed, RowsInOrder
    <3>4. Ahead(n) => n = e
      BY <1>4, <1>5, <3>1
    <3> QED BY <3>1, <3>2, <3>3, <3>4
  <2> QED BY <1>4, <2>2, <2>3
<1> QED BY <1>6, <1>7, <1>8 DEF StreamInv

LEMMA StatusMisses ==
  ASSUME Shapes, Shapes', TaskInv, StreamOfClient, StreamInv, RecvStatus
  PROVE  StreamInv'
<1> DEFINE at == stream.pos + 1
<1>1. /\ stream.pc = "live" /\ stream.pos < Len(Messages) /\ Received.kind = "status"
      /\ stream'.pos = at /\ stream'.pc = "live" /\ stream'.after = stream.after
      /\ stream'.missed = stream.missed /\ stream'.last = stream.last
      /\ stream'.sent = stream.sent
  BY RecvStatusFacts
<1>2. UNCHANGED <<stored, run, writer, log>>
  BY DEF RecvStatus
<1>3. /\ log[run].messages[at].kind = "status" /\ at \in Nat
      /\ Len(log[run].messages) \in Nat /\ stream.pos \in Nat
  BY <1>1, ReceivedOfLog, ReceivedFacts, MessagesFacts, StreamFields DEF Received
<1>4. \A n \in stored : Ahead(n) => Ahead(n)'
  <2>1. SUFFICES ASSUME NEW n \in stored, Ahead(n) PROVE Ahead(n)'
    OBVIOUS
  <2>2. PICK i \in stream.pos + 1..Len(log[run].messages) :
            log[run].messages[i].kind = "event" /\ log[run].messages[i].seq = n
    BY <2>1 DEF Ahead
  <2>3. i # at
    BY <1>3, <2>2
  <2>4. i \in stream'.pos + 1..Len(log'[run'].messages)
    BY <1>1, <1>2, <1>3, <2>2, <2>3
  <2> QED BY <1>2, <2>2, <2>4 DEF Ahead
<1>5. ReloadCounts' /\ MissesOnlyTheWindow'
  BY <1>1, <1>2 DEF ReloadCounts, StreamInv, MissesOnlyTheWindow
<1>6. LiveIsTold'
  BY <1>1, <1>2, <1>4 DEF LiveIsTold, StreamInv, Unpushed
<1> QED BY <1>5, <1>6 DEF StreamInv

\* A lag: the lost messages are counted, unless they are replayed.
LEMMA LagMisses ==
  ASSUME Shapes, Shapes', TaskInv, StreamOfClient, CursorsAreStored, StreamInv, RecvLagged
  PROVE  StreamInv'
<1> USE DEF TaskInv
<1> DEFINE oldest == Len(Messages) - Capacity
           lost == {Messages[i].seq : i \in {j \in stream.pos + 1..oldest :
                                                Messages[j].kind = "event"}}
           rows == Due(log[stream.log].rows)
           due == IF rows # {} THEN rows ELSE Due(FirstPage(stream.last))
           last == Max(due \cup {stream.last})
<1>1. /\ stream.pc = "live" /\ oldest > stream.pos /\ oldest <= Len(Messages) /\ oldest \in Nat
      /\ due \in SUBSET (1..MaxSeq) /\ due \subseteq log[stream.log].rows \cup stored
      /\ stream'.pc = "live" /\ stream'.pos = oldest /\ stream'.after = stream.after
      /\ stream'.sent = stream.sent \cup due /\ stream'.last = last
      /\ stream'.missed = stream.missed \cup {n \in lost : n > stream.last /\ n \notin due}
  BY RecvLaggedFacts
<1>2. UNCHANGED <<stored, run, writer, log>>
  BY DEF RecvLagged
<1>3. Messages = log[run].messages /\ log[stream.log] = log[run] /\ run \in Runs
  BY <1>1, ReceivedOfLog
<1>4. /\ last \in due \cup {stream.last} /\ last \in Seqs
      /\ \A n \in due \cup {stream.last} : n <= last
  BY <1>1, SentMax
<1>5. rows = {n \in log[run].rows : stream.last < n /\ n <= stream.seen}
  BY <1>3 DEF Due
<1>6. \A n \in due : n <= stream.seen /\ n \in stored
  <2>1. due \subseteq stored
    BY <1>1, <1>3 DEF RowsInOrder
  <2> QED BY <2>1 DEF Due
<1>7. rows # {} => due = rows
  OBVIOUS
<1>8. \A i \in stream.pos + 1..oldest :
          log[run].messages[i].kind = "event" => log[run].messages[i].seq \in lost
  BY <1>3
<1>9. /\ stream.last \in Int /\ last \in Int /\ stored \in SUBSET Int /\ stream.seen \in Int
      /\ stream.pos \in Nat /\ Len(log[run].messages) \in Nat /\ oldest <= Len(log[run].messages)
      /\ log[run].rows \subseteq stored
  BY <1>1, <1>3, <1>4, StreamFields, RunFacts, Consts, MessagesFacts DEF RowsInOrder
<1> HIDE DEF oldest, lost, rows, due, last
\* Ahead of the stream: lost and counted, or still to come.
<1>10. \A n \in stored : Ahead(n) => n \in lost \/ (Ahead(n)' /\ n \in log[run].rows)
  <2>1. SUFFICES ASSUME NEW n \in stored, Ahead(n), n \notin lost
                 PROVE  Ahead(n)' /\ n \in log[run].rows
    OBVIOUS
  <2>2. PICK i \in stream.pos + 1..Len(log[run].messages) :
            log[run].messages[i].kind = "event" /\ log[run].messages[i].seq = n
    BY <2>1 DEF Ahead
  <2>3. ~(i <= oldest)
    <3>1. SUFFICES ASSUME i <= oldest PROVE FALSE
      OBVIOUS
    <3>2. i \in stream.pos + 1..oldest
      BY <1>1, <1>9, <2>2, <3>1
    <3> QED BY <1>8, <2>1, <2>2, <3>2
  <2>4. i \in stream'.pos + 1..Len(log'[run'].messages) /\ i \in 1..Len(log[run].messages)
    BY <1>1, <1>2, <1>9, <2>2, <2>3
  <2>5. n \in log[run].rows
    BY <2>2, <2>4 DEF RowsInOrder, InOrder
  <2> QED BY <1>2, <2>2, <2>4, <2>5 DEF Ahead
<1>11. ReloadCounts'
  BY <1>1 DEF ReloadCounts
<1>12. LiveIsTold'
  <2>1. SUFFICES ASSUME NEW n \in stored
                 PROVE  n <= last \/ n \in stream'.missed \/ Unpushed(n) \/ Ahead(n)'
    BY <1>1, <1>2 DEF LiveIsTold, Unpushed
  <2>2. n <= stream.last \/ n \in stream.missed \/ Unpushed(n) \/ Ahead(n)
    BY <1>1 DEF StreamInv, LiveIsTold
  <2>3. n <= stream.last \/ n \in due => n <= last
    BY <1>4, <1>9
  <2>4. n \in lost => n <= last \/ n \in stream'.missed
    BY <1>1, <1>9, <2>3
  <2> QED BY <1>1, <1>10, <2>2, <2>3, <2>4
<1>13. MissesOnlyTheWindow'
  <2>1. SUFFICES ASSUME NEW n \in stored, stream.after < n, n <= last
                 PROVE  n \in stream'.sent \cup stream'.missed
    BY <1>1, <1>2 DEF MissesOnlyTheWindow
  <2>2. CASE n <= stream.last
    BY <1>1, <2>1, <2>2 DEF StreamInv, MissesOnlyTheWindow
  <2>3. CASE n > stream.last /\ n \notin due
    <3>1. last \in due /\ last \in stored /\ n <= stream.seen
      BY <1>4, <1>6, <1>9, <2>1, <2>3
    <3>2. n \in stream.missed \/ Unpushed(n) \/ Ahead(n)
      BY <1>1, <1>9, <2>3 DEF StreamInv, LiveIsTold
    <3>3. ~Unpushed(n)
      <4>1. SUFFICES ASSUME Unpushed(n) PROVE FALSE
        OBVIOUS
      <4>2. last <= n
        BY <3>1, <4>1 DEF Unpushed, NewestStored
      <4>3. n = last
        BY <1>9, <2>1, <4>2
      <4> QED BY <2>3, <3>1, <4>3
    <3>4. n \notin log[run].rows
      <4>1. SUFFICES ASSUME n \in log[run].rows PROVE FALSE
        OBVIOUS
      <4>2. n \in rows
        BY <1>5, <2>3, <3>1, <4>1
      <4> QED BY <1>7, <2>3, <4>2
    <3>5. n \in stream.missed \/ n \in lost
      BY <1>10, <3>2, <3>3, <3>4
    <3> QED BY <1>1, <2>3, <3>5
  <2>4. CASE n \in due
    BY <1>1, <2>4
  <2> QED BY <1>9, <2>2, <2>3, <2>4
<1> QED BY <1>11, <1>12, <1>13 DEF StreamInv

LEMMA ViewMisses ==
  ASSUME Shapes, Shapes', TaskInv, StreamOfClient, CursorsAreStored, StreamInv,
         StreamStep \/ StreamLost \/ Keepalive \/ ClientStep \/ BackfillFails
         \/ LastBackfillFails
  PROVE  StreamInv'
<1>a. Aside
  BY StreamAside
<1>1. CASE Keepalive \/ Backfill \/ LastBackfill \/ BackfillFails \/ LastBackfillFails
  <2>1. stream' = stream
    BY <1>1 DEF Keepalive, Backfill, LastBackfill, BackfillFails, LastBackfillFails
  <2> QED BY <1>a, <2>1 DEF Aside, StreamInv, ReloadCounts, LiveIsTold, MissesOnlyTheWindow,
                            Unpushed, Ahead
<1>2. CASE RecvClosed \/ StreamLost \/ Retry \/ CloseStream
  <2>1. stream' \in {Ended, NoStream}
    BY <1>2 DEF RecvClosed, StreamLost, Retry, CloseStream
  <2>2. Ended.pc = "ended" /\ Ended.last = 0 /\ NoStream.pc = "none" /\ NoStream.last = 0
    BY DEF Ended, NoStream
  <2>3. stream'.pc \in {"none", "ended"} /\ stream'.last = 0
    BY <2>1, <2>2
  <2> QED BY <2>3, ApartOfStream
<1>3. CASE Connect \/ Reconnect
  <2>1. PICK c \in {client.last, stream.after} : stream' = Opened(c)
    BY <1>3 DEF Connect, Reconnect
  <2>2. /\ stream'.pc = "reload" /\ stream'.after = c /\ stream'.last = c
    BY <2>1 DEF Opened, NoStream
  <2>3. c \in Int /\ stored \in SUBSET Int /\ stored' = stored
    BY <1>a, StreamFields, RunFacts, Consts DEF Aside
  <2>4. ReloadCounts' /\ LiveIsTold'
    BY <2>2 DEF ReloadCounts, LiveIsTold
  <2>5. \A n \in stored : ~(c < n /\ n <= c)
    BY <2>3
  <2>6. MissesOnlyTheWindow'
    BY <2>2, <2>3, <2>5 DEF MissesOnlyTheWindow
  <2> QED BY <2>4, <2>6 DEF StreamInv
<1> QED BY <1>1, <1>2, <1>3, ReloadCountsAll, AttachMisses, EventMisses, StatusMisses, LagMisses
        DEF StreamStep, ClientStep

-----------------------------------------------------------------------------
(* The theorems.                                                             *)

AllInv == Shapes /\ TaskInv /\ WatchInv /\ StreamInv

LEMMA AllInit == Init => AllInv
BY InitShapes, InitTask, InitWatch DEF AllInv

LEMMA AllNext == AllInv /\ [Next]_vars => AllInv'
<1> SUFFICES ASSUME AllInv, [Next]_vars PROVE AllInv'
  OBVIOUS
<1> USE DEF AllInv
<1>0. AnswerNumber /\ Resuming /\ StreamOfClient /\ CursorsAreStored /\ EndIsTrue /\ CaughtUp
  BY DEF TaskInv, WatchInv
<1>1. Shapes'
  BY <1>0, NextShapes
<1>2. CASE StreamStep \/ StreamLost \/ Keepalive \/ ClientStep \/ BackfillFails \/ LastBackfillFails
  <2>1. TaskInv' /\ StreamInv'
    BY <1>0, <1>1, <1>2, ViewTask, ViewMisses
  <2>2. WatchInv'
    BY <1>0, <1>2, ViewOfClient, ViewEnds, ViewCaught DEF WatchInv
  <2> QED BY <1>1, <2>1, <2>2
<1>3. CASE \E r \in Runs : WriterStep(r)
  <2>1. PICK r \in Runs : WriterStep(r)
    BY <1>3
  <2>2. TaskInv' /\ LogMoves
    BY <2>1, WriterTask, WriterMoves
  <2>3. WatchInv' /\ StreamInv'
    BY <1>0, <1>1, <2>1, <2>2, MovesOfClient, MovesOfStream, WriterEnds, WriterCaught DEF WatchInv
  <2> QED BY <1>1, <2>2, <2>3
<1>4. CASE Spawn \/ Evict \/ ResumeAppend \/ ResumeSave \/ CancelSave \/ CancelNotify \/ Restart
  <2>1. TaskInv' /\ EndIsTrue' /\ CaughtUp'
    BY <1>0, <1>4, RouteTask, RouteEnds, RouteCaught
  <2>2. CASE ResumeAppend \/ Restart \/ (Spawn /\ run # 1)
    <3>1. /\ StreamOfClient' /\ CursorsAreStored'
          /\ stream'.pc \in {"none", "ended"} /\ stream'.last = 0
      BY <1>0, <2>2, ApartOfClient
    <3>2. StreamInv'
      BY <1>1, <3>1, ApartOfStream
    <3> QED BY <1>1, <2>1, <3>1, <3>2 DEF WatchInv
  <2>3. CASE Evict \/ ResumeSave \/ CancelSave \/ CancelNotify \/ (Spawn /\ run = 1)
    <3>1. LogMoves
      BY <2>3, RouteMoves
    <3>2. StreamOfClient' /\ CursorsAreStored' /\ StreamInv'
      BY <1>0, <1>1, <3>1, MovesOfClient, MovesOfStream
    <3> QED BY <1>1, <2>1, <3>2 DEF WatchInv
  <2> QED BY <1>4, <2>2, <2>3
<1>5. CASE UNCHANGED vars
  <2>1. TaskInv'
    BY <1>5 DEF vars, TaskInv, RunsInTurn, StatusOfRun, Resuming, AnswerNumber, LogOfRun,
                StoredIsRecorded, NewestStored, RowsInOrder
  <2>2. WatchInv'
    BY <1>5 DEF vars, WatchInv, StreamOfClient, CursorsAreStored, EndIsTrue, CaughtUp
  <2>3. StreamInv'
    BY <1>5 DEF vars, StreamInv, ReloadCounts, LiveIsTold, MissesOnlyTheWindow, Unpushed, Ahead
  <2> QED BY <1>1, <2>1, <2>2, <2>3
<1> QED BY <1>2, <1>3, <1>4, <1>5 DEF Next

LEMMA AllAlways == Spec => []AllInv
BY AllInit, AllNext, PTL DEF Spec

\* Every variable stays in its type, whatever the bounds are.
THEOREM TypeCorrect == Spec => []TypeOK
<1>1. ASSUME AllInv PROVE TypeOK
  <2>1. Shapes
    BY <1>1 DEF AllInv
  <2>2. \A r \in Runs : log[r].rows \subseteq 1..MaxSeq /\ log[r].done \in BOOLEAN
    BY <2>1 DEF Shapes, Logs
  <2>3. client.attempts \in 0..MaxAttempts /\ client \in ClientStates
    BY <2>1, StreamFields, StreamAssumption DEF Shapes
  <2>4. client \in [pc : {"backfill", "connect", "stream", "closing", "done", "gaveUp"},
                    last : Seqs, attempts : 0..MaxAttempts, told : BOOLEAN, error : BOOLEAN]
    BY <2>3 DEF ClientStates
  <2>5. /\ stream.pc \in {"none", "reload", "attach", "live", "ended"}
        /\ stream.log \in 0..MaxRuns /\ stream.last \in Seqs /\ stream.seen \in Seqs
        /\ stream.sent \subseteq 1..MaxSeq /\ stream.missed \subseteq 1..MaxSeq
    BY <2>1 DEF Shapes, StreamStates
  <2> QED BY <2>1, <2>2, <2>4, <2>5 DEF TypeOK, Shapes, WriterStates, RouteStates
<1> QED BY <1>1, AllAlways, PTL

LEMMA ReachNext == AllInv /\ RunningIsReachable /\ [Next]_vars => RunningIsReachable'
<1> SUFFICES ASSUME AllInv, RunningIsReachable, [Next]_vars PROVE RunningIsReachable'
  OBVIOUS
<1> USE RunFacts DEF AllInv, TaskInv, RunningIsReachable
<1>1. CASE StreamStep \/ StreamLost \/ Keepalive \/ ClientStep \/ BackfillFails
           \/ LastBackfillFails \/ UNCHANGED vars
  <2>1. UNCHANGED <<writer, run, registry, log>>
    BY <1>1, StreamAside DEF Aside, vars
  <2> QED BY <2>1
<1>2. CASE \E r \in Runs : WriterStep(r)
  <2>1. PICK r \in Runs : WriterStep(r)
    BY <1>2
  <2>2. UNCHANGED <<run, registry>>
    BY <2>1 DEF WriterStep, AppendEvent, AppendFails, Drop, Push, SaveLast, Outcome, Settled, CloseLog
  <2>3. CASE CloseLog(r)
    <3>1. CASE r = run
      BY <2>2, <2>3, <3>1 DEF CloseLog, Gone, NoWriter
    <3>2. CASE r # run
      BY <2>2, <2>3, <3>2 DEF CloseLog
    <3> QED BY <3>1, <3>2
  <2>4. CASE Push(r)
    <3>1. r = run /\ writer[run].pc = "push"
      BY <2>4, OnlyLatest DEF Push
    <3>2. log'[run].done = log[run].done
      <4>1. writer[run].seq \in 1..MaxSeq
        BY <3>1 DEF Shapes
      <4>2. PushPersisted(log[run], writer[run].seq).done = log[run].done
        BY <4>1, PushFacts
      <4>3. log'[run] = PushPersisted(log[run], writer[run].seq)
        BY <2>4, <3>1 DEF Push
      <4> QED BY <4>2, <4>3
    <3> QED BY <2>2, <3>1, <3>2
  <2>5. CASE ~CloseLog(r) /\ ~Push(r)
    <3>1. r = run /\ writer[run].pc \notin {"none", "gone"} /\ log' = log
      BY <2>1, <2>5, OnlyLatest DEF WriterStep, AppendEvent, AppendFails, Drop, SaveLast, Outcome,
         Settled
    <3> QED BY <2>2, <3>1
  <2> QED BY <2>3, <2>4, <2>5
<1>3. CASE Spawn
  BY <1>3 DEF Spawn
<1>4. CASE Evict
  <2>1. log[registry].done /\ registry # 0 /\ UNCHANGED <<writer, run, log>>
    BY <1>4 DEF Evict
  <2> QED BY <2>1
<1>5. CASE ResumeAppend
  <2>1. run' = run + 1 /\ run + 1 \in Runs /\ writer' = writer
    BY <1>5, StreamAssumption DEF ResumeAppend, Runs
  <2> QED BY <2>1 DEF RunsInTurn
<1>6. CASE ResumeSave \/ CancelSave
  BY <1>6 DEF ResumeSave, CancelSave
<1>7. CASE CancelNotify
  <2>1. UNCHANGED <<writer, run, registry>> /\ (registry = run \/ log'[run] = log[run])
    BY <1>7 DEF CancelNotify
  <2> QED BY <2>1
<1>8. CASE Restart
  <2>1. writer'[run'].pc = "gone"
    BY <1>8 DEF Restart, Gone, NoWriter
  <2> QED BY <2>1
<1> QED BY <1>1, <1>2, <1>3, <1>4, <1>5, <1>6, <1>7, <1>8 DEF Next

\* While a run goes on, EVENT_LOGS holds its log, or a cancel has closed it: the cleanup of
\* an earlier run's log removes that log only (spawn_event_log_cleanup).
THEOREM RunningReachable == Spec => []RunningIsReachable
<1>1. Init => RunningIsReachable
  BY Consts DEF Init, RunningIsReachable, NoWriter
<1> QED BY <1>1, AllAlways, ReachNext, PTL DEF Spec

\* A browser that has finished with a task that ended or waits has every stored event but
\* an answer whose request is under way, unless a resume saved its record over a cancel.
THEOREM DoneCaughtUp == Spec => []DoneIsCaughtUp
<1>1. AllInv => DoneIsCaughtUp
  BY DEF AllInv, WatchInv, CaughtUp, DoneIsCaughtUp
<1> QED BY <1>1, AllAlways, PTL

\* Whatever is stored between a stream's cursors was sent, or was lost in one of the three
\* ways the model counts: between reload and subscription, in a lag, before a resumed log.
THEOREM StreamMissesNamed == Spec => []MissesOnlyTheWindow
<1>1. AllInv => MissesOnlyTheWindow
  BY DEF AllInv, StreamInv
<1> QED BY <1>1, AllAlways, PTL
=============================================================================
