-------------------------- MODULE AgentMemoryProofs --------------------------
(***************************************************************************)
(* Theorems about the memory of an agent session: its checkpoints           *)
(* (MemoryCheckpoint), whose type correctness and promise under the two     *)
(* conditions checkpoint_persist_lock needs come first, and its             *)
(* conversation (AgentHistory): the history the model is sent, and the      *)
(* blocks that compaction lays over it.                                     *)
(***************************************************************************)
EXTENDS MemoryCheckpoint, AgentHistory, FiniteSetTheorems, SequenceTheorems, TLAPS

-----------------------------------------------------------------------------
(* Checkpoints.                                                             *)

\* Snapshots are pairs of a version and a generation.
LEMMA SnapshotFacts ==
    /\ Nothing \in Snapshots
    /\ \A v \in Versions, g \in 0..MaxGen :
          [version |-> v, gen |-> g] \in Snapshots
    /\ \A s \in Snapshots : s.version \in Versions /\ s.gen \in 0..MaxGen
  BY BoundsAssumption DEF Snapshots, Nothing, Versions

Phases == {"off", "sleeping", "queued", "writing", "written", "ok"}

\* The type of the session, of the checkpoint state and of the rest.
SessionOK ==
    /\ version \in Versions
    /\ blank \subseteq Versions
    /\ asked \in 0..MaxRequests
    /\ requests \subseteq [number : 1..MaxRequests, version : Versions]
StateOK ==
    /\ lastHash \in Versions \cup {NoHash}
    /\ lastGen \in 0..MaxGen
    /\ nextGen \in 0..MaxGen
    /\ pending \in Snapshots
    /\ active \in BOOLEAN
WritersOK ==
    /\ phase \in [Writers -> Phases]
    /\ item \in [Writers -> Snapshots]
StorageOK ==
    /\ durable \in Versions
    /\ wanted \in Versions
    /\ faults \in 0..MaxFaults
    /\ unsure \in BOOLEAN

LEMMA TypeParts == TypeOK <=> SessionOK /\ StateOK /\ WritersOK /\ StorageOK
  BY DEF TypeOK, SessionOK, StateOK, WritersOK, StorageOK, Phases

LEMMA HashType == ASSUME TypeOK, NEW v \in Versions PROVE Hash(v) \in Versions
  BY BoundsAssumption DEF Hash, Versions

\* A step of one of the actions keeps the types.
LEMMA TypeStep == TypeOK /\ [Next]_vars => TypeOK'
<1> SUFFICES ASSUME TypeOK, [Next]_vars
             PROVE  SessionOK' /\ StateOK' /\ WritersOK' /\ StorageOK'
  BY DEF TypeOK, SessionOK, StateOK, WritersOK, StorageOK, Phases
<1>0. SessionOK /\ StateOK /\ WritersOK /\ StorageOK
  BY TypeParts
<1> DEFINE Goal == SessionOK' /\ StateOK' /\ WritersOK' /\ StorageOK'
<1> USE <1>0, BoundsAssumption, SnapshotFacts
        DEF SessionOK, StateOK, WritersOK, StorageOK
<1>o. Owner \in Writers /\ Loops \subseteq Writers
  BY DEF Writers
<1>v. version < MaxVersion => NextVersion \in Versions
  BY DEF NextVersion, Versions
<1>g. nextGen < MaxGen => nextGen + 1 \in 0..MaxGen
  OBVIOUS
<1>1. CASE Edit
  BY <1>1, <1>o, <1>v DEF Edit, stateVars, storageVars, Phases
<1>2. CASE Reset
  <2>a. NextVersion \in Versions /\ blank' \subseteq Versions
    BY <1>2, <1>v DEF Reset
  <2>b. phase' \in [Writers -> Phases]
    BY <1>2, <1>o DEF Reset, Phases
  <2>1. SessionOK' /\ WritersOK' /\ StorageOK'
    <3>1. UNCHANGED <<asked, requests, item, durable, faults, unsure, wanted>>
      BY <1>2 DEF Reset, storageVars
    <3>2. version' \in Versions
      BY <1>2, <2>a DEF Reset
    <3>3. SessionOK'
      BY <2>a, <3>1, <3>2
    <3>4. WritersOK'
      BY <2>b, <3>1
    <3> QED BY <3>1, <3>3, <3>4
  <2>2. CASE ForgetState
    <3>1. active' \in BOOLEAN
      BY <2>2, Zenon DEF ForgetState
    <3>2. lastHash' = NoHash /\ lastGen' = 0 /\ nextGen' = 0 /\ pending' = Nothing
      BY <2>2, Zenon DEF ForgetState
    <3> QED BY <2>1, <3>1, <3>2
  <2>3. CASE UNCHANGED stateVars
    BY <2>1, <2>3 DEF stateVars
  <2> QED BY <1>2, <2>2, <2>3 DEF Reset
<1>3. CASE Request
  <2>1. requests' \subseteq [number : 1..MaxRequests, version : Versions]
    BY <1>3 DEF Request
  <2> QED BY <1>3, <2>1 DEF Request, stateVars, storageVars
<1>4. CASE Flush
  BY <1>4, <1>o, <1>g DEF Flush, storageVars, Phases
<1>5. ASSUME NEW q \in requests, RegisterStep(q) PROVE Goal
  <2>0. q.version \in Versions
    OBVIOUS
  <2>1. CASE RegisterPersisted(q)
    BY <2>1 DEF RegisterPersisted, storageVars
  <2>2. CASE RegisterPending(q)
    BY <2>2 DEF RegisterPending, stateVars, storageVars
  <2>3. CASE Register(q)
    <3>1. WritersOK'
      BY <2>3, <1>o DEF Register, Phases
    <3> QED BY <2>0, <2>3, <3>1, <1>g DEF Register, storageVars
  <2> QED BY <1>5, <2>1, <2>2, <2>3 DEF RegisterStep
<1>6. ASSUME NEW l \in Loops, LoopStep(l) PROVE Goal
  <2>1. CASE TakePending(l)
    BY <2>1, <1>o DEF TakePending, storageVars, Phases
  <2>2. CASE LoopEnds(l)
    BY <2>2, <1>o DEF LoopEnds, storageVars, Phases
  <2> QED BY <1>6, <2>1, <2>2 DEF LoopStep
<1>7. ASSUME NEW w \in Writers, PersistStep(w) PROVE Goal
  <2>1. CASE Skip(w)
    BY <2>1 DEF Skip, After, stateVars, storageVars, Phases
  <2>2. CASE Write(w)
    BY <2>2 DEF Write, stateVars, storageVars, Phases
  <2>3. CASE Written(w)
    BY <2>3 DEF Written, stateVars, Phases
  <2>4. CASE WriteFails(w)
    <3>1. WritersOK' /\ SessionOK' /\ StateOK'
      BY <2>4 DEF WriteFails, After, stateVars, Phases
    <3>2. item[w].version \in Versions
      OBVIOUS
    <3>3. durable' \in Versions /\ unsure' \in BOOLEAN
      BY <2>4, <3>2 DEF WriteFails
    <3>4. faults' \in 0..MaxFaults /\ wanted' \in Versions
      BY <2>4 DEF WriteFails
    <3> QED BY <3>1, <3>3, <3>4
  <2>5. CASE Record(w)
    <3>1. item[w].version \in Versions /\ item[w].gen \in 0..MaxGen
      OBVIOUS
    <3>2. Hash(item[w].version) \in Versions
      BY <3>1, HashType
    <3>3. StateOK'
      BY <2>5, <3>1, <3>2 DEF Record
    <3> QED BY <2>5, <3>3 DEF Record, After, storageVars, Phases
  <2> QED BY <1>7, <2>1, <2>2, <2>3, <2>4, <2>5 DEF PersistStep
<1>8. CASE UNCHANGED vars
  BY <1>8 DEF vars, stateVars, storageVars
<1> QED BY <1>1, <1>2, <1>3, <1>4, <1>5, <1>6, <1>7, <1>8 DEF Next

\* Every reachable state of the session, its requests, loops and checkpoint
\* state is well typed (MemoryCheckpointState, QueuedMemoryCheckpoint).
THEOREM TypeCorrect == Spec => []TypeOK
<1>1. Init => TypeOK
  <2> SUFFICES ASSUME Init PROVE SessionOK /\ StateOK /\ WritersOK /\ StorageOK
    BY TypeParts
  <2>b. active \in BOOLEAN /\ unsure \in BOOLEAN
    BY Zenon DEF Init
  <2>c. /\ version = 0 /\ blank = {0} /\ asked = 0 /\ requests = {}
        /\ lastHash = NoHash /\ lastGen = 0 /\ nextGen = 0 /\ pending = Nothing
        /\ durable = 0 /\ wanted = 0 /\ faults = 0
    BY Zenon DEF Init
  <2>1. SessionOK /\ StorageOK
    BY <2>b, <2>c, BoundsAssumption DEF SessionOK, StorageOK, Versions
  <2>0. Nothing \in Snapshots
    BY SnapshotFacts
  <2>2. StateOK
    BY <2>0, <2>b, <2>c, BoundsAssumption DEF StateOK
  <2>3. WritersOK
    BY <2>0 DEF Init, WritersOK, Phases
  <2> QED BY <2>1, <2>2, <2>3
<1> QED BY <1>1, TypeStep, PTL DEF Spec

-----------------------------------------------------------------------------
(* Stale snapshots never win, when requests register in order and resets    *)
(* are quiet: of the snapshots that are under way, a younger generation     *)
(* never carries an older version, and none that will still be written is   *)
(* older than the durable one.                                              *)

Carrying(w) == phase[w] \in {"queued", "writing", "written"}
Locking(w) == phase[w] \in {"writing", "written"}

\* The registered snapshots that are under way to the storage.
Tickets == {item[w] : w \in {u \in Writers : Carrying(u)}} \cup ({pending} \ {Nothing})

OneRequest == \A p, q \in requests : p = q
OneWriter == \A u, w \in Writers : Locking(u) /\ Locking(w) => u = w
Numbered == \A x \in Tickets : x.gen <= nextGen
Monotone == \A x, y \in Tickets : x.gen < y.gen => x.version <= y.version
NothingNewer ==
    /\ durable <= version
    /\ \A x \in Tickets : x.version <= version
RequestsNewest ==
    \A q \in requests :
        /\ q.version <= version
        /\ durable <= q.version
        /\ \A x \in Tickets : x.version <= q.version
Checked == \A w \in Writers : Locking(w) => item[w].gen > lastGen

\* A write that is done but not recorded makes older snapshots stale, too.
Overtaken(x) == \E w \in Writers : phase[w] = "written" /\ item[w].gen >= x.gen
Fresh ==
    unsure \/ \A x \in Tickets :
        x.gen > lastGen /\ ~Overtaken(x) => durable <= x.version

OrderInv ==
    /\ OneRequest /\ OneWriter /\ Numbered /\ Monotone
    /\ NothingNewer /\ RequestsNewest /\ Checked /\ Fresh

LEMMA TicketTypes ==
  ASSUME TypeOK
  PROVE  /\ \A x \in Tickets : x.version \in Int /\ x.gen \in Int
         /\ version \in Int /\ durable \in Int /\ nextGen \in Int /\ lastGen \in Int
         /\ \A q \in requests : q.version \in Int
<1>1. \A s \in Snapshots : s.version \in Int /\ s.gen \in Int
  BY BoundsAssumption, SnapshotFacts DEF Versions
<1>2. Tickets \subseteq Snapshots
  BY DEF TypeOK, Tickets
<1>3. \A q \in requests : q.version \in Int
  BY BoundsAssumption DEF TypeOK, Versions
<1> QED BY <1>1, <1>2, <1>3, BoundsAssumption DEF TypeOK, Versions

\* A step that neither registers, writes nor records anything.
LEMMA Undisturbed ==
  ASSUME TypeOK, OrderInv, Tickets' \subseteq Tickets, requests' \subseteq requests,
         version' \in Int, version' >= version,
         UNCHANGED <<durable, lastGen, nextGen, unsure>>,
         \A w \in Writers : phase'[w] \in {"writing", "written"}
                             => Locking(w) /\ item'[w] = item[w],
         \A w \in Writers : phase[w] = "written"
                             => phase'[w] = "written" /\ item'[w] = item[w]
  PROVE  OrderInv'
<1> USE TicketTypes
<1>1. OneRequest' /\ OneWriter'
  BY DEF OrderInv, OneRequest, OneWriter, Locking
<1>2. Numbered' /\ Monotone'
  BY DEF OrderInv, Numbered, Monotone
<1>3. NothingNewer' /\ RequestsNewest'
  BY DEF OrderInv, NothingNewer, RequestsNewest
<1>4. Checked'
  BY DEF OrderInv, Checked, Locking
<1>5. Fresh'
  <2>1. \A x \in Tickets' : Overtaken(x) => Overtaken(x)'
    BY DEF Overtaken
  <2> QED BY <2>1 DEF OrderInv, Fresh
<1> QED BY <1>1, <1>2, <1>3, <1>4, <1>5 DEF OrderInv

\* A snapshot of the newest version, or of the only request, is registered.
LEMMA Registered ==
  ASSUME TypeOK, OrderInv, NEW t, t.version \in Int, t.gen = nextGen + 1,
         Tickets' \subseteq Tickets \cup {t}, requests' = {},
         nextGen' = nextGen + 1,
         durable <= t.version, t.version <= version,
         \A x \in Tickets : x.version <= t.version,
         UNCHANGED <<version, durable, lastGen, unsure>>,
         \A w \in Writers : phase'[w] \in {"writing", "written"}
                             => Locking(w) /\ item'[w] = item[w],
         \A w \in Writers : phase[w] = "written"
                             => phase'[w] = "written" /\ item'[w] = item[w]
  PROVE  OrderInv'
<1> USE TicketTypes
<1>1. OneRequest' /\ OneWriter'
  BY DEF OrderInv, OneRequest, OneWriter, Locking
<1>2. Numbered'
  BY DEF OrderInv, Numbered
<1>3. Monotone'
  BY DEF OrderInv, Numbered, Monotone
<1>4. NothingNewer' /\ RequestsNewest'
  BY DEF OrderInv, NothingNewer, RequestsNewest
<1>5. Checked'
  BY DEF OrderInv, Checked, Locking
<1>6. Fresh'
  <2>1. \A x \in Tickets : Overtaken(x) => Overtaken(x)'
    BY DEF Overtaken
  <2> QED BY <2>1 DEF OrderInv, Fresh
<1> QED BY <1>1, <1>2, <1>3, <1>4, <1>5, <1>6 DEF OrderInv

\* A write of w reaches the storage, whether the writer learns of it or not.
LEMMA WriteIsFresh ==
  ASSUME TypeOK, OrderInv, NEW w \in Writers, phase[w] = "writing", ~unsure
  PROVE  durable <= item[w].version
<1>1. item[w] \in Tickets /\ Locking(w)
  BY DEF Tickets, Carrying, Locking
<1>2. item[w].gen > lastGen
  BY <1>1 DEF OrderInv, Checked
<1>3. ~Overtaken(item[w])
  BY <1>1 DEF OrderInv, OneWriter, Overtaken, Locking
<1> QED BY <1>1, <1>2, <1>3 DEF OrderInv, Fresh

LEMMA OrderStep ==
  ASSUME InOrder, QuietResets, TypeOK, TypeOK', OrderInv, [Next]_vars
  PROVE  OrderInv'
<1> USE TicketTypes
<1>o. Owner \in Writers /\ Loops \subseteq Writers
  BY DEF Writers
<1>p. phase \in [Writers -> Phases] /\ item \in [Writers -> Snapshots]
  BY TypeParts DEF WritersOK
<1>1. CASE Edit
  <2>1. Tickets' \subseteq Tickets
    BY <1>1, <1>o, <1>p DEF Edit, Tickets, Carrying, OwnerFree, stateVars
  <2> QED BY <1>1, <1>o, <1>p, <2>1, Undisturbed
          DEF Edit, NextVersion, Locking, OwnerFree, stateVars, storageVars
<1>2. CASE Reset
  <2>1. Quiet /\ requests' = {} /\ version' = version + 1 /\ UNCHANGED <<durable, unsure>>
    BY <1>2 DEF Reset, Quiet, NextVersion, storageVars
  <2>2. \A w \in Writers : phase'[w] \in {"off", "sleeping"} /\ phase[w] # "written"
    BY <1>2, <1>p, <2>1 DEF Reset, Quiet, OwnerFree, Writers
  <2>3. pending' = Nothing
    BY <1>2, <2>1 DEF Reset, Quiet, ForgetState, stateVars
  <2>4. Tickets' = {}
    BY <2>2, <2>3 DEF Tickets, Carrying
  <2>5. OneRequest' /\ OneWriter' /\ Checked'
    BY <2>1, <2>2 DEF OneRequest, OneWriter, Checked, Locking
  <2>6. Numbered' /\ Monotone' /\ Fresh'
    BY <2>4 DEF Numbered, Monotone, Fresh
  <2>7. NothingNewer' /\ RequestsNewest'
    BY <2>1, <2>4 DEF OrderInv, NothingNewer, RequestsNewest
  <2> QED BY <2>5, <2>6, <2>7 DEF OrderInv
<1>3. CASE Request
  <2>1. Tickets' = Tickets
    BY <1>3 DEF Request, Tickets, Carrying, stateVars
  <2>2. UNCHANGED <<version, durable, unsure, lastGen, nextGen, phase, item>>
    BY <1>3 DEF Request, stateVars, storageVars
  <2>3. requests' = {[number |-> asked + 1, version |-> version]}
    BY <1>3 DEF Request
  <2>4. OneRequest' /\ OneWriter' /\ Numbered' /\ Monotone'
    BY <2>1, <2>2, <2>3
       DEF OrderInv, OneRequest, OneWriter, Numbered, Monotone, Locking
  <2>5. NothingNewer' /\ RequestsNewest'
    BY <2>1, <2>2, <2>3 DEF OrderInv, NothingNewer, RequestsNewest
  <2>6. Checked'
    BY <2>2 DEF OrderInv, Checked, Locking
  <2>7. Fresh'
    BY <2>1, <2>2 DEF OrderInv, Fresh, Overtaken
  <2> QED BY <2>4, <2>5, <2>6, <2>7 DEF OrderInv
<1>4. CASE Flush
  <2>1. CASE lastHash = Hash(version)
    <3>1. Tickets' \subseteq Tickets
      BY <1>4, <1>o, <1>p, <2>1 DEF Flush, Tickets, Carrying, OwnerFree
    <3> QED BY <1>4, <1>o, <1>p, <2>1, <3>1, Undisturbed
            DEF Flush, Locking, OwnerFree, storageVars
  <2>2. CASE lastHash # Hash(version)
    <3> DEFINE t == [version |-> version, gen |-> nextGen + 1]
    <3>1. Tickets' \subseteq Tickets \cup {t}
      BY <1>4, <1>o, <1>p, <2>2 DEF Flush, Tickets, Carrying, OwnerFree
    <3>2. durable <= version /\ \A x \in Tickets : x.version <= version
      BY DEF OrderInv, NothingNewer
    <3>3. /\ requests' = {} /\ nextGen' = nextGen + 1
          /\ UNCHANGED <<version, durable, lastGen, unsure>>
      BY <1>4, <2>2 DEF Flush, storageVars
    <3>4. \A w \in Writers : phase'[w] \in {"writing", "written"}
                              => Locking(w) /\ item'[w] = item[w]
      BY <1>4, <1>o, <1>p, <2>2 DEF Flush, Locking, OwnerFree
    <3>5. \A w \in Writers : phase[w] = "written"
                              => phase'[w] = "written" /\ item'[w] = item[w]
      BY <1>4, <1>o, <1>p, <2>2 DEF Flush, OwnerFree
    <3>6. t.version = version /\ t.gen = nextGen + 1
      OBVIOUS
    <3> HIDE DEF t
    <3> QED BY <3>1, <3>2, <3>3, <3>4, <3>5, <3>6, Registered
  <2> QED BY <2>1, <2>2
<1>5. ASSUME NEW q \in requests, RegisterStep(q) PROVE OrderInv'
  <2>1. CASE RegisterPersisted(q)
    <3>1. Tickets' \subseteq Tickets
      BY <2>1 DEF RegisterPersisted, Tickets, Carrying
    <3> QED BY <2>1, <3>1, Undisturbed DEF RegisterPersisted, Locking, storageVars
  <2>2. CASE RegisterPending(q)
    <3>1. Tickets' \subseteq Tickets
      BY <2>2 DEF RegisterPending, Tickets, Carrying, stateVars
    <3> QED BY <2>2, <3>1, Undisturbed
            DEF RegisterPending, Locking, stateVars, storageVars
  <2>3. CASE Register(q)
    <3> DEFINE t == [version |-> q.version, gen |-> nextGen + 1]
    <3>0. \A w \in Writers : \/ phase'[w] = phase[w]
                             \/ (phase[w] = "off" /\ phase'[w] = "sleeping")
      <4>1. CASE UNCHANGED phase
        BY <4>1
      <4>2. CASE \E l \in Loops : /\ phase[l] = "off"
                                 /\ phase' = [phase EXCEPT ![l] = "sleeping"]
        BY <4>2, <1>o, <1>p
      <4> QED BY <2>3, <4>1, <4>2 DEF Register
    <3>1. Tickets' \subseteq Tickets \cup {t}
      BY <2>3, <3>0 DEF Register, Tickets, Carrying
    <3>2. durable <= q.version /\ \A x \in Tickets : x.version <= q.version
      BY DEF OrderInv, RequestsNewest
    <3>3. /\ requests' = {} /\ nextGen' = nextGen + 1 /\ q.version <= version
          /\ UNCHANGED <<version, durable, lastGen, unsure, item>>
      BY <2>3 DEF Register, storageVars, OrderInv, OneRequest, RequestsNewest
    <3>4. \A w \in Writers : phase'[w] \in {"writing", "written"}
                              => Locking(w) /\ item'[w] = item[w]
      BY <3>0, <3>3 DEF Locking
    <3>5. \A w \in Writers : phase[w] = "written"
                              => phase'[w] = "written" /\ item'[w] = item[w]
      BY <3>0, <3>3
    <3>6. t.version = q.version /\ t.gen = nextGen + 1
      OBVIOUS
    <3> HIDE DEF t
    <3> QED BY <3>1, <3>2, <3>3, <3>4, <3>5, <3>6, Registered
  <2> QED BY <1>5, <2>1, <2>2, <2>3 DEF RegisterStep
<1>6. ASSUME NEW l \in Loops, LoopStep(l) PROVE OrderInv'
  <2>1. CASE TakePending(l)
    <3>1. Tickets' \subseteq Tickets
      BY <2>1, <1>o, <1>p DEF TakePending, Tickets, Carrying
    <3> QED BY <2>1, <3>1, <1>o, <1>p, Undisturbed
            DEF TakePending, Locking, storageVars
  <2>2. CASE LoopEnds(l)
    <3>1. Tickets' \subseteq Tickets
      BY <2>2, <1>o, <1>p DEF LoopEnds, Tickets, Carrying
    <3> QED BY <2>2, <3>1, <1>o, <1>p, Undisturbed
            DEF LoopEnds, Locking, storageVars
  <2> QED BY <1>6, <2>1, <2>2 DEF LoopStep
<1>7. ASSUME NEW w \in Writers, PersistStep(w) PROVE OrderInv'
  <2>1. CASE Skip(w)
    <3>1. Tickets' \subseteq Tickets
      BY <2>1, <1>p DEF Skip, After, Tickets, Carrying, stateVars
    <3> QED BY <2>1, <3>1, <1>p, Undisturbed
            DEF Skip, After, Locking, stateVars, storageVars
  <2>2. CASE Write(w)
    <3>1. Tickets' = Tickets
      BY <2>2, <1>p DEF Write, Tickets, Carrying, stateVars
    <3>2. UNCHANGED <<version, durable, unsure, lastGen, nextGen, requests, item>>
      BY <2>2 DEF Write, stateVars, storageVars
    <3>3. \A u \in Writers : phase'[u] \in {"writing", "written"} <=> u = w
      BY <2>2, <1>p DEF Write, LockFree
    <3>4. item[w] \in Tickets /\ item[w].gen > lastGen
      BY <2>2 DEF Write, Stale, Tickets, Carrying
    <3>5. OneRequest' /\ OneWriter' /\ Numbered' /\ Monotone'
      BY <3>1, <3>2, <3>3
         DEF OrderInv, OneRequest, OneWriter, Numbered, Monotone, Locking
    <3>6. NothingNewer' /\ RequestsNewest'
      BY <3>1, <3>2 DEF OrderInv, NothingNewer, RequestsNewest
    <3>7. Checked'
      BY <3>2, <3>3, <3>4 DEF Checked, Locking
    <3>8. Fresh'
      <4>1. \A x \in Tickets : Overtaken(x) => Overtaken(x)'
        BY <2>2 DEF Overtaken, Write, LockFree
      <4> QED BY <3>1, <3>2, <4>1 DEF OrderInv, Fresh
    <3> QED BY <3>5, <3>6, <3>7, <3>8 DEF OrderInv
  <2>3. CASE Written(w)
    <3>1. Tickets' = Tickets
      BY <2>3, <1>p DEF Written, Tickets, Carrying, stateVars
    <3>2. UNCHANGED <<version, unsure, lastGen, nextGen, requests, item>>
      BY <2>3 DEF Written, stateVars
    <3>3. \A u \in Writers : phase'[u] \in {"writing", "written"} <=> Locking(u)
      BY <2>3, <1>p DEF Written, Locking
    <3>4. /\ item[w] \in Tickets /\ durable' = item[w].version
          /\ phase'[w] = "written"
      BY <2>3, <1>p DEF Written, Tickets, Carrying
    <3>5. OneRequest' /\ OneWriter' /\ Numbered' /\ Monotone' /\ Checked'
      BY <3>1, <3>2, <3>3
         DEF OrderInv, OneRequest, OneWriter, Numbered, Monotone, Checked, Locking
    <3>6. NothingNewer' /\ RequestsNewest'
      BY <3>1, <3>2, <3>4 DEF OrderInv, NothingNewer, RequestsNewest
    <3>7. Fresh'
      BY <3>1, <3>2, <3>4 DEF OrderInv, Fresh, Monotone, Overtaken
    <3> QED BY <3>5, <3>6, <3>7 DEF OrderInv
  <2>4. CASE WriteFails(w)
    <3>1. Tickets' \subseteq Tickets
      BY <2>4, <1>p DEF WriteFails, After, Tickets, Carrying, stateVars
    <3>2. \A u \in Writers : /\ phase'[u] \in {"writing", "written"} => Locking(u)
                             /\ phase[u] = "written" => phase'[u] = "written"
      BY <2>4, <1>p DEF WriteFails, After, Locking
    <3>3. UNCHANGED <<version, lastGen, nextGen, requests, item>>
      BY <2>4 DEF WriteFails, stateVars
    <3>4. CASE UNCHANGED <<durable, unsure>>
      <4>1. \A u \in Writers : phase'[u] \in {"writing", "written"}
                               => Locking(u) /\ item'[u] = item[u]
        BY <3>2, <3>3
      <4>2. \A u \in Writers : phase[u] = "written"
                               => phase'[u] = "written" /\ item'[u] = item[u]
        BY <3>2, <3>3
      <4>3. /\ requests' \subseteq requests /\ version' \in Int /\ version' >= version
            /\ UNCHANGED <<durable, lastGen, nextGen, unsure>>
        BY <3>3, <3>4
      <4> HIDE TicketTypes
      <4> QED BY <3>1, <4>1, <4>2, <4>3, Undisturbed
    <3>5. CASE durable' = item[w].version /\ unsure' = TRUE
      <4>1. item[w] \in Tickets
        BY <2>4 DEF WriteFails, Tickets, Carrying
      <4>a. OneRequest' /\ Numbered' /\ Monotone'
        BY <3>1, <3>3 DEF OrderInv, OneRequest, Numbered, Monotone
      <4>b. OneWriter'
        BY <3>2 DEF OrderInv, OneWriter, Locking
      <4>c. Checked'
        BY <3>2, <3>3 DEF OrderInv, Checked, Locking
      <4>3. NothingNewer' /\ RequestsNewest'
        BY <3>1, <3>3, <3>5, <4>1 DEF OrderInv, NothingNewer, RequestsNewest
      <4>4. Fresh'
        BY <3>5 DEF Fresh
      <4> QED BY <4>a, <4>b, <4>c, <4>3, <4>4 DEF OrderInv
    <3> QED BY <2>4, <3>4, <3>5 DEF WriteFails
  <2>5. CASE Record(w)
    <3>1. Tickets' \subseteq Tickets
      BY <2>5, <1>p DEF Record, After, Tickets, Carrying
    <3>2. item[w].gen > lastGen /\ item[w] \in Tickets
      BY <2>5 DEF Record, OrderInv, Checked, Locking, Tickets, Carrying
    <3>3. lastGen' = item[w].gen
      BY <2>5, <3>2 DEF Record
    <3>4. UNCHANGED <<version, durable, unsure, nextGen, requests, item>>
      BY <2>5 DEF Record, storageVars
    <3>5. \A u \in Writers : Locking(u) => u = w
      BY <2>5 DEF Record, OrderInv, OneWriter, Locking
    <3>6. \A u \in Writers : phase'[u] \notin {"writing", "written"}
      BY <2>5, <1>p, <3>5 DEF Record, After, Locking
    <3>7. OneRequest' /\ OneWriter' /\ Numbered' /\ Monotone' /\ Checked'
      BY <3>1, <3>4, <3>6
         DEF OrderInv, OneRequest, OneWriter, Numbered, Monotone, Checked, Locking
    <3>8. NothingNewer' /\ RequestsNewest'
      BY <3>1, <3>4 DEF OrderInv, NothingNewer, RequestsNewest
    <3>9. Fresh'
      <4>1. \A x \in Tickets : x.gen > item[w].gen => x.gen > lastGen /\ ~Overtaken(x)
        BY <3>2, <3>5 DEF Overtaken, Locking
      <4> QED BY <3>1, <3>3, <3>4, <4>1 DEF OrderInv, Fresh
    <3> QED BY <3>7, <3>8, <3>9 DEF OrderInv
  <2> QED BY <1>7, <2>1, <2>2, <2>3, <2>4, <2>5 DEF PersistStep
<1>8. CASE UNCHANGED vars
  <2>1. Tickets' = Tickets
    BY <1>8 DEF vars, stateVars, Tickets, Carrying
  <2> QED BY <1>8, <2>1, Undisturbed DEF vars, stateVars, storageVars, Locking
<1> QED BY <1>1, <1>2, <1>3, <1>4, <1>5, <1>6, <1>7, <1>8 DEF Next

\* When spawned requests register before the next checkpoint is made and no
\* reset meets a checkpoint under way, the persist lock and the generations
\* keep their promise for any number of loops, requests and flushes: no
\* snapshot in the storage is replaced by an older one
\* (checkpoint_persist_lock, "so stale background tasks cannot win").
THEOREM StaleTasksCannotWin ==
  ASSUME InOrder, QuietResets
  PROVE  Spec => StaleNeverWins
<1>1. Init => OrderInv
  <2> SUFFICES ASSUME Init PROVE OrderInv
    OBVIOUS
  <2>1. Tickets = {}
    BY DEF Init, Tickets, Carrying
  <2>2. requests = {} /\ durable = 0 /\ version = 0
    BY Zenon DEF Init
  <2>3. \A w \in Writers : ~Locking(w)
    BY DEF Init, Locking
  <2> QED BY <2>1, <2>2, <2>3
          DEF OrderInv, OneRequest, OneWriter, Numbered, Monotone, NothingNewer,
              RequestsNewest, Checked, Fresh
<1>2. TypeOK /\ TypeOK' /\ OrderInv /\ [Next]_vars => OrderInv'
  BY OrderStep
<1>3. TypeOK /\ OrderInv /\ [Next]_vars => [durable' >= durable \/ unsure]_vars
  <2> SUFFICES ASSUME TypeOK, OrderInv, Next, ~unsure PROVE durable' >= durable
    OBVIOUS
  <2> USE TicketTypes
  <2>1. CASE durable' = durable
    BY <2>1
  <2>2. CASE \E w \in Writers : phase[w] = "writing" /\ durable' = item[w].version
    BY <2>2, WriteIsFresh
  <2>3. durable' = durable \/ \E w \in Writers :
            phase[w] = "writing" /\ durable' = item[w].version
    <3>1. ASSUME NEW q \in requests, RegisterStep(q) PROVE durable' = durable
      BY <3>1 DEF RegisterStep, RegisterPersisted, RegisterPending, Register,
                  storageVars
    <3>2. ASSUME NEW l \in Loops, LoopStep(l) PROVE durable' = durable
      BY <3>2 DEF LoopStep, TakePending, LoopEnds, storageVars
    <3>3. ASSUME NEW w \in Writers, PersistStep(w)
          PROVE  \/ durable' = durable
                 \/ (phase[w] = "writing" /\ durable' = item[w].version)
      <4>1. CASE Skip(w) \/ Write(w) \/ Record(w)
        BY <4>1 DEF Skip, Write, Record, storageVars
      <4>2. CASE Written(w)
        BY <4>2 DEF Written
      <4>3. CASE WriteFails(w)
        <5>1. phase[w] = "writing" /\ (durable' = durable \/ durable' = item[w].version)
          BY <4>3 DEF WriteFails
        <5> QED BY <5>1
      <4> QED BY <3>3, <4>1, <4>2, <4>3 DEF PersistStep
    <3>4. CASE Edit \/ Reset \/ Request \/ Flush
      BY <3>4 DEF Edit, Reset, Request, Flush, storageVars
    <3> QED BY <3>1, <3>2, <3>3, <3>4 DEF Next
  <2> QED BY <2>1, <2>2, <2>3
<1> QED BY <1>1, <1>2, <1>3, TypeCorrect, PTL DEF Spec, StaleNeverWins

-----------------------------------------------------------------------------
(* What a flush leaves in the storage, and that no snapshot is lost, under   *)
(* the same two conditions.  The hash that the state remembers as persisted  *)
(* is that of the durable snapshot, except between a write and its record,   *)
(* when it is that of an older one; and two snapshots have the same hash     *)
(* only if both are blank, when nothing younger than the last reset is       *)
(* under way.                                                                *)

BlankFirst ==
    /\ 0 \in blank
    /\ \A b \in blank : /\ b <= version
                        /\ \A x \in Tickets : b <= x.version
                        /\ \A q \in requests : b <= q.version

\* Generations are given out once, the pending snapshot has the youngest.
Generations ==
    /\ lastGen <= nextGen
    /\ \A x, y \in Tickets : x.gen = y.gen => x.version = y.version
PendingYoungest ==
    pending # Nothing =>
        /\ pending.gen > lastGen
        /\ \A w \in Writers : Carrying(w) => item[w].gen < pending.gen

\* The owner carries its memory as it is.
OwnerItem == Carrying(Owner) => item[Owner].version = version

\* Nothing newer than what was asked for is under way.
WantedNewest ==
    /\ wanted <= version /\ durable <= wanted
    /\ \A x \in Tickets : x.version <= wanted
    /\ \A q \in requests : q.version = wanted
    /\ unsure => faults > 0

CarriedInv == BlankFirst /\ Generations /\ PendingYoungest /\ OwnerItem /\ WantedNewest

\* A write that is done but not recorded is the durable one.
WrittenIsDurable ==
    \A w \in Writers : phase[w] = "written" => durable = item[w].version
SkippedIsOlder ==
    \A x \in Tickets : x.gen <= lastGen \/ Overtaken(x) => x.version <= durable
HashIsOlder ==
    lastHash # NoHash => \E u \in Versions : u <= durable /\ Hash(u) = lastHash
HashIsDurable ==
    lastHash # NoHash /\ (\A w \in Writers : phase[w] # "written") => Hash(durable) = lastHash

DurableInv ==
    ~unsure => /\ WrittenIsDurable /\ SkippedIsOlder /\ HashIsOlder /\ HashIsDurable
               /\ FlushedIsDurable

\* The newest snapshot asked for is durable, requested, or the youngest under way.
Youngest(x) ==
    x.gen > lastGen /\ ~Overtaken(x) /\ \A y \in Tickets : y.gen <= x.gen
OnItsWay ==
    faults = 0 =>
        \/ Hash(durable) = Hash(wanted)
        \/ requests # {}
        \/ \E x \in Tickets : Hash(x.version) = Hash(wanted) /\ Youngest(x)


LEMMA SameHash ==
  ASSUME TypeOK, 0 \in blank, NEW u \in Versions, NEW v \in Versions, Hash(u) = Hash(v)
  PROVE  u = v \/ (u \in blank /\ v \in blank)
BY DEF Hash

LEMMA NoHashIsNone == ASSUME TypeOK, NEW v \in Versions PROVE Hash(v) # NoHash
BY HashType, BoundsAssumption DEF Versions, NoHash

LEMMA WritersFacts ==
  ASSUME TypeOK
  PROVE  /\ Owner \in Writers /\ Loops \subseteq Writers /\ Owner \notin Loops
         /\ phase \in [Writers -> Phases] /\ item \in [Writers -> Snapshots]
BY TypeParts, WritersAssumption DEF Writers, WritersOK

\* What each step leaves of the snapshots under way.
LEMMA TicketsMove ==
  ASSUME TypeOK
  PROVE  /\ Edit => Tickets' = Tickets
         /\ Reset /\ Quiet => Tickets = {} /\ Tickets' = {}
         /\ Request => Tickets' = Tickets
         /\ Flush => \/ lastHash = Hash(version) /\ Tickets' \subseteq Tickets
                     \/ Tickets' \subseteq
                           Tickets \cup {[version |-> version, gen |-> nextGen + 1]}
         /\ \A q \in requests :
              /\ RegisterPersisted(q) => Tickets' \subseteq Tickets
              /\ RegisterPending(q) => Tickets' = Tickets
              /\ Register(q) => Tickets' \subseteq
                                  Tickets \cup {[version |-> q.version, gen |-> nextGen + 1]}
         /\ \A l \in Loops : TakePending(l) \/ LoopEnds(l) => Tickets' = Tickets
         /\ \A w \in Writers :
              /\ Write(w) \/ Written(w) => Tickets' = Tickets
              /\ Skip(w) \/ WriteFails(w) \/ Record(w) =>
                   Tickets' \subseteq Tickets /\ Tickets \ {item[w]} \subseteq Tickets'
<1> USE WritersFacts
<1>1. Edit => Tickets' = Tickets
  BY DEF Edit, Tickets, Carrying, OwnerFree, stateVars
<1>2. Reset /\ Quiet => Tickets = {} /\ Tickets' = {}
  <2> SUFFICES ASSUME Reset, Quiet PROVE Tickets = {} /\ Tickets' = {}
    OBVIOUS
  <2>1. \A w \in Writers : ~Carrying(w) /\ ~Carrying(w)'
    BY DEF Reset, Quiet, OwnerFree, Writers, Carrying
  <2>2. pending = Nothing /\ pending' = Nothing
    BY DEF Reset, Quiet, ForgetState, stateVars
  <2> QED BY <2>1, <2>2 DEF Tickets
<1>3. Request => Tickets' = Tickets
  BY DEF Request, Tickets, Carrying, stateVars
<1>4. Flush => \/ lastHash = Hash(version) /\ Tickets' \subseteq Tickets
               \/ Tickets' \subseteq Tickets \cup {[version |-> version, gen |-> nextGen + 1]}
  BY DEF Flush, Tickets, Carrying, OwnerFree
<1>5. ASSUME NEW q \in requests
      PROVE  /\ RegisterPersisted(q) => Tickets' \subseteq Tickets
             /\ RegisterPending(q) => Tickets' = Tickets
             /\ Register(q) => Tickets' \subseteq
                                 Tickets \cup {[version |-> q.version, gen |-> nextGen + 1]}
  <2>1. RegisterPersisted(q) => Tickets' \subseteq Tickets
    BY DEF RegisterPersisted, Tickets, Carrying
  <2>2. RegisterPending(q) => Tickets' = Tickets
    BY DEF RegisterPending, Tickets, Carrying, stateVars
  <2>3. ASSUME Register(q)
        PROVE  Tickets' \subseteq Tickets \cup {[version |-> q.version, gen |-> nextGen + 1]}
    <3>1. \A w \in Writers : Carrying(w)' => Carrying(w) /\ item'[w] = item[w]
      <4>1. CASE UNCHANGED phase
        BY <2>3, <4>1 DEF Register, Carrying
      <4>2. CASE \E l \in Loops : /\ phase[l] = "off"
                                 /\ phase' = [phase EXCEPT ![l] = "sleeping"]
        BY <2>3, <4>2 DEF Register, Carrying
      <4> QED BY <2>3, <4>1, <4>2 DEF Register
    <3> QED BY <2>3, <3>1 DEF Register, Tickets
  <2> QED BY <2>1, <2>2, <2>3
<1>6. ASSUME NEW l \in Loops PROVE TakePending(l) \/ LoopEnds(l) => Tickets' = Tickets
  <2>1. ASSUME TakePending(l) PROVE Tickets' = Tickets
    <3>1. /\ \A w \in Writers \ {l} : Carrying(w)' = Carrying(w) /\ item'[w] = item[w]
          /\ ~Carrying(l) /\ Carrying(l)' /\ item'[l] = pending
          /\ pending # Nothing /\ pending' = Nothing
      BY <2>1 DEF TakePending, Carrying
    <3> QED BY <3>1 DEF Tickets
  <2>2. LoopEnds(l) => Tickets' = Tickets
    BY DEF LoopEnds, Tickets, Carrying
  <2> QED BY <2>1, <2>2
<1>7. ASSUME NEW w \in Writers
      PROVE  /\ Write(w) \/ Written(w) => Tickets' = Tickets
             /\ Skip(w) \/ WriteFails(w) \/ Record(w) =>
                  Tickets' \subseteq Tickets /\ Tickets \ {item[w]} \subseteq Tickets'
  <2>1. Write(w) \/ Written(w) => Tickets' = Tickets
    BY DEF Write, Written, Tickets, Carrying, stateVars
  <2>2. ASSUME Skip(w) \/ WriteFails(w) \/ Record(w)
        PROVE  Tickets' \subseteq Tickets /\ Tickets \ {item[w]} \subseteq Tickets'
    <3>1. /\ \A u \in Writers \ {w} : Carrying(u)' = Carrying(u)
          /\ ~Carrying(w)' /\ UNCHANGED <<item, pending>>
      BY <2>2 DEF Skip, WriteFails, Record, After, Carrying, stateVars
    <3> QED BY <3>1 DEF Tickets
  <2> QED BY <2>1, <2>2
<1> QED BY <1>1, <1>2, <1>3, <1>4, <1>5, <1>6, <1>7


-----------------------------------------------------------------------------
LEMMA VersionInts ==
  ASSUME TypeOK
  PROVE  /\ \A b \in blank : b \in Int
         /\ wanted \in Int /\ faults \in Int /\ pending.gen \in Int
         /\ \A w \in Writers : item[w].gen \in Int /\ item[w].version \in Int
BY BoundsAssumption, SnapshotFacts, TypeParts
DEF TypeOK, Versions, WritersOK

\* A step that registers nothing and asks for nothing.
LEMMA CarriedKept ==
  ASSUME TypeOK, TypeOK', CarriedInv, Tickets' \subseteq Tickets, requests' \subseteq requests,
         version' >= version, UNCHANGED <<blank, wanted>>, durable' <= wanted,
         lastGen' <= nextGen', unsure' => faults' > 0, PendingYoungest', OwnerItem'
  PROVE  CarriedInv'
<1> USE TicketTypes, VersionInts
<1>1. version' \in Int
  BY BoundsAssumption DEF TypeOK, Versions
<1>2. BlankFirst' /\ Generations'
  BY <1>1 DEF CarriedInv, BlankFirst, Generations
<1>3. WantedNewest'
  BY <1>1 DEF CarriedInv, WantedNewest
<1> QED BY <1>2, <1>3 DEF CarriedInv

\* A snapshot of what is wanted is registered.
LEMMA CarriedGrows ==
  ASSUME TypeOK, TypeOK', OrderInv, CarriedInv, NEW t, t.version = wanted', t.gen = nextGen + 1,
         Tickets' \subseteq Tickets \cup {t}, requests' = {}, nextGen' = nextGen + 1,
         wanted <= wanted', wanted' <= version, \A b \in blank : b <= wanted',
         UNCHANGED <<version, blank, durable, lastGen, unsure, faults>>,
         PendingYoungest', OwnerItem'
  PROVE  CarriedInv'
<1> USE TicketTypes, VersionInts
<1>0. wanted' \in Int
  BY BoundsAssumption DEF TypeOK, Versions
<1>1. BlankFirst'
  BY <1>0 DEF CarriedInv, BlankFirst
<1>2. Generations'
  <2>1. \A x \in Tickets : x.gen # t.gen
    BY DEF OrderInv, Numbered
  <2> QED BY <2>1 DEF CarriedInv, Generations
<1>3. WantedNewest'
  BY <1>0 DEF CarriedInv, WantedNewest
<1> QED BY <1>1, <1>2, <1>3 DEF CarriedInv

LEMMA CarriedStep ==
  ASSUME InOrder, QuietResets, TypeOK, TypeOK', OrderInv, CarriedInv, [Next]_vars
  PROVE  CarriedInv'
<1> USE TicketTypes, VersionInts, WritersFacts
<1>0. /\ lastGen <= nextGen /\ durable <= wanted /\ (unsure => faults > 0)
      /\ PendingYoungest /\ OwnerItem
  BY DEF CarriedInv, Generations, WantedNewest
<1>1. CASE Edit
  <2>1. OwnerItem'
    BY <1>1 DEF Edit, OwnerItem, Carrying
  <2>2. PendingYoungest'
    BY <1>0, <1>1 DEF Edit, PendingYoungest, Carrying, OwnerFree, stateVars
  <2>3. /\ UNCHANGED <<requests, blank, wanted, durable, lastGen, nextGen, unsure, faults>>
        /\ version' >= version
    BY <1>1 DEF Edit, NextVersion, stateVars, storageVars
  <2> QED BY <1>0, <1>1, <2>1, <2>2, <2>3, TicketsMove, CarriedKept
<1>2. CASE Reset
  <2>1. /\ Quiet /\ requests' = {} /\ version' = version + 1 /\ blank' = blank \cup {version + 1}
        /\ UNCHANGED <<durable, wanted, unsure, faults, item>>
    BY <1>2 DEF Reset, Quiet, NextVersion, storageVars
  <2>2. Tickets = {} /\ Tickets' = {}
    BY <1>2, <2>1, TicketsMove
  <2>3. \A w \in Writers : ~Carrying(w)'
    BY <1>2, <2>1 DEF Reset, Quiet, OwnerFree, Writers, Carrying
  <2>4. pending' = Nothing /\ lastGen' <= nextGen'
    BY <1>0, <1>2, <2>1 DEF Reset, Quiet, ForgetState, stateVars
  <2>5. BlankFirst'
    BY <2>1, <2>2 DEF CarriedInv, BlankFirst
  <2>6. WantedNewest'
    BY <2>1, <2>2 DEF CarriedInv, WantedNewest
  <2>7. Generations' /\ PendingYoungest' /\ OwnerItem'
    BY <2>2, <2>3, <2>4 DEF Generations, PendingYoungest, OwnerItem
  <2> QED BY <2>5, <2>6, <2>7 DEF CarriedInv
<1>3. CASE Request
  <2>1. /\ Tickets' = Tickets /\ wanted' = version
        /\ requests' = {[number |-> asked + 1, version |-> version]}
        /\ UNCHANGED <<version, blank, durable, lastGen, nextGen, pending, unsure, faults,
                       phase, item>>
    BY <1>3, TicketsMove DEF Request, stateVars, storageVars
  <2>2. BlankFirst' /\ Generations'
    BY <2>1 DEF CarriedInv, BlankFirst, Generations
  <2>3. PendingYoungest' /\ OwnerItem'
    BY <1>0, <2>1 DEF PendingYoungest, OwnerItem, Carrying
  <2>4. WantedNewest'
    BY <2>1 DEF CarriedInv, WantedNewest, OrderInv, NothingNewer
  <2> QED BY <2>2, <2>3, <2>4 DEF CarriedInv
<1>4. CASE Flush
  <2>0. /\ wanted' = version /\ pending' = Nothing /\ requests' = requests /\ requests = {}
        /\ UNCHANGED <<version, blank, durable, lastGen, unsure, faults>>
    BY <1>4 DEF Flush, storageVars
  <2>1. PendingYoungest'
    BY <2>0 DEF PendingYoungest
  <2>2. CASE lastHash = Hash(version)
    <3>1. OwnerItem' /\ nextGen' = nextGen
      BY <1>4, <2>2 DEF Flush, OwnerItem, Carrying
    <3>2. Tickets' \subseteq Tickets
      BY <1>4, <2>2 DEF Flush, Tickets, Carrying
    <3>3. BlankFirst' /\ Generations'
      BY <2>0, <3>1, <3>2 DEF CarriedInv, BlankFirst, Generations
    <3>4. WantedNewest'
      BY <2>0, <3>2 DEF CarriedInv, WantedNewest, OrderInv, NothingNewer
    <3> QED BY <2>1, <3>1, <3>3, <3>4 DEF CarriedInv
  <2>3. CASE lastHash # Hash(version)
    <3> DEFINE t == [version |-> version, gen |-> nextGen + 1]
    <3>1. OwnerItem' /\ nextGen' = nextGen + 1
      BY <1>4, <2>3 DEF Flush, OwnerItem, Carrying
    <3>2. Tickets' \subseteq Tickets \cup {t}
      BY <1>4, <2>3, TicketsMove
    <3>3. t.version = version /\ t.gen = nextGen + 1
      OBVIOUS
    <3>4. wanted <= version /\ \A b \in blank : b <= version
      BY DEF CarriedInv, WantedNewest, BlankFirst
    <3> HIDE DEF t
    <3> QED BY <2>0, <2>1, <3>1, <3>2, <3>3, <3>4, CarriedGrows
  <2> QED BY <2>2, <2>3
<1>5. ASSUME NEW q \in requests, RegisterStep(q) PROVE CarriedInv'
  <2>1. CASE RegisterPersisted(q)
    <3>1. PendingYoungest' /\ OwnerItem'
      BY <1>0, <2>1 DEF RegisterPersisted, PendingYoungest, OwnerItem, Carrying
    <3>2. /\ UNCHANGED <<version, blank, wanted, durable, lastGen, nextGen, unsure, faults>>
          /\ requests' \subseteq requests
      BY <2>1 DEF RegisterPersisted, storageVars
    <3> QED BY <1>0, <2>1, <3>1, <3>2, TicketsMove, CarriedKept
  <2>2. CASE RegisterPending(q)
    <3>1. PendingYoungest' /\ OwnerItem'
      BY <1>0, <2>2 DEF RegisterPending, PendingYoungest, OwnerItem, Carrying, stateVars
    <3>2. /\ UNCHANGED <<version, blank, wanted, durable, lastGen, nextGen, unsure, faults>>
          /\ requests' \subseteq requests
      BY <2>2 DEF RegisterPending, stateVars, storageVars
    <3> QED BY <1>0, <2>2, <3>1, <3>2, TicketsMove, CarriedKept
  <2>3. CASE Register(q)
    <3> DEFINE t == [version |-> q.version, gen |-> nextGen + 1]
    <3>1. /\ \A w \in Writers : Carrying(w)' => Carrying(w)
          /\ UNCHANGED <<item, version, blank, wanted, durable, lastGen, unsure, faults>>
          /\ nextGen' = nextGen + 1 /\ pending' = t
      <4>1. CASE UNCHANGED phase
        BY <2>3, <4>1 DEF Register, Carrying, storageVars
      <4>2. CASE \E l \in Loops : /\ phase[l] = "off"
                                 /\ phase' = [phase EXCEPT ![l] = "sleeping"]
        BY <2>3, <4>2 DEF Register, Carrying, storageVars
      <4> QED BY <2>3, <4>1, <4>2 DEF Register
    <3>2. requests' = {} /\ q.version = wanted /\ wanted <= version
      BY <2>3 DEF Register, OrderInv, OneRequest, CarriedInv, WantedNewest
    <3>3. Tickets' \subseteq Tickets \cup {t}
      BY <2>3, TicketsMove
    <3>4. t.version = wanted /\ t.gen = nextGen + 1
      BY <3>2
    <3>5. \A b \in blank : b <= wanted
      BY <3>2 DEF CarriedInv, BlankFirst
    <3>6. \A w \in Writers : Carrying(w) => item[w].gen <= nextGen
      BY DEF OrderInv, Numbered, Tickets
    <3> HIDE DEF t
    <3>7. PendingYoungest' /\ OwnerItem'
      BY <1>0, <3>1, <3>4, <3>6 DEF PendingYoungest, OwnerItem
    <3> QED BY <3>1, <3>2, <3>3, <3>4, <3>5, <3>7, CarriedGrows
  <2> QED BY <1>5, <2>1, <2>2, <2>3 DEF RegisterStep
<1>6. ASSUME NEW l \in Loops, LoopStep(l) PROVE CarriedInv'
  <2>1. OwnerItem'
    BY <1>0, <1>6 DEF LoopStep, TakePending, LoopEnds, OwnerItem, Carrying
  <2>2. PendingYoungest'
    BY <1>0, <1>6 DEF LoopStep, TakePending, LoopEnds, PendingYoungest, Carrying
  <2>3. UNCHANGED <<version, requests, blank, wanted, durable, lastGen, nextGen, unsure, faults>>
    BY <1>6 DEF LoopStep, TakePending, LoopEnds, storageVars
  <2> QED BY <1>0, <1>6, <2>1, <2>2, <2>3, TicketsMove, CarriedKept DEF LoopStep
<1>7. ASSUME NEW w \in Writers, PersistStep(w) PROVE CarriedInv'
  <2>1. Tickets' \subseteq Tickets
    BY <1>7, TicketsMove DEF PersistStep
  <2>2. /\ \A u \in Writers : Carrying(u)' => Carrying(u)
        /\ UNCHANGED <<version, requests, blank, wanted, item, nextGen, pending>>
    BY <1>7 DEF PersistStep, Skip, Write, Written, WriteFails, Record, After, Carrying,
                stateVars, storageVars
  <2>3. \/ UNCHANGED lastGen
        \/ Carrying(w) /\ lastGen' = item[w].gen
    BY <1>7 DEF PersistStep, Skip, Write, Written, WriteFails, Record, Carrying, stateVars
  <2>4. Carrying(w) => item[w] \in Tickets
    BY DEF Tickets
  <2>5. lastGen' <= nextGen' /\ PendingYoungest' /\ OwnerItem'
    BY <1>0, <2>2, <2>3, <2>4 DEF PendingYoungest, OwnerItem, OrderInv, Numbered
  <2>6. durable' <= wanted /\ (unsure' => faults' > 0)
    <3>1. durable' = durable \/ (Carrying(w) /\ durable' = item[w].version)
      BY <1>7 DEF PersistStep, Skip, Write, Written, WriteFails, Record, Carrying,
                  stateVars, storageVars
    <3>2. UNCHANGED <<unsure, faults>> \/ faults' = faults + 1
      BY <1>7 DEF PersistStep, Skip, Write, Written, WriteFails, Record, storageVars
    <3>3. faults >= 0
      BY DEF TypeOK
    <3> QED BY <1>0, <2>4, <3>1, <3>2, <3>3 DEF CarriedInv, WantedNewest
  <2> QED BY <2>1, <2>2, <2>5, <2>6, CarriedKept
<1>8. CASE UNCHANGED vars
  <2>1. Tickets' = Tickets /\ PendingYoungest' /\ OwnerItem'
    BY <1>0, <1>8 DEF vars, stateVars, Tickets, Carrying, PendingYoungest, OwnerItem
  <2> QED BY <1>0, <1>8, <2>1, CarriedKept DEF vars, stateVars, storageVars
<1> QED BY <1>1, <1>2, <1>3, <1>4, <1>5, <1>6, <1>7, <1>8 DEF Next


-----------------------------------------------------------------------------
\* A version whose hash is remembered as persisted is the durable content.
LEMMA PersistedIsDurable ==
  ASSUME TypeOK, CarriedInv, DurableInv, ~unsure,
         NEW v \in Versions, lastHash = Hash(v), durable <= v
  PROVE  Hash(durable) = Hash(v)
<1> USE TicketTypes, VersionInts
<1>1. lastHash # NoHash /\ v \in Int
  BY NoHashIsNone, BoundsAssumption DEF Versions
<1>2. CASE \A w \in Writers : phase[w] # "written"
  BY <1>1, <1>2 DEF DurableInv, HashIsDurable
<1>3. CASE \E w \in Writers : phase[w] = "written"
  <2>1. PICK w \in Writers : phase[w] = "written"
    BY <1>3
  <2>2. durable = item[w].version /\ item[w] \in Tickets
    BY <2>1 DEF DurableInv, WrittenIsDurable, Tickets, Carrying
  <2>3. PICK u \in Versions : u <= durable /\ Hash(u) = lastHash
    BY <1>1 DEF DurableInv, HashIsOlder
  <2>4. u = v \/ v \in blank
    BY <2>3, SameHash DEF CarriedInv, BlankFirst
  <2>5. v \in blank => v <= durable
    BY <2>2 DEF CarriedInv, BlankFirst
  <2>6. durable = v
    BY <1>1, <2>3, <2>4, <2>5
  <2> QED BY <2>6
<1> QED BY <1>2, <1>3

\* A snapshot between the durable one and version v has the content of v, if the
\* durable one has.
LEMMA BetweenIsSame ==
  ASSUME TypeOK, CarriedInv, NEW v \in Versions, NEW x \in Tickets,
         Hash(durable) = Hash(v), durable <= x.version, x.version <= v
  PROVE  Hash(x.version) = Hash(v)
<1> USE TicketTypes, VersionInts
<1>1. v \in Int /\ durable \in Versions
  BY BoundsAssumption DEF Versions, TypeOK
<1>2. durable = v \/ v \in blank
  BY <1>1, SameHash DEF CarriedInv, BlankFirst
<1>3. x.version = v
  BY <1>1, <1>2 DEF CarriedInv, BlankFirst
<1> QED BY <1>3

\* A step that writes and records nothing.
LEMMA DurableKept ==
  ASSUME TypeOK, TypeOK', CarriedInv, DurableInv,
         UNCHANGED <<durable, lastHash, lastGen, unsure>>,
         \A v \in Versions : v <= version => Hash(v)' = Hash(v),
         \A w \in Writers : /\ phase'[w] = "written" <=> phase[w] = "written"
                            /\ phase[w] = "written" => item'[w] = item[w],
         \A x \in Tickets' : x \in Tickets \/ (x.gen > lastGen /\ ~Overtaken(x)),
         ~unsure => FlushedIsDurable'
  PROVE  DurableInv'
<1> SUFFICES ASSUME ~unsure
             PROVE  (WrittenIsDurable /\ SkippedIsOlder /\ HashIsOlder /\ HashIsDurable)'
  BY DEF DurableInv
<1> USE TicketTypes, VersionInts
<1>1. durable \in Versions /\ durable <= version
  BY DEF TypeOK, CarriedInv, WantedNewest
<1>2. \A u \in Versions : u <= durable => u <= version
  BY <1>1, BoundsAssumption DEF Versions
<1>3. WrittenIsDurable'
  BY DEF DurableInv, WrittenIsDurable
<1>4. SkippedIsOlder'
  <2>1. \A x \in Tickets' : Overtaken(x)' => Overtaken(x)
    BY DEF Overtaken
  <2>2. \A x \in Tickets' : x.gen \in Int
    BY BoundsAssumption, SnapshotFacts DEF TypeOK, Tickets
  <2> QED BY <2>1, <2>2 DEF DurableInv, SkippedIsOlder
<1>5. HashIsOlder'
  BY <1>2 DEF DurableInv, HashIsOlder
<1>6. HashIsDurable'
  BY <1>1 DEF DurableInv, HashIsDurable
<1> QED BY <1>3, <1>4, <1>5, <1>6

LEMMA DurableStep ==
  ASSUME InOrder, QuietResets, TypeOK, TypeOK', OrderInv, CarriedInv, DurableInv, [Next]_vars
  PROVE  DurableInv'
<1> USE TicketTypes, VersionInts, WritersFacts
<1>0. /\ version \in Versions /\ durable \in Versions /\ durable <= version
      /\ OwnerItem
  BY DEF TypeOK, CarriedInv, WantedNewest
<1>h. UNCHANGED blank => \A v \in Versions : Hash(v)' = Hash(v)
  BY DEF Hash
<1>n. \A x : x.gen = nextGen + 1 => x.gen > lastGen /\ ~Overtaken(x)
  <2>1. \A w \in Writers : phase[w] = "written" => item[w].gen <= nextGen
    BY DEF OrderInv, Numbered, Tickets, Carrying
  <2> QED BY <2>1 DEF Overtaken, CarriedInv, Generations
<1>1. CASE Edit
  <2>1. /\ UNCHANGED <<durable, lastHash, lastGen, unsure, blank, item>> /\ phase'[Owner] = "off"
        /\ \A w \in Writers : phase'[w] = "written" <=> phase[w] = "written"
    BY <1>1 DEF Edit, OwnerFree, stateVars, storageVars
  <2>2. FlushedIsDurable'
    BY <2>1 DEF FlushedIsDurable
  <2> QED BY <1>1, <1>h, <2>1, <2>2, TicketsMove, DurableKept
<1>2. CASE Reset
  <2>1. /\ Quiet /\ UNCHANGED <<durable, unsure, item>> /\ phase'[Owner] = "off"
        /\ blank' = blank \cup {version + 1}
        /\ \A w \in Writers : phase'[w] # "written" /\ phase[w] # "written"
    BY <1>2 DEF Reset, Quiet, OwnerFree, Writers, NextVersion, storageVars
  <2>2. Tickets' = {}
    BY <1>2, <2>1, TicketsMove
  <2>3. FlushedIsDurable'
    BY <2>1 DEF FlushedIsDurable
  <2>4. \A v \in Versions : v <= version => Hash(v)' = Hash(v)
    <3>1. \A v \in Versions : v <= version => v # version + 1
      BY BoundsAssumption DEF Versions
    <3> QED BY <2>1, <3>1 DEF Hash
  <2>5. CASE UNCHANGED stateVars
    BY <2>1, <2>2, <2>3, <2>4, <2>5, DurableKept DEF stateVars
  <2>6. CASE ForgetState
    BY <2>1, <2>2, <2>3, <2>6
    DEF ForgetState, DurableInv, WrittenIsDurable, SkippedIsOlder, HashIsOlder, HashIsDurable
  <2> QED BY <1>2, <2>5, <2>6 DEF Reset
<1>3. CASE Request
  <2>1. UNCHANGED <<durable, lastHash, lastGen, unsure, blank, item, phase, version>>
    BY <1>3 DEF Request, stateVars, storageVars
  <2>2. ~unsure => FlushedIsDurable'
    BY <2>1 DEF DurableInv, FlushedIsDurable, Hash
  <2> QED BY <1>3, <1>h, <2>1, <2>2, TicketsMove, DurableKept
<1>4. CASE Flush
  <2>1. /\ UNCHANGED <<durable, lastHash, lastGen, unsure, blank, version>>
        /\ \A w \in Writers : /\ phase'[w] = "written" <=> phase[w] = "written"
                              /\ phase[w] = "written" => item'[w] = item[w]
    BY <1>4 DEF Flush, OwnerFree, storageVars
  <2>2. ~unsure => FlushedIsDurable'
    <3>1. CASE lastHash = Hash(version)
      <4>1. ~unsure => Hash(durable) = Hash(version)
        BY <1>0, <3>1, PersistedIsDurable
      <4> QED BY <2>1, <4>1 DEF FlushedIsDurable, Hash
    <3>2. CASE lastHash # Hash(version)
      <4>1. phase'[Owner] = "queued"
        BY <1>4, <3>2 DEF Flush
      <4> QED BY <4>1 DEF FlushedIsDurable
    <3> QED BY <3>1, <3>2
  <2>3. \A x \in Tickets' : x \in Tickets \/ (x.gen > lastGen /\ ~Overtaken(x))
    BY <1>4, <1>n, TicketsMove
  <2> QED BY <1>h, <2>1, <2>2, <2>3, DurableKept
<1>5. ASSUME NEW q \in requests, RegisterStep(q) PROVE DurableInv'
  <2>1. UNCHANGED <<durable, lastHash, lastGen, unsure, blank, item, version>>
    BY <1>5 DEF RegisterStep, RegisterPersisted, RegisterPending, Register, stateVars, storageVars
  <2>2. /\ \A w \in Writers : phase'[w] = "written" <=> phase[w] = "written"
        /\ phase'[Owner] = phase[Owner]
    <3>1. CASE UNCHANGED phase
      BY <3>1
    <3>2. CASE \E l \in Loops : /\ phase[l] = "off"
                                /\ phase' = [phase EXCEPT ![l] = "sleeping"]
      BY <3>2
    <3> QED BY <1>5, <3>1, <3>2 DEF RegisterStep, RegisterPersisted, RegisterPending, Register
  <2>3. ~unsure => FlushedIsDurable'
    BY <2>1, <2>2 DEF DurableInv, FlushedIsDurable, Hash
  <2>4. \A x \in Tickets' : x \in Tickets \/ (x.gen > lastGen /\ ~Overtaken(x))
    BY <1>5, <1>n, TicketsMove DEF RegisterStep
  <2> QED BY <1>h, <2>1, <2>2, <2>3, <2>4, DurableKept
<1>6. ASSUME NEW l \in Loops, LoopStep(l) PROVE DurableInv'
  <2>1. /\ UNCHANGED <<durable, lastHash, lastGen, unsure, blank, version>>
        /\ \A w \in Writers : /\ phase'[w] = "written" <=> phase[w] = "written"
                              /\ phase[w] = "written" => item'[w] = item[w]
        /\ phase'[Owner] = phase[Owner]
    BY <1>6 DEF LoopStep, TakePending, LoopEnds, storageVars
  <2>2. ~unsure => FlushedIsDurable'
    BY <2>1 DEF DurableInv, FlushedIsDurable, Hash
  <2>3. Tickets' = Tickets
    BY <1>6, TicketsMove DEF LoopStep
  <2> QED BY <1>h, <2>1, <2>2, <2>3, DurableKept
<1>7. ASSUME NEW w \in Writers, PersistStep(w) PROVE DurableInv'
  <2>0. UNCHANGED <<version, blank, item, wanted>>
    BY <1>7 DEF PersistStep, Skip, Write, Written, WriteFails, Record
  <2>t. Tickets' \subseteq Tickets
    BY <1>7, TicketsMove DEF PersistStep
  <2>1. CASE Skip(w)
    <3>1. /\ UNCHANGED <<durable, lastHash, lastGen, unsure>>
          /\ \A u \in Writers : phase'[u] = "written" <=> phase[u] = "written"
      BY <2>1 DEF Skip, After, stateVars, storageVars
    <3>2. ~unsure => FlushedIsDurable'
      <4>1. CASE w # Owner
        <5>1. phase'[Owner] = phase[Owner]
          BY <2>1, <4>1 DEF Skip
        <5> QED BY <2>0, <3>1, <5>1 DEF DurableInv, FlushedIsDurable, Hash
      <4>2. CASE w = Owner
        <5>1. /\ item[Owner].version = version /\ item[Owner] \in Tickets
              /\ lastHash = Hash(version) \/ item[Owner].gen <= lastGen
          BY <1>0, <2>1, <4>2 DEF Skip, Stale, OwnerItem, Carrying, Tickets
        <5>2. ~unsure => Hash(durable) = Hash(version)
          <6>1. CASE lastHash = Hash(version)
            BY <1>0, <6>1, PersistedIsDurable
          <6>2. CASE item[Owner].gen <= lastGen
            BY <1>0, <5>1, <6>2 DEF DurableInv, SkippedIsOlder
          <6> QED BY <5>1, <6>1, <6>2
        <5> QED BY <2>0, <3>1, <5>2 DEF FlushedIsDurable, Hash
      <4> QED BY <4>1, <4>2
    <3> QED BY <1>h, <2>0, <2>t, <3>1, <3>2, DurableKept
  <2>2. CASE Write(w)
    <3>1. /\ UNCHANGED <<durable, lastHash, lastGen, unsure>>
          /\ \A u \in Writers : phase'[u] = "written" <=> phase[u] = "written"
          /\ phase'[Owner] = "ok" => phase[Owner] = "ok"
      BY <2>2 DEF Write, stateVars, storageVars
    <3>2. ~unsure => FlushedIsDurable'
      BY <2>0, <3>1 DEF DurableInv, FlushedIsDurable, Hash
    <3> QED BY <1>h, <2>0, <2>t, <3>1, <3>2, DurableKept
  <2>3. CASE Written(w)
    <3>1. /\ phase[w] = "writing" /\ phase' = [phase EXCEPT ![w] = "written"]
          /\ durable' = item[w].version /\ UNCHANGED <<lastHash, lastGen, unsure>>
      BY <2>3 DEF Written, stateVars
    <3>2. item[w] \in Tickets /\ item[w].version <= version
      BY <3>1 DEF Tickets, Carrying, OrderInv, NothingNewer
    <3> SUFFICES ASSUME ~unsure
                 PROVE  (/\ WrittenIsDurable /\ SkippedIsOlder /\ HashIsOlder /\ HashIsDurable
                         /\ FlushedIsDurable)'
      BY <3>1 DEF DurableInv
    <3>3. durable <= item[w].version
      BY <3>1, WriteIsFresh
    <3>4. \A u \in Writers : phase'[u] = "written" => u = w
      BY <3>1 DEF OrderInv, OneWriter, Locking
    <3>5. WrittenIsDurable'
      BY <2>0, <3>1, <3>4 DEF WrittenIsDurable
    <3>6. SkippedIsOlder'
      <4> SUFFICES ASSUME NEW x \in Tickets, x.gen <= lastGen \/ Overtaken(x)'
                   PROVE  x.version <= item[w].version
        BY <2>t, <3>1 DEF SkippedIsOlder
      <4>1. CASE x.gen <= lastGen
        BY <3>2, <3>3, <4>1 DEF DurableInv, SkippedIsOlder
      <4>2. CASE Overtaken(x)'
        <5>1. item[w].gen >= x.gen
          BY <2>0, <3>4, <4>2 DEF Overtaken
        <5> QED BY <3>2, <5>1 DEF OrderInv, Monotone, CarriedInv, Generations
      <4> QED BY <4>1, <4>2
    <3>7. HashIsOlder'
      <4>1. \A u \in Versions : u <= durable => u <= item[w].version
        BY <3>2, <3>3, BoundsAssumption DEF Versions
      <4> QED BY <1>h, <2>0, <3>1, <4>1 DEF DurableInv, HashIsOlder
    <3>8. HashIsDurable'
      BY <3>1 DEF HashIsDurable
    <3>9. FlushedIsDurable'
      <4> SUFFICES ASSUME phase'[Owner] = "ok" PROVE Hash(item[w].version) = Hash(version)
        BY <2>0, <3>1 DEF FlushedIsDurable, Hash
      <4>1. phase[Owner] = "ok"
        BY <3>1
      <4>2. Hash(durable) = Hash(version)
        BY <4>1 DEF DurableInv, FlushedIsDurable
      <4> QED BY <1>0, <3>2, <3>3, <4>2, BetweenIsSame
    <3> QED BY <3>5, <3>6, <3>7, <3>8, <3>9
  <2>4. CASE WriteFails(w)
    <3>1. CASE UNCHANGED <<durable, unsure>>
      <4>1. /\ UNCHANGED <<lastHash, lastGen>>
            /\ \A u \in Writers : phase'[u] = "written" <=> phase[u] = "written"
            /\ phase'[Owner] = "ok" => phase[Owner] = "ok"
        BY <2>4 DEF WriteFails, After, stateVars
      <4>2. ~unsure => FlushedIsDurable'
        BY <2>0, <3>1, <4>1 DEF DurableInv, FlushedIsDurable, Hash
      <4> QED BY <1>h, <2>0, <2>t, <3>1, <4>1, <4>2, DurableKept
    <3>2. CASE unsure' = TRUE
      BY <3>2 DEF DurableInv
    <3> QED BY <2>4, <3>1, <3>2 DEF WriteFails
  <2>5. CASE Record(w)
    <3>1. /\ phase[w] = "written" /\ UNCHANGED <<durable, unsure>>
          /\ item[w].gen > lastGen
      BY <2>5 DEF Record, OrderInv, Checked, Locking, storageVars
    <3>2. lastGen' = item[w].gen /\ lastHash' = Hash(item[w].version)
      BY <2>5, <3>1 DEF Record
    <3>3. \A u \in Writers : phase'[u] # "written"
      BY <2>5, <3>1 DEF Record, After, OrderInv, OneWriter, Locking
    <3> SUFFICES ASSUME ~unsure
                 PROVE  (/\ WrittenIsDurable /\ SkippedIsOlder /\ HashIsOlder /\ HashIsDurable
                         /\ FlushedIsDurable)'
      BY <3>1 DEF DurableInv
    <3>4. durable = item[w].version
      BY <3>1 DEF DurableInv, WrittenIsDurable
    <3>5. WrittenIsDurable'
      BY <3>3 DEF WrittenIsDurable
    <3>6. SkippedIsOlder'
      <4> SUFFICES ASSUME NEW x \in Tickets, x.gen <= item[w].gen PROVE x.version <= durable
        BY <2>t, <3>1, <3>2, <3>3 DEF SkippedIsOlder, Overtaken
      <4>1. Overtaken(x)
        BY <3>1 DEF Overtaken
      <4> QED BY <4>1 DEF DurableInv, SkippedIsOlder
    <3>7. HashIsOlder' /\ HashIsDurable'
      BY <1>0, <1>h, <2>0, <3>1, <3>2, <3>4 DEF HashIsOlder, HashIsDurable, Hash
    <3>8. FlushedIsDurable'
      <4>1. CASE w = Owner
        <5>1. item[Owner].version = version
          BY <1>0, <3>1, <4>1 DEF OwnerItem, Carrying
        <5> QED BY <2>0, <3>1, <3>4, <4>1, <5>1 DEF FlushedIsDurable, Hash
      <4>2. CASE w # Owner
        <5>1. phase'[Owner] = phase[Owner]
          BY <2>5, <4>2 DEF Record
        <5> QED BY <2>0, <3>1, <5>1 DEF DurableInv, FlushedIsDurable, Hash
      <4> QED BY <4>1, <4>2
    <3> QED BY <3>5, <3>6, <3>7, <3>8
  <2> QED BY <1>7, <2>1, <2>2, <2>3, <2>4, <2>5 DEF PersistStep
<1>8. CASE UNCHANGED vars
  <2>1. UNCHANGED <<durable, lastHash, lastGen, unsure, blank, item, phase, version, pending>>
    BY <1>8 DEF vars, stateVars, storageVars
  <2>2. Tickets' = Tickets
    BY <2>1 DEF Tickets, Carrying
  <2>3. ~unsure => FlushedIsDurable'
    BY <2>1 DEF DurableInv, FlushedIsDurable, Hash
  <2> QED BY <1>h, <2>1, <2>2, <2>3, DurableKept
<1> QED BY <1>1, <1>2, <1>3, <1>4, <1>5, <1>6, <1>7, <1>8 DEF Next


-----------------------------------------------------------------------------
\* A step that leaves what is under way where it is.
LEMMA WayKept ==
  ASSUME TypeOK, OnItsWay, faults' >= faults, faults' \in 0..MaxFaults,
         UNCHANGED <<durable, wanted, blank, lastGen, requests>>, Tickets' = Tickets,
         \A w \in Writers : phase'[w] = "written" => phase[w] = "written" /\ item'[w] = item[w]
  PROVE  OnItsWay'
<1>1. faults' = 0 => faults = 0
  BY BoundsAssumption DEF TypeOK
<1>2. \A x : Overtaken(x)' => Overtaken(x)
  BY DEF Overtaken
<1>3. \A v : Hash(v)' = Hash(v)
  BY DEF Hash
<1>4. Hash(durable)' = Hash(durable) /\ Hash(wanted)' = Hash(wanted)
  BY DEF Hash
<1> QED BY <1>1, <1>2, <1>3, <1>4 DEF OnItsWay, Youngest

\* A snapshot that was just registered is younger than all that are under way.
LEMMA WayOfNewest ==
  ASSUME NEW t, t \in Tickets', Tickets' \subseteq Tickets \cup {t},
         t.version = wanted', t.gen \in Int, t.gen > lastGen, ~Overtaken(t),
         \A y \in Tickets : y.gen \in Int /\ y.gen < t.gen,
         UNCHANGED lastGen,
         \A w \in Writers : phase'[w] = "written" => phase[w] = "written" /\ item'[w] = item[w]
  PROVE  OnItsWay'
<1>1. ~Overtaken(t)'
  BY DEF Overtaken
<1>2. Youngest(t)'
  BY <1>1 DEF Youngest
<1>3. Hash(t.version)' = Hash(wanted)'
  BY DEF Hash
<1> QED BY <1>2, <1>3 DEF OnItsWay

LEMMA WayStep ==
  ASSUME InOrder, QuietResets, TypeOK, TypeOK', OrderInv, CarriedInv, DurableInv, OnItsWay,
         [Next]_vars
  PROVE  OnItsWay'
<1> USE TicketTypes, VersionInts, WritersFacts
<1>0. /\ version \in Versions /\ durable \in Versions /\ wanted \in Versions
      /\ durable <= version /\ durable <= wanted /\ wanted <= version
      /\ faults \in 0..MaxFaults /\ faults' \in 0..MaxFaults
      /\ (faults = 0 => ~unsure)
  BY DEF TypeOK, CarriedInv, WantedNewest
<1>q. \A q \in requests : q.version = wanted
  BY DEF CarriedInv, WantedNewest
<1>n. \A x : x.gen = nextGen + 1 => x.gen > lastGen /\ ~Overtaken(x) /\ \A y \in Tickets : y.gen < x.gen
  <2>1. \A w \in Writers : phase[w] = "written" => item[w].gen <= nextGen
    BY DEF OrderInv, Numbered, Tickets, Carrying
  <2>2. \A y \in Tickets : y.gen <= nextGen
    BY DEF OrderInv, Numbered
  <2> QED BY <2>1, <2>2 DEF Overtaken, CarriedInv, Generations
<1>1. CASE Edit
  <2>1. /\ UNCHANGED <<durable, wanted, blank, lastGen, requests, faults, item>>
        /\ \A w \in Writers : phase'[w] = "written" => phase[w] = "written"
    BY <1>1 DEF Edit, stateVars, storageVars
  <2> QED BY <1>0, <1>1, <2>1, TicketsMove, WayKept
<1>2. CASE Reset
  <2>1. /\ Quiet /\ blank' = blank \cup {version + 1} /\ UNCHANGED <<durable, wanted, faults, requests>>
    BY <1>2 DEF Reset, NextVersion, storageVars
  <2>2. Tickets = {} /\ requests = {}
    BY <1>2, <2>1, TicketsMove DEF Quiet
  <2>3. Hash(durable)' = Hash(durable) /\ Hash(wanted)' = Hash(wanted)
    <3>1. durable # version + 1 /\ wanted # version + 1
      BY <1>0
    <3> QED BY <2>1, <3>1 DEF Hash
  <2> QED BY <2>1, <2>2, <2>3 DEF OnItsWay
<1>3. CASE Request
  <2>1. requests' # {}
    BY <1>3 DEF Request
  <2> QED BY <2>1 DEF OnItsWay
<1>4. CASE Flush
  <2>1. /\ wanted' = version
        /\ UNCHANGED <<version, blank, durable, lastGen, faults, unsure>>
        /\ \A w \in Writers : phase'[w] = "written" => phase[w] = "written" /\ item'[w] = item[w]
    BY <1>4 DEF Flush, OwnerFree, storageVars
  <2>2. CASE lastHash = Hash(version)
    <3>1. faults = 0 => Hash(durable) = Hash(version)
      BY <1>0, <2>2, PersistedIsDurable
    <3>2. Hash(durable)' = Hash(durable) /\ Hash(wanted)' = Hash(version)
      BY <2>1 DEF Hash
    <3> QED BY <2>1, <3>1, <3>2 DEF OnItsWay
  <2>3. CASE lastHash # Hash(version)
    <3>1. PICK t \in {[version |-> version, gen |-> nextGen + 1]} : TRUE
      OBVIOUS
    <3>2. t.version = wanted' /\ t.gen = nextGen + 1
      BY <2>1, <3>1
    <3>3. t \in Tickets' /\ Tickets' \subseteq Tickets \cup {t}
      <4>1. /\ pending' = Nothing /\ item' = [item EXCEPT ![Owner] = t]
            /\ phase' = [phase EXCEPT ![Owner] = "queued"]
        BY <1>4, <2>3, <3>1 DEF Flush
      <4> QED BY <1>4, <4>1, TicketsMove DEF Tickets, Carrying, TypeOK
    <3>4. t.gen \in Int
      BY <1>0, <3>2 DEF TypeOK
    <3> QED BY <1>n, <2>1, <3>2, <3>3, <3>4, WayOfNewest
  <2> QED BY <2>2, <2>3
<1>5. ASSUME NEW q \in requests, RegisterStep(q) PROVE OnItsWay'
  <2>0. /\ UNCHANGED <<durable, wanted, blank, lastGen, faults, item, version>>
        /\ \A w \in Writers : phase'[w] = "written" => phase[w] = "written"
    <3>1. CASE UNCHANGED phase
      BY <1>5, <3>1
      DEF RegisterStep, RegisterPersisted, RegisterPending, Register, stateVars, storageVars
    <3>2. CASE \E l \in Loops : /\ phase[l] = "off"
                                /\ phase' = [phase EXCEPT ![l] = "sleeping"]
      BY <1>5, <3>2
      DEF RegisterStep, RegisterPersisted, RegisterPending, Register, stateVars, storageVars
    <3> QED BY <1>5, <3>1, <3>2 DEF RegisterStep, RegisterPersisted, RegisterPending, Register
  <2>h. /\ Hash(durable)' = Hash(durable) /\ Hash(wanted)' = Hash(wanted)
        /\ \A v : Hash(v)' = Hash(v)
    BY <2>0 DEF Hash
  <2>o. \A x : Overtaken(x)' => Overtaken(x)
    BY <2>0 DEF Overtaken
  <2>1. CASE RegisterPersisted(q)
    <3>1. faults = 0 => Hash(durable) = Hash(wanted)
      BY <1>0, <1>q, <2>1, PersistedIsDurable DEF RegisterPersisted
    <3> QED BY <2>0, <2>h, <3>1 DEF OnItsWay
  <2>2. CASE RegisterPending(q)
    <3>1. pending \in Tickets /\ Hash(pending.version) = Hash(wanted)
      BY <1>q, <2>2 DEF RegisterPending, Tickets
    <3>2. Youngest(pending)
      <4>1. pending.gen > lastGen /\ \A w \in Writers : Carrying(w) => item[w].gen < pending.gen
        BY <2>2 DEF RegisterPending, CarriedInv, PendingYoungest
      <4>2. ~Overtaken(pending)
        BY <4>1 DEF Overtaken, Carrying
      <4> QED BY <4>1, <4>2 DEF Youngest, Tickets
    <3>3. Tickets' = Tickets
      BY <2>2, TicketsMove
    <3>4. Youngest(pending)'
      BY <2>0, <2>2, <2>o, <3>2, <3>3 DEF Youngest, RegisterPending, stateVars
    <3>5. pending' = pending
      BY <2>2 DEF RegisterPending, stateVars
    <3> QED BY <2>h, <3>1, <3>3, <3>4, <3>5 DEF OnItsWay
  <2>3. CASE Register(q)
    <3>1. pending' \in Snapshots /\ pending'.version = wanted' /\ pending'.gen = nextGen + 1
      BY <1>q, <2>0, <2>3 DEF Register, TypeOK
    <3>2. PICK t \in Snapshots : t = pending'
      BY <3>1
    <3>3. t # Nothing
      <4>1. Nothing.gen = 0 /\ nextGen >= 0
        BY BoundsAssumption DEF Nothing, TypeOK
      <4> QED BY <3>1, <3>2, <4>1
    <3>4. t \in Tickets' /\ Tickets' \subseteq Tickets \cup {t}
      <4>1. t = [version |-> q.version, gen |-> nextGen + 1]
        BY <2>3, <3>2 DEF Register
      <4>2. Tickets' \subseteq Tickets \cup {t}
        BY <2>3, <4>1, TicketsMove
      <4>3. t \in Tickets'
        BY <3>2, <3>3 DEF Tickets
      <4> QED BY <4>2, <4>3
    <3>5. t.gen \in Int
      BY <3>2 DEF Snapshots
    <3> QED BY <1>n, <2>0, <3>1, <3>2, <3>4, <3>5, WayOfNewest
  <2> QED BY <1>5, <2>1, <2>2, <2>3 DEF RegisterStep
<1>6. ASSUME NEW l \in Loops, LoopStep(l) PROVE OnItsWay'
  <2>1. /\ UNCHANGED <<durable, wanted, blank, lastGen, requests, faults>>
        /\ \A w \in Writers : phase'[w] = "written" => phase[w] = "written" /\ item'[w] = item[w]
    BY <1>6 DEF LoopStep, TakePending, LoopEnds, storageVars
  <2>2. Tickets' = Tickets
    BY <1>6, TicketsMove DEF LoopStep
  <2> QED BY <1>0, <2>1, <2>2, WayKept
<1>7. ASSUME NEW w \in Writers, PersistStep(w) PROVE OnItsWay'
  <2>0. /\ UNCHANGED <<version, blank, item, wanted, requests>>
        /\ \A v : Hash(v)' = Hash(v)
    BY <1>7 DEF PersistStep, Skip, Write, Written, WriteFails, Record, Hash
  <2>w. item[w] \in Tickets
    BY <1>7 DEF PersistStep, Skip, Write, Written, WriteFails, Record, Tickets, Carrying
  <2>1. CASE Skip(w)
    <3>1. /\ UNCHANGED <<durable, lastHash, lastGen, faults>> /\ LockFree /\ Stale(w)
          /\ \A u \in Writers : phase'[u] # "written" /\ phase[u] # "written"
      BY <2>1 DEF Skip, After, LockFree, stateVars, storageVars
    <3> SUFFICES ASSUME faults = 0, Hash(durable) # Hash(wanted), requests = {}
                 PROVE  \E x \in Tickets' : Hash(x.version)' = Hash(wanted) /\ Youngest(x)'
      BY <2>0, <3>1 DEF OnItsWay, Hash
    <3>2. PICK x \in Tickets : Hash(x.version) = Hash(wanted) /\ Youngest(x)
      BY DEF OnItsWay
    <3>3. x # item[w]
      <4> SUFFICES ASSUME x = item[w] PROVE FALSE
        OBVIOUS
      <4>1. lastHash # Hash(wanted)
        BY <1>0, PersistedIsDurable
      <4>2. x.gen > lastGen /\ pending.gen > x.gen
        BY <3>1, <3>2, <4>1 DEF Stale, Youngest
      <4>3. pending = Nothing
        BY <3>2, <4>2 DEF Youngest, Tickets
      <4> QED BY <4>2, <4>3, BoundsAssumption DEF Nothing, Youngest, TypeOK
    <3>4. x \in Tickets' /\ Tickets' \subseteq Tickets
      BY <2>1, <3>3, TicketsMove
    <3>5. Youngest(x)'
      BY <3>1, <3>2, <3>4 DEF Youngest, Overtaken
    <3> QED BY <2>0, <3>2, <3>4, <3>5
  <2>2. CASE Write(w)
    <3>1. /\ UNCHANGED <<durable, lastGen, faults>>
          /\ \A u \in Writers : phase'[u] = "written" => phase[u] = "written"
      BY <2>2 DEF Write, stateVars, storageVars
    <3> QED BY <1>0, <2>0, <2>2, <3>1, TicketsMove, WayKept
  <2>3. CASE Written(w)
    <3>1. /\ phase[w] = "writing" /\ phase' = [phase EXCEPT ![w] = "written"]
          /\ durable' = item[w].version /\ UNCHANGED <<lastGen, faults, unsure>>
      BY <2>3 DEF Written, stateVars
    <3>2. Tickets' = Tickets
      BY <2>3, TicketsMove
    <3> SUFFICES ASSUME faults = 0, requests = {}, Hash(item[w].version) # Hash(wanted)
                 PROVE  \E x \in Tickets' : Hash(x.version)' = Hash(wanted) /\ Youngest(x)'
      BY <2>0, <3>1 DEF OnItsWay, Hash
    <3>3. Hash(durable) # Hash(wanted)
      <4>1. durable <= item[w].version /\ item[w].version <= wanted
        BY <1>0, <2>w, <3>1, WriteIsFresh DEF CarriedInv, WantedNewest
      <4> QED BY <1>0, <2>w, <4>1, BetweenIsSame
    <3>4. PICK x \in Tickets : Hash(x.version) = Hash(wanted) /\ Youngest(x)
      BY <3>3 DEF OnItsWay
    <3>5. item[w].gen < x.gen
      BY <2>w, <3>4 DEF Youngest, CarriedInv, Generations
    <3>6. Youngest(x)'
      <4>1. Overtaken(x)' => Overtaken(x) \/ item[w].gen >= x.gen
        BY <2>0, <3>1 DEF Overtaken
      <4> QED BY <3>1, <3>2, <3>4, <3>5, <4>1 DEF Youngest
    <3> QED BY <2>0, <3>2, <3>4, <3>6
  <2>4. CASE WriteFails(w)
    <3>1. faults' > 0
      BY <1>0, <2>4, BoundsAssumption DEF WriteFails
    <3> QED BY <3>1 DEF OnItsWay
  <2>5. CASE Record(w)
    <3>1. /\ phase[w] = "written" /\ UNCHANGED <<durable, faults>>
          /\ \A u \in Writers : phase'[u] # "written"
      BY <2>5 DEF Record, After, OrderInv, OneWriter, Locking, storageVars
    <3>2. lastGen' = item[w].gen
      BY <2>5, <3>1 DEF Record, OrderInv, Checked, Locking
    <3> SUFFICES ASSUME faults = 0, Hash(durable) # Hash(wanted), requests = {}
                 PROVE  \E x \in Tickets' : Hash(x.version)' = Hash(wanted) /\ Youngest(x)'
      BY <2>0, <3>1 DEF OnItsWay, Hash
    <3>3. PICK x \in Tickets : Hash(x.version) = Hash(wanted) /\ Youngest(x)
      BY DEF OnItsWay
    <3>4. item[w].gen < x.gen
      BY <2>w, <3>1, <3>3 DEF Youngest, Overtaken
    <3>5. x \in Tickets' /\ Tickets' \subseteq Tickets
      BY <2>5, <3>4, TicketsMove
    <3>6. Youngest(x)'
      BY <3>1, <3>2, <3>3, <3>4, <3>5 DEF Youngest, Overtaken
    <3> QED BY <2>0, <3>3, <3>5, <3>6
  <2> QED BY <1>7, <2>1, <2>2, <2>3, <2>4, <2>5 DEF PersistStep
<1>8. CASE UNCHANGED vars
  <2>1. UNCHANGED <<durable, wanted, blank, lastGen, requests, faults, phase, item, pending>>
    BY <1>8 DEF vars, stateVars, storageVars
  <2>2. Tickets' = Tickets
    BY <2>1 DEF Tickets, Carrying
  <2> QED BY <1>0, <2>1, <2>2, WayKept
<1> QED BY <1>1, <1>2, <1>3, <1>4, <1>5, <1>6, <1>7, <1>8 DEF Next

-----------------------------------------------------------------------------
CheckpointInv == OrderInv /\ CarriedInv /\ DurableInv /\ OnItsWay

LEMMA SpecCheckpointInv == ASSUME InOrder, QuietResets PROVE Spec => []CheckpointInv
<1>1. Init => CheckpointInv
  <2> SUFFICES ASSUME Init PROVE CheckpointInv
    OBVIOUS
  <2>1. Tickets = {}
    BY DEF Init, Tickets, Carrying
  <2>2. /\ requests = {} /\ durable = 0 /\ version = 0 /\ wanted = 0 /\ blank = {0}
        /\ lastHash = NoHash /\ lastGen = 0 /\ nextGen = 0 /\ pending = Nothing
        /\ unsure = FALSE
    BY Zenon DEF Init
  <2>3. \A w \in Writers : ~Locking(w) /\ ~Carrying(w) /\ phase[w] = "off"
    BY DEF Init, Locking, Carrying
  <2>4. OrderInv
    BY <2>1, <2>2, <2>3
    DEF OrderInv, OneRequest, OneWriter, Numbered, Monotone, NothingNewer,
        RequestsNewest, Checked, Fresh
  <2>5. CarriedInv
    BY <2>1, <2>2, <2>3
    DEF CarriedInv, BlankFirst, Generations, PendingYoungest, OwnerItem, WantedNewest, Writers
  <2>6. DurableInv
    BY <2>1, <2>2, <2>3
    DEF DurableInv, WrittenIsDurable, SkippedIsOlder, HashIsOlder, HashIsDurable,
        FlushedIsDurable, Hash
  <2>7. OnItsWay
    BY <2>2 DEF OnItsWay, Hash
  <2> QED BY <2>4, <2>5, <2>6, <2>7 DEF CheckpointInv
<1>2. TypeOK /\ TypeOK' /\ CheckpointInv /\ [Next]_vars => CheckpointInv'
  BY OrderStep, CarriedStep, DurableStep, WayStep DEF CheckpointInv
<1> QED BY <1>1, <1>2, TypeCorrect, PTL DEF Spec

\* Under the same two conditions, a flush that returned Ok leaves the session's
\* memory in the storage until the memory changes, whatever loops are under way
\* (persist_memory_checkpoint), unless a failed write was applied.
THEOREM FlushReachesStorage ==
  ASSUME InOrder, QuietResets
  PROVE  Spec => []FlushedIsDurable
<1>1. CheckpointInv => FlushedIsDurable
  BY DEF CheckpointInv, DurableInv, FlushedIsDurable
<1> QED BY SpecCheckpointInv, <1>1, PTL

\* Under the same two conditions, no checkpoint asked for is lost: coalescing,
\* dedupe by hash and skipping by generation only drop what is durable or
\* replaced (persist_memory_checkpoint_background).
THEOREM NothingIsLost ==
  ASSUME InOrder, QuietResets
  PROVE  Spec => []NewestIsDurable
<1>1. TypeOK /\ CheckpointInv => NewestIsDurable
  <2> SUFFICES ASSUME TypeOK, CheckpointInv, Quiet PROVE Tickets = {} /\ requests = {}
    BY DEF CheckpointInv, OnItsWay, NewestIsDurable
  <2> QED BY DEF Quiet, OwnerFree, Tickets, Carrying, Writers
<1> QED BY SpecCheckpointInv, TypeCorrect, <1>1, PTL
UpTo(S, k) == {j \in S : j <= k}
Rank(S, k) == Cardinality(UpTo(S, k))

LEMMA IndicesAreNat ==
  ASSUME NEW n \in Nat, NEW S \in SUBSET (1..n)
  PROVE  \A x \in S : x \in Nat /\ x \in Int /\ 1 <= x /\ x <= n
OBVIOUS

LEMMA FiniteIndices ==
  ASSUME NEW n \in Nat, NEW S \in SUBSET (1..n)
  PROVE  IsFiniteSet(S) /\ Cardinality(S) \in Nat /\ Cardinality(S) <= n
<1>1. IsFiniteSet(1..n) /\ Cardinality(1..n) = n
  <2>1. 1 \in Int /\ n \in Int /\ (n >= 1 \/ n = 0)
    OBVIOUS
  <2> QED BY <2>1, FS_Interval
<1>2. IsFiniteSet(S) /\ Cardinality(S) <= Cardinality(1..n)
  BY <1>1, FS_Subset
<1> QED BY <1>1, <1>2, FS_CardinalityType

LEMMA UpToFacts ==
  ASSUME NEW n \in Nat, NEW S \in SUBSET (1..n), NEW k \in Int
  PROVE  /\ UpTo(S, k) \in SUBSET (1..n) /\ UpTo(S, k) \in SUBSET S
         /\ IsFiniteSet(UpTo(S, k)) /\ Rank(S, k) \in Nat /\ Rank(S, k) <= Cardinality(S)
<1>1. UpTo(S, k) \in SUBSET (1..n) /\ UpTo(S, k) \in SUBSET S
  BY DEF UpTo
<1>2. IsFiniteSet(UpTo(S, k)) /\ Rank(S, k) \in Nat
  BY <1>1, FiniteIndices DEF Rank
<1>3. Rank(S, k) <= Cardinality(S)
  BY <1>1, FiniteIndices, FS_Subset DEF Rank
<1> QED BY <1>1, <1>2, <1>3

LEMMA RankGrows ==
  ASSUME NEW n \in Nat, NEW S \in SUBSET (1..n), NEW k \in Int, NEW l \in S, k < l
  PROVE  Rank(S, k) < Rank(S, l)
<1>1. l \in Int
  BY IndicesAreNat
<1>2. l \notin UpTo(S, k) /\ UpTo(S, k) \cup {l} \in SUBSET UpTo(S, l)
  <2>1. l \in UpTo(S, l) /\ l \notin UpTo(S, k)
    BY <1>1 DEF UpTo
  <2>2. ASSUME NEW x \in UpTo(S, k) PROVE x \in UpTo(S, l)
    <3>1. x \in S /\ x <= k
      BY <2>2 DEF UpTo
    <3>2. x \in Int
      BY <3>1, IndicesAreNat
    <3>3. x <= l
      BY <1>1, <3>1, <3>2
    <3> QED BY <3>1, <3>3 DEF UpTo
  <2> QED BY <2>1, <2>2
<1>3. /\ IsFiniteSet(UpTo(S, k)) /\ IsFiniteSet(UpTo(S, l))
      /\ Rank(S, k) \in Nat /\ Rank(S, l) \in Nat
  BY <1>1, UpToFacts
<1>4. Cardinality(UpTo(S, k) \cup {l}) = Rank(S, k) + 1
  BY <1>2, <1>3, FS_AddElement DEF Rank
<1>5. Cardinality(UpTo(S, k) \cup {l}) <= Rank(S, l)
  BY <1>2, <1>3, FS_Subset DEF Rank
<1> QED BY <1>3, <1>4, <1>5

LEMMA RankOfMember ==
  ASSUME NEW n \in Nat, NEW S \in SUBSET (1..n), NEW k \in S
  PROVE  Rank(S, k) \in 1..Cardinality(S)
<1>1. k \in Int /\ 0 < k /\ 0 \in Int
  BY IndicesAreNat
<1>2. Rank(S, 0) \in Nat /\ Rank(S, k) \in Nat /\ Rank(S, 0) < Rank(S, k)
      /\ Rank(S, k) <= Cardinality(S)
  BY <1>1, RankGrows, UpToFacts
<1> QED BY <1>2, FiniteIndices

LEMMA RankIsInjective ==
  ASSUME NEW n \in Nat, NEW S \in SUBSET (1..n), NEW k \in S, NEW l \in S, Rank(S, k) = Rank(S, l)
  PROVE  k = l
<1>1. k \in Int /\ l \in Int /\ Rank(S, k) \in Nat
  BY IndicesAreNat, UpToFacts
<1>2. k < l => Rank(S, k) < Rank(S, l)
  BY <1>1, RankGrows
<1>3. l < k => Rank(S, l) < Rank(S, k)
  BY <1>1, RankGrows
<1> QED BY <1>1, <1>2, <1>3

LEMMA RankIsOnto ==
  ASSUME NEW n \in Nat, NEW S \in SUBSET (1..n), NEW i \in 1..Cardinality(S)
  PROVE  \E k \in S : Rank(S, k) = i
<1> DEFINE f == [k \in S |-> Rank(S, k)]
           T == 1..Cardinality(S)
<1>1. f \in [S -> T]
  BY RankOfMember
<1>2. \A k, l \in S : f[k] = f[l] => k = l
  BY RankIsInjective
<1>3. f \in Injection(S, T)
  BY <1>1, <1>2 DEF Injection, IsInjective
<1>4. Cardinality(S) \in Nat /\ IsFiniteSet(S)
  BY FiniteIndices
<1>5. IsFiniteSet(T) /\ Cardinality(T) = Cardinality(S)
  BY <1>4, FS_Interval
<1>6. f \in Surjection(S, T)
  <2> HIDE DEF f, T
  <2> QED BY <1>3, <1>4, <1>5, FS_Injection
<1> QED BY <1>6 DEF Surjection

\* Ordered(S) lists every member of S once, at its rank.
LEMMA OrderedFacts ==
  ASSUME NEW n \in Nat, NEW S \in SUBSET (1..n)
  PROVE  /\ DOMAIN Ordered(S) = 1..Cardinality(S) /\ Cardinality(S) \in Nat
         /\ \A i \in 1..Cardinality(S) : Ordered(S)[i] \in S /\ Rank(S, Ordered(S)[i]) = i
         /\ \A k \in S : Rank(S, k) \in 1..Cardinality(S) /\ Ordered(S)[Rank(S, k)] = k
<1>1. Cardinality(S) \in Nat
  BY FiniteIndices
<1>2. Ordered(S) = [i \in 1..Cardinality(S) |-> CHOOSE k \in S : Rank(S, k) = i]
  BY DEF Ordered, Rank, UpTo
<1>3. ASSUME NEW i \in 1..Cardinality(S)
      PROVE  Ordered(S)[i] \in S /\ Rank(S, Ordered(S)[i]) = i
  <2>1. \E k \in S : Rank(S, k) = i
    BY RankIsOnto
  <2>2. Ordered(S)[i] = CHOOSE k \in S : Rank(S, k) = i
    BY <1>2
  <2> QED BY <2>1, <2>2
<1>4. ASSUME NEW k \in S
      PROVE  Rank(S, k) \in 1..Cardinality(S) /\ Ordered(S)[Rank(S, k)] = k
  <2>1. Rank(S, k) \in 1..Cardinality(S)
    BY RankOfMember
  <2> DEFINE i == Rank(S, k)
             l == Ordered(S)[i]
  <2>2. l \in S /\ Rank(S, l) = Rank(S, k)
    BY <1>3, <2>1
  <2> HIDE DEF l
  <2>3. l = k
    BY <2>2, RankIsInjective
  <2> QED BY <2>1, <2>3 DEF l
<1> QED BY <1>1, <1>2, <1>3, <1>4

\* Indices that follow each other in S are listed one after the other.
LEMMA OrderedRun ==
  ASSUME NEW n \in Nat, NEW S \in SUBSET (1..n), NEW j \in S, NEW k \in S, j <= k, j..k \subseteq S
  PROVE  /\ Rank(S, k) = Rank(S, j) + (k - j)
         /\ \A i \in Rank(S, j)..Rank(S, k) : Ordered(S)[i] = j + (i - Rank(S, j))
<1>1. j \in Int /\ k \in Int /\ Rank(S, j) \in Nat
  BY IndicesAreNat, UpToFacts
<1>2. ASSUME NEW l \in j..k
      PROVE  l \in S /\ Rank(S, l) = Rank(S, j) + (l - j)
  <2>1. l \in Int /\ l \in S /\ j <= l
    BY <1>1
  <2> DEFINE R == (j + 1)..l
  <2>2. UpTo(S, l) = UpTo(S, j) \cup R
    <3>1. \A x \in S : x \in Int
      BY IndicesAreNat
    <3>2. \A x \in R : x \in S /\ x <= l
      BY <1>1, <2>1
    <3>3. ASSUME NEW x \in UpTo(S, l) PROVE x \in UpTo(S, j) \cup R
      <4>1. x \in S /\ x <= l /\ x \in Int
        BY <3>1, <3>3 DEF UpTo
      <4>2. x <= j \/ x \in R
        BY <1>1, <2>1, <4>1
      <4> QED BY <4>1, <4>2 DEF UpTo
    <3>4. ASSUME NEW x \in UpTo(S, j) PROVE x \in UpTo(S, l)
      <4>1. x \in S /\ x <= j /\ x \in Int
        BY <3>1, <3>4 DEF UpTo
      <4>2. x <= l
        BY <1>1, <2>1, <4>1
      <4> QED BY <4>1, <4>2 DEF UpTo
    <3>5. ASSUME NEW x \in R PROVE x \in UpTo(S, l)
      BY <3>2 DEF UpTo
    <3> HIDE DEF R
    <3> QED BY <3>3, <3>4, <3>5
  <2>3. UpTo(S, j) \cap R = {}
    BY <1>1, <2>1 DEF UpTo
  <2>4. IsFiniteSet(UpTo(S, j))
    BY <1>1, UpToFacts
  <2>5. IsFiniteSet(R) /\ Cardinality(R) = l - j
    <3>1. j + 1 \in Int /\ (j + 1 > l \/ j + 1 <= l)
      BY <1>1, <2>1
    <3>2. IsFiniteSet(R) /\ Cardinality(R) = IF j + 1 > l THEN 0 ELSE l - (j + 1) + 1
      BY <2>1, <3>1, FS_Interval
    <3> HIDE DEF R
    <3> QED BY <1>1, <2>1, <3>1, <3>2
  <2> HIDE DEF R
  <2>6. Cardinality(UpTo(S, l)) = Cardinality(UpTo(S, j)) + Cardinality(R) - Cardinality(UpTo(S, j) \cap R)
    BY <2>2, <2>4, <2>5, FS_Union
  <2>7. Cardinality(UpTo(S, j) \cap R) = 0
    BY <2>3, FS_EmptySet
  <2> QED BY <1>1, <2>1, <2>5, <2>6, <2>7 DEF Rank
<1>3. Rank(S, k) = Rank(S, j) + (k - j)
  BY <1>1, <1>2
<1>4. ASSUME NEW i \in Rank(S, j)..Rank(S, k)
      PROVE  Ordered(S)[i] = j + (i - Rank(S, j))
  <2> DEFINE l == j + (i - Rank(S, j))
  <2>1. l \in j..k
    BY <1>1, <1>3
  <2>2. Rank(S, l) = i /\ l \in S
    BY <1>1, <1>2, <2>1
  <2> HIDE DEF l
  <2>3. Ordered(S)[Rank(S, l)] = l
    BY <2>2, OrderedFacts
  <2> QED BY <2>2, <2>3 DEF l
<1> QED BY <1>3, <1>4

LEMMA OrderedAll ==
  ASSUME NEW n \in Nat
  PROVE  Ordered(1..n) = [i \in 1..n |-> i]
<1>1. Cardinality(1..n) = n
  BY FS_Interval
<1>2. ASSUME NEW k \in 1..n PROVE Rank(1..n, k) = k
  <2>1. UpTo(1..n, k) = 1..k
    BY DEF UpTo
  <2>2. Cardinality(1..k) = k
    BY FS_Interval
  <2> QED BY <2>1, <2>2 DEF Rank
<1>3. \A i \in 1..n : Ordered(1..n)[i] = i
  <2>1. \A k \in 1..n : Ordered(1..n)[Rank(1..n, k)] = k
    BY OrderedFacts
  <2> QED BY <1>2, <2>1
<1> QED BY <1>1, <1>3 DEF Ordered

-----------------------------------------------------------------------------
(* What the messages look like: calls, each followed by its results.        *)

\* In a part K of an indexed history: k is a result in the run of results
\* that directly follows the calls at j, and the whole run up to k is in K.
Follows(u, K, j, k) ==
    /\ j \in K /\ k \in K /\ j < k /\ j..k \subseteq K
    /\ u[j].kind = "calls" /\ \A i \in (j + 1)..k : u[i].kind = "result"
\* The result k is the first answer to its call of the batch at j.
CallOf(u, K, j, k) ==
    /\ Follows(u, K, j, k) /\ Answers(u, j, k)
    /\ \A i \in (j + 1)..(k - 1) : u[i].of # u[k].of
Owned(u, K) == \A k \in K : u[k].kind = "result" => \E j \in K : CallOf(u, K, j, k)
WholeAt(u, K, j) ==
    \A c \in u[j].calls : \E k \in K : Follows(u, K, j, k) /\ Answers(u, j, k) /\ u[k].of = c
Closed(u, K) == Owned(u, K) /\ \A j \in K : u[j].kind = "calls" => WholeAt(u, K, j)

\* Only results follow j: its batch may still be open.
AtEnd(s, j) == \A i \in (j + 1)..Len(s) : s[i].kind = "result"
Sound(s) ==
    /\ Owned(s, DOMAIN s)
    /\ \A j \in DOMAIN s : s[j].kind = "calls" => AtEnd(s, j) \/ WholeAt(s, DOMAIN s, j)

\* A batch has calls 1..n, and waits for its tools on top of the memory it saw.
BatchOK ==
    /\ pc \in {"tools", "apply"} =>
         batch.id >= 1 /\ \E n \in 1..MaxCalls : batch.calls = 1..n
    /\ pc = "tools" => batch.seen = Len(messages)

\* The events still to be applied, once the first c results are in memory.
Rest(c) == IF batch.dup THEN <<>>
           ELSE [i \in 1..(Cardinality(batch.calls) - c) |-> c + i]

\* Between the events of a batch: nothing of it is in memory, or the assistant
\* message and its first c results are.
AssistantDue ==
    /\ events # <<>> /\ Head(events) = 0 /\ Tail(events) = Rest(0)
    /\ batch.seen = Len(messages) /\ Closed(messages, DOMAIN messages)
BatchStored(c) ==
    /\ Len(messages) = batch.seen + 1 + c /\ c <= Cardinality(batch.calls)
    /\ batch.dup => c = 0
    /\ events = Rest(c)
    /\ LET j == batch.seen + 1
       IN /\ messages[j].kind = "calls" /\ messages[j].id = batch.id
          /\ messages[j].calls = batch.calls
          /\ \A i \in 1..c : /\ messages[j + i].kind = "result"
                             /\ messages[j + i].id = batch.id /\ messages[j + i].of = i
\* A batch being applied may be open, at the end only; the model sees none open.
HistoryInv ==
    /\ Sound(messages)
    /\ pc \in {"sample", "tools"} => Closed(messages, DOMAIN messages)
    /\ pc = "apply" => AssistantDue \/ \E c \in 0..MaxCalls : BatchStored(c)

\* A block covers what the blocks it consumed cover, and its summary or one of
\* theirs tells each message.
BlocksInv ==
    \A b \in DOMAIN blocks :
      /\ blocks[b].direct # {}
      /\ \A c \in blocks[b].consumed : blocks[c].direct \subseteq blocks[b].direct
      /\ \A k \in blocks[b].direct :
           \/ Identity(messages[k]) \in blocks[b].text
           \/ \E c \in blocks[b].consumed : k \in blocks[c].direct

\* Whether a part of the history has each batch whole or not at all.
KeepsWhole(s, sel) ==
    \A j \in DOMAIN s : s[j].kind = "calls" =>
      \/ j \in sel /\ ResultsAfter(s, j) \subseteq sel
      \/ j \notin sel /\ ResultsAfter(s, j) \cap sel = {}
\* Active blocks cover whole batches, and nothing of the batch being applied.
CoverInv ==
    /\ \A b \in Active : KeepsWhole(messages, blocks[b].direct)
    /\ pc = "apply" => \A b \in Active : blocks[b].direct \subseteq 1..batch.seen
\* Active blocks cover ranges, and no message twice.
RangeInv ==
    /\ \A b \in Active : \A i, k \in blocks[b].direct : i..k \subseteq blocks[b].direct
DisjointInv ==
    \A b, c \in Active : b # c => blocks[b].direct \cap blocks[c].direct = {}

-----------------------------------------------------------------------------
(* Taking messages out of a history in order.                               *)

\* Results that follow their calls in K follow them in the list of K too.
LEMMA FollowsPicked ==
  ASSUME NEW n \in Nat, NEW K \in SUBSET (1..n), NEW u, NEW t,
         t = [i \in DOMAIN Ordered(K) |-> u[Ordered(K)[i]]],
         NEW j, NEW k, Follows(u, K, j, k)
  PROVE  /\ Follows(t, 1..Cardinality(K), Rank(K, j), Rank(K, k))
         /\ t[Rank(K, j)] = u[j] /\ t[Rank(K, k)] = u[k]
         /\ \A i \in (Rank(K, j) + 1)..(Rank(K, k) - 1) :
              \E l \in (j + 1)..(k - 1) : t[i] = u[l]
<1> DEFINE a == Rank(K, j)
           b == Rank(K, k)
           N == Cardinality(K)
<1>1. j \in K /\ k \in K /\ j \in Int /\ k \in Int /\ j < k /\ j..k \subseteq K
  BY IndicesAreNat DEF Follows
<1>2. u[j].kind = "calls" /\ \A i \in (j + 1)..k : u[i].kind = "result"
  BY DEF Follows
<1>3. /\ DOMAIN Ordered(K) = 1..N /\ N \in Nat
      /\ a \in 1..N /\ b \in 1..N
      /\ Ordered(K)[a] = j /\ Ordered(K)[b] = k
  BY <1>1, OrderedFacts
<1>4. b = a + (k - j) /\ \A i \in a..b : Ordered(K)[i] = j + (i - a)
  <2>1. j \in K /\ k \in K /\ j <= k /\ j..k \subseteq K
    BY <1>1
  <2>2. /\ Rank(K, k) = Rank(K, j) + (k - j)
        /\ \A i \in Rank(K, j)..Rank(K, k) : Ordered(K)[i] = j + (i - Rank(K, j))
    BY <2>1, OrderedRun
  <2> QED BY <2>2
<1> HIDE DEF a, b, N
<1>5. a \in Int /\ b \in Int /\ a < b /\ 1 <= a /\ b <= N
  BY <1>1, <1>3, <1>4
<1>6. ASSUME NEW i \in a..b
      PROVE  i \in 1..N /\ t[i] = u[j + (i - a)]
  <2>1. i \in 1..N
    BY <1>3, <1>5
  <2> QED BY <1>3, <1>4, <2>1
<1>7. t[a] = u[j] /\ t[b] = u[k]
  BY <1>3
<1>8. ASSUME NEW i \in (a + 1)..b
      PROVE  t[i].kind = "result"
  <2>1. i \in a..b /\ j + (i - a) \in (j + 1)..k
    BY <1>1, <1>4, <1>5
  <2> QED BY <1>2, <1>6, <2>1
<1>9. ASSUME NEW i \in (a + 1)..(b - 1)
      PROVE  \E l \in (j + 1)..(k - 1) : t[i] = u[l]
  <2>1. i \in a..b /\ j + (i - a) \in (j + 1)..(k - 1)
    BY <1>1, <1>4, <1>5
  <2> QED BY <1>6, <2>1
<1>10. a..b \subseteq 1..N
  BY <1>6
<1> QED BY <1>2, <1>3, <1>5, <1>7, <1>8, <1>9, <1>10 DEF Follows, a, b, N

\* What is closed in K stays closed when it is listed by itself.
LEMMA ClosedPicked ==
  ASSUME NEW n \in Nat, NEW K \in SUBSET (1..n), NEW u, NEW t,
         t = [i \in DOMAIN Ordered(K) |-> u[Ordered(K)[i]]],
         Closed(u, K)
  PROVE  DOMAIN t = 1..Cardinality(K) /\ Closed(t, DOMAIN t)
<1> DEFINE N == Cardinality(K)
<1>1. /\ DOMAIN Ordered(K) = 1..N /\ N \in Nat
      /\ \A i \in 1..N : Ordered(K)[i] \in K /\ Rank(K, Ordered(K)[i]) = i
      /\ \A k \in K : Rank(K, k) \in 1..N /\ Ordered(K)[Rank(K, k)] = k
  BY OrderedFacts
<1>2. DOMAIN t = 1..N
  BY <1>1
<1> HIDE DEF N
<1>3. ASSUME NEW p \in 1..N, t[p].kind = "result"
      PROVE  \E o \in 1..N : CallOf(t, 1..N, o, p)
  <2> DEFINE k == Ordered(K)[p]
  <2>1. k \in K /\ Rank(K, k) = p /\ t[p] = u[k]
    BY <1>1
  <2> HIDE DEF k
  <2>2. PICK j \in K : CallOf(u, K, j, k)
    BY <1>3, <2>1 DEF Closed, Owned
  <2>3. Follows(u, K, j, k)
    BY <2>2 DEF CallOf
  <2> DEFINE o == Rank(K, j)
  <2>4. /\ Follows(t, 1..N, o, p) /\ t[o] = u[j]
        /\ \A i \in (o + 1)..(p - 1) : \E l \in (j + 1)..(k - 1) : t[i] = u[l]
    <3>1. /\ Follows(t, 1..Cardinality(K), Rank(K, j), Rank(K, k)) /\ t[Rank(K, j)] = u[j]
          /\ \A i \in (Rank(K, j) + 1)..(Rank(K, k) - 1) :
               \E l \in (j + 1)..(k - 1) : t[i] = u[l]
      BY <2>3, FollowsPicked, SMTT(30)
    <3> QED BY <2>1, <3>1 DEF N
  <2>5. o \in 1..N
    BY <1>1
  <2> HIDE DEF o
  <2>6. Answers(t, o, p)
    BY <2>1, <2>2, <2>4 DEF CallOf, Answers
  <2>7. \A l \in (j + 1)..(k - 1) : u[l].of # u[k].of
    BY <2>2 DEF CallOf
  <2>8. \A i \in (o + 1)..(p - 1) : t[i].of # t[p].of
    BY <2>1, <2>4, <2>7
  <2> QED BY <2>4, <2>5, <2>6, <2>8 DEF CallOf
<1>4. ASSUME NEW p \in 1..N, t[p].kind = "calls", NEW c \in t[p].calls
      PROVE  \E q \in 1..N : Follows(t, 1..N, p, q) /\ Answers(t, p, q) /\ t[q].of = c
  <2> DEFINE j == Ordered(K)[p]
  <2>1. j \in K /\ Rank(K, j) = p /\ t[p] = u[j]
    BY <1>1
  <2> HIDE DEF j
  <2>2. PICK k \in K : Follows(u, K, j, k) /\ Answers(u, j, k) /\ u[k].of = c
    BY <1>4, <2>1 DEF Closed, WholeAt
  <2> DEFINE q == Rank(K, k)
  <2>3. Follows(t, 1..N, p, q) /\ t[q] = u[k]
    BY <2>1, <2>2, FollowsPicked DEF N
  <2>4. q \in 1..N
    BY <1>1
  <2> HIDE DEF q
  <2>5. Answers(t, p, q) /\ t[q].of = c
    BY <2>1, <2>2, <2>3 DEF Answers
  <2> QED BY <2>3, <2>4, <2>5
<1> QED BY <1>2, <1>3, <1>4 DEF Closed, Owned, WholeAt, N

\* In a whole history, what follows the calls at j are ResultsAfter(s, j).
LEMMA FollowsAreResults ==
  ASSUME NEW n \in Nat, NEW s, DOMAIN s = 1..n, NEW j \in 1..n, s[j].kind = "calls"
  PROVE  \A k : Follows(s, DOMAIN s, j, k) <=> k \in ResultsAfter(s, j)
<1>1. ASSUME NEW k, k \in ResultsAfter(s, j)
      PROVE  Follows(s, DOMAIN s, j, k)
  <2>1. k \in 1..n /\ j < k /\ \A i \in (j + 1)..k : s[i].kind = "result"
    BY <1>1 DEF ResultsAfter
  <2>2. j..k \subseteq 1..n
    BY <2>1
  <2> QED BY <2>1, <2>2 DEF Follows
<1>2. ASSUME NEW k, Follows(s, DOMAIN s, j, k)
      PROVE  k \in ResultsAfter(s, j)
  <2>1. k \in 1..n /\ j < k /\ \A i \in (j + 1)..k : s[i].kind = "result"
    BY <1>2 DEF Follows
  <2> QED BY <2>1 DEF ResultsAfter
<1> QED BY <1>1, <1>2

LEMMA ClosedIsPaired ==
  ASSUME NEW n \in Nat, NEW s, DOMAIN s = 1..n, Closed(s, DOMAIN s)
  PROVE  Paired(s)
<1>1. ASSUME NEW k \in DOMAIN s, s[k].kind = "result"
      PROVE  \E j \in DOMAIN s :
               s[j].kind = "calls" /\ k \in ResultsAfter(s, j) /\ Answers(s, j, k)
  <2>1. PICK j \in DOMAIN s : CallOf(s, DOMAIN s, j, k)
    BY <1>1 DEF Closed, Owned
  <2>2. s[j].kind = "calls" /\ Follows(s, DOMAIN s, j, k) /\ Answers(s, j, k)
    BY <2>1 DEF CallOf, Follows
  <2> QED BY <2>2, FollowsAreResults
<1>2. ASSUME NEW j \in DOMAIN s, s[j].kind = "calls"
      PROVE  Answered(s, j) = s[j].calls
  <2>1. ASSUME NEW c \in s[j].calls
        PROVE  c \in Answered(s, j)
    <3>1. PICK k \in DOMAIN s : Follows(s, DOMAIN s, j, k) /\ Answers(s, j, k) /\ s[k].of = c
      BY <1>2 DEF Closed, WholeAt
    <3>2. k \in ResultsAfter(s, j)
      BY <1>2, <3>1, FollowsAreResults
    <3> QED BY <3>1, <3>2 DEF Answered
  <2> QED BY <2>1 DEF Answered
<1> QED BY <1>1, <1>2 DEF Paired

-----------------------------------------------------------------------------
(* recovery.rs: what a repair does to a history.                            *)

IsHistory(s) ==
    /\ s \in Seq(Messages)
    /\ \A k \in DOMAIN s : (s[k].kind = "calls") = (s[k].calls # {})

LEMMA HistoryFacts ==
  ASSUME NEW s, IsHistory(s)
  PROVE  /\ s \in Seq(Messages) /\ Len(s) \in Nat /\ DOMAIN s = 1..Len(s)
         /\ \A k \in 1..Len(s) : /\ s[k] \in Messages
                                 /\ s[k].kind = "calls" <=> s[k].calls # {}
<1>1. s \in Seq(Messages) /\ Len(s) \in Nat /\ DOMAIN s = 1..Len(s)
  BY DEF IsHistory
<1>2. \A k \in 1..Len(s) : s[k] \in Messages
  BY <1>1
<1>3. \A k \in 1..Len(s) : s[k].kind = "calls" <=> s[k].calls # {}
  BY <1>1 DEF IsHistory
<1> QED BY <1>1, <1>2, <1>3

LEMMA AppendFacts ==
  ASSUME NEW s \in Seq(Messages), NEW m \in Messages
  PROVE  /\ Append(s, m) \in Seq(Messages) /\ Len(s) \in Nat /\ DOMAIN s = 1..Len(s)
         /\ Len(Append(s, m)) = Len(s) + 1 /\ DOMAIN Append(s, m) = 1..(Len(s) + 1)
         /\ \A k \in 1..Len(s) : Append(s, m)[k] = s[k]
         /\ Append(s, m)[Len(s) + 1] = m
OBVIOUS

LEMMA AppendHistory ==
  ASSUME NEW s, IsHistory(s), NEW m \in Messages, m.kind = "calls" <=> m.calls # {}
  PROVE  IsHistory(Append(s, m))
<1>1. s \in Seq(Messages)
  BY DEF IsHistory
<1>2. ASSUME NEW k \in 1..(Len(s) + 1)
      PROVE  (Append(s, m)[k].kind = "calls") = (Append(s, m)[k].calls # {})
  <2>1. CASE k = Len(s) + 1
    BY <1>1, <2>1, AppendFacts
  <2>2. CASE k \in 1..Len(s)
    BY <1>1, <2>2, AppendFacts DEF IsHistory
  <2> QED BY <1>1, <2>1, <2>2
<1> QED BY <1>1, <1>2, AppendFacts DEF IsHistory

LEMMA TerminalIsAtEnd ==
  ASSUME NEW s, IsHistory(s), NEW j \in 1..Len(s)
  PROVE  Terminal(s, j) <=> AtEnd(s, j)
<1> DEFINE n == Len(s)
           R == ResultsAfter(s, j)
           T == (j + 1)..n
<1>1. n \in Nat /\ DOMAIN s = 1..n /\ j \in Int /\ j + 1 \in Int /\ 1 <= j /\ j <= n
  BY HistoryFacts
<1>2. R \in SUBSET T /\ \A k \in R : k \in T /\ \A i \in (j + 1)..k : s[i].kind = "result"
  BY <1>1 DEF ResultsAfter
<1>3. IsFiniteSet(T) /\ Cardinality(T) = n - j
  <2>1. j + 1 \in Int /\ n \in Int /\ (j + 1 > n => n - j = 0)
    <3> HIDE DEF n, T, R
    <3> QED BY <1>1
  <2>2. IsFiniteSet(T) /\ Cardinality(T) = IF j + 1 > n THEN 0 ELSE n - (j + 1) + 1
    BY <2>1, FS_Interval
  <2> HIDE DEF n, T
  <2> QED BY <1>1, <2>1, <2>2
<1>4. Terminal(s, j) <=> j + Cardinality(R) = n
  BY DEF Terminal
<1>5. IsFiniteSet(R) /\ Cardinality(R) \in Nat /\ (Cardinality(R) = Cardinality(T) => R = T)
  <2> HIDE DEF R, T
  <2> QED BY <1>2, <1>3, FS_Subset, FS_CardinalityType
<1>6. ASSUME Terminal(s, j) PROVE AtEnd(s, j)
  <2>1. R = T
    <3> HIDE DEF R, T, n
    <3> QED BY <1>1, <1>3, <1>4, <1>5, <1>6
  <2>2. \A i \in T : s[i].kind = "result"
    <3>1. \A i \in T : i \in (j + 1)..i
      BY <1>1
    <3> QED BY <1>2, <2>1, <3>1
  <2> QED BY <2>2 DEF AtEnd
<1>7. ASSUME AtEnd(s, j) PROVE Terminal(s, j)
  <2>1. \A k \in T : k \in R
    BY <1>1, <1>7 DEF AtEnd, ResultsAfter
  <2>2. R = T
    <3> HIDE DEF R, T
    <3> QED BY <1>2, <2>1
  <2> HIDE DEF R, T, n
  <2> QED BY <1>1, <1>3, <1>4, <2>2
<1> QED BY <1>6, <1>7

LEMMA WholeIsAnswered ==
  ASSUME NEW n \in Nat, NEW s, DOMAIN s = 1..n, NEW j \in 1..n, s[j].kind = "calls"
  PROVE  WholeAt(s, DOMAIN s, j) <=> Answered(s, j) = s[j].calls
<1>1. \A k : Follows(s, DOMAIN s, j, k) <=> k \in ResultsAfter(s, j)
  BY FollowsAreResults
<1>2. ResultsAfter(s, j) \subseteq DOMAIN s
  BY DEF ResultsAfter
<1>3. ASSUME NEW c \in s[j].calls
      PROVE  c \in Answered(s, j) <=>
               \E k \in DOMAIN s : Follows(s, DOMAIN s, j, k) /\ Answers(s, j, k) /\ s[k].of = c
  BY <1>1, <1>2 DEF Answered
<1>4. Answered(s, j) \subseteq s[j].calls
  BY DEF Answered
<1> QED BY <1>3, <1>4 DEF WholeAt

\* process_tool_results keeps the first answer to every call.
LEMMA OwnedStay ==
  ASSUME NEW n \in Nat, NEW s, DOMAIN s = 1..n, Owned(s, DOMAIN s),
         NEW k \in 1..n, s[k].kind # "calls"
  PROVE  ~Drops(s, k, TRUE)
<1>1. SUFFICES ASSUME s[k].kind = "result"
               PROVE  \E j \in DOMAIN s :
                        /\ s[j].kind = "calls" /\ k \in ResultsAfter(s, j) /\ Answers(s, j, k)
                        /\ \A i \in (j + 1)..(k - 1) : s[i].of # s[k].of
  BY DEF Drops
<1>2. PICK j \in DOMAIN s : CallOf(s, DOMAIN s, j, k)
  BY <1>1 DEF Owned
<1>3. s[j].kind = "calls" /\ Follows(s, DOMAIN s, j, k)
  BY <1>2 DEF CallOf, Follows
<1>4. k \in ResultsAfter(s, j)
  BY <1>3, FollowsAreResults
<1> QED BY <1>2, <1>3, <1>4 DEF CallOf

\* A repair leaves a sound history as it is: so appending a message that keeps
\* the history sound does not reset the compaction state.
LEMMA SoundIsFixed ==
  ASSUME NEW s, IsHistory(s), Sound(s)
  PROVE  Repair(s, TRUE) = s
<1> DEFINE n == Len(s)
<1>1. /\ n \in Nat /\ DOMAIN s = 1..n
      /\ \A k \in 1..n : s[k] \in Messages /\ (s[k].kind = "calls" <=> s[k].calls # {})
      /\ s \in Seq(Messages)
  BY HistoryFacts
<1>2. ASSUME NEW k \in 1..n, s[k].kind = "calls"
      PROVE  KeptCalls(s, k, TRUE) = s[k].calls
  <2>1. CASE AtEnd(s, k)
    BY <2>1, TerminalIsAtEnd DEF KeptCalls
  <2>2. CASE WholeAt(s, DOMAIN s, k)
    BY <1>1, <1>2, <2>2, WholeIsAnswered DEF KeptCalls
  <2> QED BY <1>1, <1>2, <2>1, <2>2 DEF Sound
<1>3. ASSUME NEW k \in 1..n
      PROVE  ~Drops(s, k, TRUE) /\ Repaired(s, k, TRUE) = s[k]
  <2>1. CASE s[k].kind = "calls"
    <3>1. ~Drops(s, k, TRUE)
      BY <1>1, <1>2, <2>1 DEF Drops
    <3>2. Repaired(s, k, TRUE) = [s[k] EXCEPT !.calls = s[k].calls, !.kind = "calls"]
      BY <1>1, <1>2, <2>1 DEF Repaired
    <3>3. Repaired(s, k, TRUE) = s[k]
      <4>1. s[k] \in Messages /\ s[k].kind = "calls"
        BY <1>1, <2>1
      <4> QED BY <3>2, <4>1, ZenonT(30) DEF Messages
    <3> QED BY <3>1, <3>3
  <2>2. CASE s[k].kind # "calls"
    <3>1. Repaired(s, k, TRUE) = s[k]
      BY <2>2 DEF Repaired
    <3> QED BY <1>1, <2>2, <3>1, OwnedStay DEF Sound
  <2> QED BY <2>1, <2>2
<1> DEFINE K == {k \in DOMAIN s : ~Drops(s, k, TRUE)}
<1>4. K = 1..n
  BY <1>1, <1>3
<1>5. Ordered(K) = [i \in 1..n |-> i]
  BY <1>1, <1>4, OrderedAll
<1> HIDE DEF n
<1>6. Repair(s, TRUE) = [i \in 1..n |-> s[i]]
  <2>1. Repair(s, TRUE) = [i \in DOMAIN Ordered(K) |-> Repaired(s, Ordered(K)[i], TRUE)]
    BY DEF Repair
  <2> HIDE DEF K
  <2> QED BY <1>3, <1>5, <2>1
<1>7. s = [i \in 1..n |-> s[i]]
  <2>1. s \in [1..n -> Messages]
    BY <1>1 DEF n
  <2> QED BY <2>1
<1> QED BY <1>6, <1>7

LEMMA RepairedFacts ==
  ASSUME NEW r, IsHistory(r), NEW k \in 1..Len(r)
  PROVE  /\ Repaired(r, k, TRUE) \in Messages
         /\ Repaired(r, k, TRUE).kind = "calls" <=> Repaired(r, k, TRUE).calls # {}
         /\ r[k].kind # "calls" => Repaired(r, k, TRUE) = r[k]
         /\ r[k].kind = "calls" =>
              /\ Repaired(r, k, TRUE).id = r[k].id
              /\ Repaired(r, k, TRUE).calls = KeptCalls(r, k, TRUE)
              /\ Repaired(r, k, TRUE).kind
                   = IF KeptCalls(r, k, TRUE) = {} THEN "text" ELSE "calls"
<1>1. r[k] \in Messages /\ (r[k].kind = "calls" <=> r[k].calls # {})
  BY HistoryFacts
<1>2. CASE r[k].kind # "calls"
  BY <1>1, <1>2 DEF Repaired
<1>3. CASE r[k].kind = "calls"
  <2> DEFINE kept == KeptCalls(r, k, TRUE)
  <2>1. kept \in SUBSET (1..MaxCalls)
    <3>1. r[k].calls \in SUBSET (1..MaxCalls)
      BY <1>1 DEF Messages
    <3>2. kept \in SUBSET r[k].calls
      BY DEF KeptCalls, Answered
    <3> HIDE DEF kept
    <3> QED BY <3>1, <3>2
  <2>2. Repaired(r, k, TRUE)
          = [r[k] EXCEPT !.calls = kept, !.kind = IF kept = {} THEN "text" ELSE "calls"]
    BY <1>3 DEF Repaired
  <2> HIDE DEF kept
  <2>3. /\ Repaired(r, k, TRUE).id = r[k].id
        /\ Repaired(r, k, TRUE).calls = kept
        /\ Repaired(r, k, TRUE).kind = IF kept = {} THEN "text" ELSE "calls"
    BY <1>1, <2>2 DEF Messages
  <2>4. Repaired(r, k, TRUE) \in Messages
    BY <1>1, <2>1, <2>2 DEF Messages, Kinds
  <2>5. Repaired(r, k, TRUE).kind = "calls" <=> Repaired(r, k, TRUE).calls # {}
    BY <2>3
  <2> QED BY <1>3, <2>3, <2>4, <2>5 DEF kept
<1> QED BY <1>2, <1>3

\* The indices a repair keeps.
Stays(r) == {k \in DOMAIN r : ~Drops(r, k, TRUE)}

LEMMA RepairTyped ==
  ASSUME NEW r, IsHistory(r)
  PROVE  IsHistory(Repair(r, TRUE)) /\ Len(Repair(r, TRUE)) <= Len(r)
<1> DEFINE n == Len(r)
           K == Stays(r)
           N == Cardinality(K)
           t == Repair(r, TRUE)
<1>1. n \in Nat /\ DOMAIN r = 1..n
  BY HistoryFacts
<1>2. K \in SUBSET (1..n)
  BY <1>1 DEF Stays
<1>3. t = [i \in DOMAIN Ordered(K) |-> Repaired(r, Ordered(K)[i], TRUE)]
  BY DEF Repair, Stays
<1> HIDE DEF n, K, t, N
<1>4. DOMAIN Ordered(K) = 1..N /\ N \in Nat /\ \A i \in 1..N : Ordered(K)[i] \in K
  BY <1>1, <1>2, OrderedFacts DEF N
<1>5. N <= n
  BY <1>1, <1>2, FiniteIndices DEF N
<1>6. t = [i \in 1..N |-> Repaired(r, Ordered(K)[i], TRUE)]
  BY <1>3, <1>4
<1>7. ASSUME NEW i \in 1..N
      PROVE  t[i] \in Messages /\ (t[i].kind = "calls" <=> t[i].calls # {})
  <2>1. Ordered(K)[i] \in 1..n /\ t[i] = Repaired(r, Ordered(K)[i], TRUE)
    BY <1>2, <1>4, <1>6
  <2> DEFINE k == Ordered(K)[i]
  <2>2. k \in 1..Len(r) /\ t[i] = Repaired(r, k, TRUE)
    BY <2>1 DEF n
  <2> HIDE DEF k
  <2>3. /\ Repaired(r, k, TRUE) \in Messages
        /\ Repaired(r, k, TRUE).kind = "calls" <=> Repaired(r, k, TRUE).calls # {}
    BY <2>2, RepairedFacts
  <2> QED BY <2>2, <2>3
<1>8. t \in Seq(Messages) /\ Len(t) = N /\ DOMAIN t = 1..N
  <2>1. t \in [1..N -> Messages]
    BY <1>6, <1>7
  <2> QED BY <1>4, <2>1
<1> QED BY <1>5, <1>7, <1>8 DEF IsHistory, t, n

\* After a message that is neither calls nor a result, a repair leaves no batch
\* open: a call without its result goes, and with it a batch without any.
LEMMA RepairCloses ==
  ASSUME NEW r, IsHistory(r), Len(r) # 0, Owned(r, DOMAIN r),
         r[Len(r)].kind \notin {"calls", "result"}
  PROVE  Closed(Repair(r, TRUE), DOMAIN Repair(r, TRUE))
<1> DEFINE n == Len(r)
           K == Stays(r)
           u == [k \in K |-> Repaired(r, k, TRUE)]
           t == Repair(r, TRUE)
<1>1. /\ n \in Nat /\ DOMAIN r = 1..n
      /\ \A k \in 1..n : r[k] \in Messages /\ (r[k].kind = "calls" <=> r[k].calls # {})
  BY HistoryFacts
<1>2. K \in SUBSET (1..n)
  BY <1>1 DEF Stays
<1>3. ASSUME NEW j \in 1..n, r[j].kind = "calls"
      PROVE  KeptCalls(r, j, TRUE) = Answered(r, j)
  <2>1. ~AtEnd(r, j)
    <3>1. j # n
      BY <1>3
    <3>2. n \in (j + 1)..n
      <4> HIDE DEF n
      <4> QED BY <1>1, <3>1
    <3> QED BY <3>2 DEF AtEnd
  <2>2. ~Terminal(r, j)
    BY <2>1, TerminalIsAtEnd
  <2> QED BY <2>2 DEF KeptCalls
<1>4. ASSUME NEW k \in 1..n, r[k].kind # "calls"
      PROVE  k \in K /\ u[k] = r[k]
  <2>1. ~Drops(r, k, TRUE)
    BY <1>1, <1>4, OwnedStay
  <2>2. k \in K
    BY <1>1, <2>1 DEF Stays
  <2> QED BY <1>4, <2>2, RepairedFacts
<1>5. ASSUME NEW j \in 1..n, NEW k \in 1..n, Follows(r, DOMAIN r, j, k), Answers(r, j, k)
      PROVE  /\ Follows(u, K, j, k) /\ Answers(u, j, k) /\ u[k] = r[k]
             /\ \A i \in (j + 1)..k : u[i] = r[i]
  <2>1. /\ j < k /\ r[j].kind = "calls" /\ r[k].kind = "result"
        /\ \A i \in (j + 1)..k : i \in 1..n /\ r[i].kind = "result"
    <3>1. j < k /\ r[j].kind = "calls" /\ \A i \in (j + 1)..k : r[i].kind = "result"
      BY <1>5 DEF Follows
    <3>2. k \in (j + 1)..k
      BY <3>1
    <3>3. \A i \in (j + 1)..k : i \in 1..n
      <4> HIDE DEF n
      <4> QED BY <1>1
    <3> QED BY <3>1, <3>2, <3>3
  <2>2. k \in ResultsAfter(r, j) /\ r[k].of \in r[j].calls /\ r[k].id = r[j].id
    BY <1>1, <1>5, <2>1, FollowsAreResults DEF Answers
  <2>3. r[k].of \in Answered(r, j)
    BY <2>2, <1>5 DEF Answered
  <2>4. KeptCalls(r, j, TRUE) = Answered(r, j) /\ KeptCalls(r, j, TRUE) # {}
    BY <1>3, <2>1, <2>3
  <2>5. j \in K
    BY <1>1, <2>1, <2>4 DEF Stays, Drops
  <2>6. u[j].kind = "calls" /\ u[j].id = r[j].id /\ u[j].calls = Answered(r, j)
    <3>1. u[j] = Repaired(r, j, TRUE)
      BY <2>5
    <3>2. /\ Repaired(r, j, TRUE).id = r[j].id
          /\ Repaired(r, j, TRUE).calls = KeptCalls(r, j, TRUE)
          /\ Repaired(r, j, TRUE).kind
               = IF KeptCalls(r, j, TRUE) = {} THEN "text" ELSE "calls"
      BY <2>1, RepairedFacts, ZenonT(60)
    <3> HIDE DEF u
    <3> QED BY <2>4, <3>1, <3>2
  <2>7. \A i \in (j + 1)..k : i \in K /\ u[i] = r[i]
    BY <1>4, <2>1
  <2>8. k \in (j + 1)..k /\ \A i \in j..k : i = j \/ i \in (j + 1)..k
    <3> HIDE DEF n
    <3> QED BY <1>1, <2>1
  <2> HIDE DEF u, K
  <2>9. k \in K /\ u[k] = r[k] /\ j..k \subseteq K
    BY <2>5, <2>7, <2>8
  <2>10. Follows(u, K, j, k)
    BY <2>1, <2>5, <2>6, <2>7, <2>9 DEF Follows
  <2>11. Answers(u, j, k)
    BY <2>2, <2>3, <2>6, <2>9 DEF Answers
  <2> QED BY <2>7, <2>9, <2>10, <2>11
<1>6. ASSUME NEW k \in K, u[k].kind = "result"
      PROVE  \E j \in K : CallOf(u, K, j, k)
  <2>1. k \in 1..n /\ r[k].kind # "calls" /\ u[k] = r[k]
    <3>1. k \in 1..n /\ u[k] = Repaired(r, k, TRUE)
      BY <1>2
    <3>2. r[k].kind # "calls"
      BY <1>6, <3>1, RepairedFacts
    <3> QED BY <1>4, <3>1, <3>2
  <2>2. PICK j \in 1..n : CallOf(r, DOMAIN r, j, k)
    BY <1>1, <1>6, <2>1 DEF Owned
  <2>3. Follows(r, DOMAIN r, j, k) /\ Answers(r, j, k) /\ \A i \in (j + 1)..(k - 1) : r[i].of # r[k].of
    BY <2>2 DEF CallOf
  <2>4. Follows(u, K, j, k) /\ Answers(u, j, k) /\ \A i \in (j + 1)..k : u[i] = r[i]
    BY <1>5, <2>1, <2>3
  <2>5. \A i \in (j + 1)..(k - 1) : i \in (j + 1)..k
    <3> HIDE DEF n
    <3> QED BY <1>1, <2>1
  <2> HIDE DEF u, K
  <2>6. CallOf(u, K, j, k)
    BY <2>1, <2>3, <2>4, <2>5 DEF CallOf
  <2> QED BY <2>4, <2>6 DEF Follows
<1>7. ASSUME NEW j \in K, u[j].kind = "calls"
      PROVE  WholeAt(u, K, j)
  <2>1. j \in 1..n /\ u[j] = Repaired(r, j, TRUE)
    BY <1>2
  <2>2. r[j].kind = "calls"
    <3>1. r[j].kind # "calls" => Repaired(r, j, TRUE) = r[j]
      BY <2>1, RepairedFacts
    <3> QED BY <1>7, <2>1, <3>1
  <2>3. u[j].calls = Answered(r, j)
    BY <1>3, <2>1, <2>2, RepairedFacts
  <2>4. ASSUME NEW c \in Answered(r, j)
        PROVE  \E k \in K : Follows(u, K, j, k) /\ Answers(u, j, k) /\ u[k].of = c
    <3>1. PICK k \in ResultsAfter(r, j) : Answers(r, j, k) /\ r[k].of = c
      BY <2>4 DEF Answered
    <3>2. k \in 1..n /\ Follows(r, DOMAIN r, j, k)
      BY <1>1, <2>1, <2>2, FollowsAreResults DEF ResultsAfter
    <3>3. Follows(u, K, j, k) /\ Answers(u, j, k) /\ u[k] = r[k]
      BY <1>5, <2>1, <3>1, <3>2
    <3> HIDE DEF u, K
    <3> QED BY <3>1, <3>3 DEF Follows
  <2> HIDE DEF u, K
  <2> QED BY <2>3, <2>4 DEF WholeAt
<1>8. Closed(u, K)
  <2> HIDE DEF u, K
  <2> QED BY <1>6, <1>7 DEF Closed, Owned
<1>9. t = [i \in DOMAIN Ordered(K) |-> u[Ordered(K)[i]]]
  <2>1. t = [i \in DOMAIN Ordered(K) |-> Repaired(r, Ordered(K)[i], TRUE)]
    BY DEF Repair, Stays
  <2>2. \A i \in DOMAIN Ordered(K) : Ordered(K)[i] \in K
    <3> HIDE DEF K, n
    <3>1. /\ DOMAIN Ordered(K) = 1..Cardinality(K)
          /\ \A i \in 1..Cardinality(K) : Ordered(K)[i] \in K
      BY <1>1, <1>2, OrderedFacts
    <3> QED BY <3>1
  <2>3. \A i \in DOMAIN Ordered(K) : u[Ordered(K)[i]] = Repaired(r, Ordered(K)[i], TRUE)
    BY <2>2
  <2> HIDE DEF t, u, K
  <2> QED BY <2>1, <2>3
<1> HIDE DEF u, K, t, n
<1> QED BY <1>1, <1>2, <1>8, <1>9, ClosedPicked DEF t

-----------------------------------------------------------------------------
(* What appending a message to a history does.                              *)

LEMMA ClosedIsSound ==
  ASSUME NEW s, Closed(s, DOMAIN s)
  PROVE  Sound(s)
BY DEF Closed, Sound

LEMMA AppendKeeps ==
  ASSUME NEW s, IsHistory(s), NEW m \in Messages
  PROVE  \A j, k \in 1..Len(s) :
           /\ Follows(s, DOMAIN s, j, k) =>
                Follows(Append(s, m), DOMAIN Append(s, m), j, k)
           /\ CallOf(s, DOMAIN s, j, k) =>
                CallOf(Append(s, m), DOMAIN Append(s, m), j, k)
           /\ WholeAt(s, DOMAIN s, j) => WholeAt(Append(s, m), DOMAIN Append(s, m), j)
<1> DEFINE r == Append(s, m)
           n == Len(s)
<1>1. /\ n \in Nat /\ DOMAIN s = 1..n /\ DOMAIN r = 1..(n + 1)
      /\ \A k \in 1..n : r[k] = s[k]
  BY AppendFacts DEF IsHistory
<1> HIDE DEF r, n
<1>2. ASSUME NEW j \in 1..n, NEW k \in 1..n, Follows(s, DOMAIN s, j, k)
      PROVE  Follows(r, DOMAIN r, j, k)
  <2>1. j < k /\ s[j].kind = "calls" /\ \A i \in (j + 1)..k : s[i].kind = "result"
    BY <1>2 DEF Follows
  <2>2. \A i \in (j + 1)..k : i \in 1..n
    BY <1>1
  <2>3. j \in 1..(n + 1) /\ k \in 1..(n + 1) /\ j..k \subseteq 1..(n + 1)
    BY <1>1
  <2> QED BY <1>1, <2>1, <2>2, <2>3 DEF Follows
<1>3. ASSUME NEW j \in 1..n, NEW k \in 1..n, CallOf(s, DOMAIN s, j, k)
      PROVE  CallOf(r, DOMAIN r, j, k)
  <2>1. \A i \in (j + 1)..(k - 1) : i \in 1..n
    BY <1>1
  <2> QED BY <1>1, <1>2, <1>3, <2>1 DEF CallOf, Answers
<1>4. ASSUME NEW j \in 1..n, WholeAt(s, DOMAIN s, j)
      PROVE  WholeAt(r, DOMAIN r, j)
  <2>1. ASSUME NEW c \in r[j].calls
        PROVE  \E k \in DOMAIN r : Follows(r, DOMAIN r, j, k) /\ Answers(r, j, k) /\ r[k].of = c
    <3>1. PICK k \in 1..n : Follows(s, DOMAIN s, j, k) /\ Answers(s, j, k) /\ s[k].of = c
      BY <1>1, <1>4, <2>1 DEF WholeAt
    <3>2. k \in DOMAIN r
      BY <1>1
    <3> QED BY <1>1, <1>2, <3>1, <3>2 DEF Answers
  <2> QED BY <2>1 DEF WholeAt
<1> QED BY <1>2, <1>3, <1>4 DEF r, n

LEMMA PlainOwned ==
  ASSUME NEW s, IsHistory(s), Owned(s, DOMAIN s), NEW m \in Messages, m.kind # "result"
  PROVE  Owned(Append(s, m), DOMAIN Append(s, m))
<1> DEFINE r == Append(s, m)
           n == Len(s)
<1>1. /\ n \in Nat /\ DOMAIN s = 1..n /\ DOMAIN r = 1..(n + 1)
      /\ (\A k \in 1..n : r[k] = s[k]) /\ r[n + 1] = m
  BY AppendFacts DEF IsHistory
<1>2. \A j, k \in 1..n : CallOf(s, DOMAIN s, j, k) => CallOf(r, DOMAIN r, j, k)
  BY AppendKeeps
<1> HIDE DEF r, n
<1>3. ASSUME NEW k \in 1..(n + 1), r[k].kind = "result"
      PROVE  \E j \in 1..(n + 1) : CallOf(r, DOMAIN r, j, k)
  <2>1. k \in 1..n
    BY <1>1, <1>3
  <2>2. PICK j \in 1..n : CallOf(s, DOMAIN s, j, k)
    BY <1>1, <1>3, <2>1 DEF Owned
  <2>3. CallOf(r, DOMAIN r, j, k) /\ j \in 1..(n + 1)
    BY <1>1, <1>2, <2>1, <2>2
  <2> QED BY <2>3
<1> QED BY <1>1, <1>3 DEF Owned, r

\* The assistant's calls after a closed history.
LEMMA CallsSound ==
  ASSUME NEW s, IsHistory(s), Closed(s, DOMAIN s), NEW m \in Messages, m.kind = "calls"
  PROVE  Sound(Append(s, m))
<1> DEFINE r == Append(s, m)
           n == Len(s)
<1>1. /\ n \in Nat /\ DOMAIN s = 1..n /\ DOMAIN r = 1..(n + 1) /\ Len(r) = n + 1
      /\ \A k \in 1..n : r[k] = s[k]
  BY AppendFacts DEF IsHistory
<1>2. \A j \in 1..n : WholeAt(s, DOMAIN s, j) => WholeAt(r, DOMAIN r, j)
  BY AppendKeeps
<1>3. Owned(r, DOMAIN r)
  BY PlainOwned DEF Closed
<1> HIDE DEF r, n
<1>4. ASSUME NEW j \in 1..(n + 1), r[j].kind = "calls"
      PROVE  AtEnd(r, j) \/ WholeAt(r, DOMAIN r, j)
  <2>1. CASE j = n + 1
    BY <1>1, <2>1 DEF AtEnd
  <2>2. CASE j \in 1..n
    BY <1>1, <1>2, <1>4, <2>2 DEF Closed
  <2> QED BY <1>1, <2>1, <2>2
<1> QED BY <1>1, <1>3, <1>4 DEF Sound, r

\* A result of the calls the history ends with, not given before.
LEMMA ResultSound ==
  ASSUME NEW s, IsHistory(s), Sound(s), NEW m \in Messages, m.kind = "result",
         NEW p \in 1..Len(s), s[p].kind = "calls", AtEnd(s, p),
         m.id = s[p].id, m.of \in s[p].calls,
         \A i \in (p + 1)..Len(s) : s[i].of # m.of
  PROVE  Sound(Append(s, m))
<1> DEFINE r == Append(s, m)
           n == Len(s)
<1>1. /\ n \in Nat /\ DOMAIN s = 1..n /\ DOMAIN r = 1..(n + 1) /\ Len(r) = n + 1
      /\ (\A k \in 1..n : r[k] = s[k]) /\ r[n + 1] = m
  BY AppendFacts DEF IsHistory
<1>2. /\ \A j, k \in 1..n : CallOf(s, DOMAIN s, j, k) => CallOf(r, DOMAIN r, j, k)
      /\ \A j \in 1..n : WholeAt(s, DOMAIN s, j) => WholeAt(r, DOMAIN r, j)
  BY AppendKeeps
<1>3. \A i \in (p + 1)..n : s[i].kind = "result" /\ s[i].of # m.of
  BY DEF AtEnd
<1>4. p \in 1..n
  OBVIOUS
<1> HIDE DEF r, n
<1>5. CallOf(r, DOMAIN r, p, n + 1)
  <2>1. p \in 1..(n + 1) /\ n + 1 \in 1..(n + 1) /\ p < n + 1
    BY <1>1, <1>4
  <2>2. p..(n + 1) \subseteq 1..(n + 1)
    BY <1>1, <1>4
  <2>3. ASSUME NEW i \in (p + 1)..(n + 1)
        PROVE  r[i].kind = "result"
    <3>1. CASE i = n + 1
      BY <1>1, <3>1
    <3>2. CASE i \in (p + 1)..n
      <4>1. i \in 1..n
        BY <1>1, <1>4, <3>2
      <4> QED BY <1>1, <1>3, <3>2, <4>1
    <3> QED BY <1>1, <1>4, <3>1, <3>2
  <2>4. ASSUME NEW i \in (p + 1)..((n + 1) - 1)
        PROVE  r[i].of # r[n + 1].of
    <3>1. i \in (p + 1)..n /\ i \in 1..n
      BY <1>1, <1>4
    <3> QED BY <1>1, <1>3, <3>1
  <2>5. Answers(r, p, n + 1) /\ r[p].kind = "calls"
    BY <1>1, <1>4 DEF Answers
  <2> QED BY <1>1, <2>1, <2>2, <2>3, <2>4, <2>5 DEF CallOf, Follows
<1>6. ASSUME NEW k \in 1..(n + 1), r[k].kind = "result"
      PROVE  \E j \in 1..(n + 1) : CallOf(r, DOMAIN r, j, k)
  <2>1. CASE k = n + 1
    <3>1. p \in 1..(n + 1)
      BY <1>1, <1>4
    <3> QED BY <1>5, <2>1, <3>1
  <2>2. CASE k \in 1..n
    <3>1. PICK j \in 1..n : CallOf(s, DOMAIN s, j, k)
      BY <1>1, <1>6, <2>2 DEF Sound, Owned
    <3>2. CallOf(r, DOMAIN r, j, k) /\ j \in 1..(n + 1)
      BY <1>1, <1>2, <2>2, <3>1
    <3> QED BY <3>2
  <2> QED BY <1>1, <2>1, <2>2
<1>7. ASSUME NEW j \in 1..(n + 1), r[j].kind = "calls"
      PROVE  AtEnd(r, j) \/ WholeAt(r, DOMAIN r, j)
  <2>1. j \in 1..n /\ s[j].kind = "calls"
    BY <1>1, <1>7
  <2>2. CASE AtEnd(s, j)
    <3>1. ASSUME NEW i \in (j + 1)..(n + 1)
          PROVE  r[i].kind = "result"
      <4>1. CASE i = n + 1
        BY <1>1, <4>1
      <4>2. CASE i # n + 1
        <5>1. i \in (j + 1)..n /\ i \in 1..n
          BY <1>1, <2>1, <4>2
        <5> QED BY <1>1, <2>2, <5>1 DEF AtEnd, n
      <4> QED BY <4>1, <4>2
    <3> QED BY <1>1, <3>1 DEF AtEnd
  <2>3. CASE WholeAt(s, DOMAIN s, j)
    BY <1>2, <2>1, <2>3
  <2> QED BY <1>1, <2>1, <2>2, <2>3 DEF Sound
<1> QED BY <1>1, <1>6, <1>7 DEF Sound, Owned, r

\* A batch with all its results closes the history.
LEMMA StoredCloses ==
  ASSUME NEW s, IsHistory(s), Sound(s), NEW p \in 1..Len(s), s[p].kind = "calls",
         NEW c \in Nat, Len(s) = p + c, s[p].calls = 1..c,
         \A i \in 1..c : s[p + i].kind = "result" /\ s[p + i].id = s[p].id /\ s[p + i].of = i
  PROVE  Closed(s, DOMAIN s)
<1> DEFINE n == Len(s)
<1>1. n \in Nat /\ DOMAIN s = 1..n /\ p \in 1..n /\ n = p + c
  BY HistoryFacts
<1> HIDE DEF n
<1>2. ASSUME NEW i \in (p + 1)..n
      PROVE  s[i].kind = "result"
  <2>1. i - p \in 1..c /\ p + (i - p) = i
    BY <1>1
  <2> QED BY <2>1
<1>3. WholeAt(s, DOMAIN s, p)
  <2>1. ASSUME NEW i \in 1..c
        PROVE  Follows(s, DOMAIN s, p, p + i) /\ Answers(s, p, p + i) /\ s[p + i].of = i
    <3>1. p + i \in 1..n /\ p < p + i /\ p..(p + i) \subseteq 1..n
      BY <1>1
    <3>2. \A l \in (p + 1)..(p + i) : l \in (p + 1)..n
      BY <1>1
    <3>3. Follows(s, DOMAIN s, p, p + i)
      BY <1>1, <1>2, <3>1, <3>2 DEF Follows
    <3> QED BY <3>3 DEF Answers
  <2>2. \A i \in 1..c : p + i \in DOMAIN s
    BY <1>1
  <2> QED BY <2>1, <2>2 DEF WholeAt
<1>4. ASSUME NEW j \in 1..n, s[j].kind = "calls"
      PROVE  WholeAt(s, DOMAIN s, j)
  <2>1. CASE j = p
    BY <1>3, <2>1
  <2>2. CASE j # p
    <3>1. ~(j > p)
      <4>1. j > p => j \in (p + 1)..n
        BY <1>1
      <4> QED BY <1>2, <1>4, <4>1
    <3>2. p \in (j + 1)..n
      BY <1>1, <2>2, <3>1
    <3>3. ~AtEnd(s, j)
      BY <3>2 DEF AtEnd, n
    <3> QED BY <1>1, <1>4, <3>3 DEF Sound
  <2> QED BY <2>1, <2>2
<1> QED BY <1>1, <1>4 DEF Closed, Sound

-----------------------------------------------------------------------------
(* Typing of the conversation.                                              *)

LEMMA MessagesHistory ==
  ASSUME HistoryTypeOK
  PROVE  IsHistory(messages)
BY DEF HistoryTypeOK, IsHistory

\* The blocks are typed over a history of n messages.
BlocksTyped(bs, n) ==
    /\ bs \in Seq(Blocks)
    /\ \A b \in DOMAIN bs :
         /\ bs[b].direct \subseteq 1..n
         /\ bs[b].refs \subseteq bs[b].consumed /\ bs[b].consumed \subseteq 1..(b - 1)

LEMMA BlocksTypedGrow ==
  ASSUME NEW bs, NEW n \in Nat, NEW l \in Nat, n <= l, BlocksTyped(bs, n)
  PROVE  BlocksTyped(bs, l)
<1>1. 1..n \subseteq 1..l
  OBVIOUS
<1> QED BY <1>1 DEF BlocksTyped

LEMMA NoBlocksTyped ==
  ASSUME NEW n
  PROVE  BlocksTyped(<<>>, n)
<1>1. <<>> \in Seq(Blocks) /\ DOMAIN <<>> = {}
  OBVIOUS
<1> QED BY <1>1 DEF BlocksTyped

\* The type invariant in terms of these.
Typed ==
    /\ IsHistory(messages) /\ Len(messages) <= MaxMessages
    /\ BlocksTyped(blocks, Len(messages))
    /\ pc \in {"idle", "sample", "tools", "apply"}
    /\ batch \in [id : 0..MaxIds, calls : SUBSET (1..MaxCalls), said : BOOLEAN,
                  dup : BOOLEAN, compress : 0..MaxCalls, seen : 0..MaxMessages]
    /\ events \in Seq(0..MaxCalls) /\ Len(events) <= MaxCalls + 1
    /\ next \in 1..(MaxIds + 1)

LEMMA HistoryTyping == HistoryTypeOK <=> Typed
<1>1. IsHistory(messages) => DOMAIN messages = 1..Len(messages)
  BY HistoryFacts
<1> QED BY <1>1 DEF HistoryTypeOK, Typed, IsHistory, BlocksTyped

\* apply_compression_at: the blocks before the new one, and the new one.
LEMMA CompressedFacts ==
  ASSUME HistoryTypeOK, NEW sel, NEW refs
  PROVE  /\ Len(blocks) \in Nat /\ DOMAIN blocks = 1..Len(blocks)
         /\ DOMAIN Compressed(sel, refs) = 1..(Len(blocks) + 1)
         /\ \A b \in 1..Len(blocks) :
              /\ blocks[b] \in Blocks
              /\ Compressed(sel, refs)[b].active
                   <=> blocks[b].active /\ b \notin Consumed(sel)
              /\ Compressed(sel, refs)[b].direct = blocks[b].direct
              /\ Compressed(sel, refs)[b].consumed = blocks[b].consumed
              /\ Compressed(sel, refs)[b].refs = blocks[b].refs
              /\ Compressed(sel, refs)[b].text = blocks[b].text
              /\ Compressed(sel, refs)[b] \in Blocks
         /\ Compressed(sel, refs)[Len(blocks) + 1] =
              [active |-> TRUE, direct |-> sel, consumed |-> Consumed(sel),
               refs |-> refs, text |-> {Identity(messages[k]) : k \in Untold(sel)}]
<1> DEFINE n == Len(blocks)
           old == [b \in DOMAIN blocks |->
                     [blocks[b] EXCEPT !.active = @ /\ b \notin Consumed(sel)]]
           new == [active |-> TRUE, direct |-> sel, consumed |-> Consumed(sel),
                   refs |-> refs, text |-> {Identity(messages[k]) : k \in Untold(sel)}]
           T == {old[b] : b \in 1..n} \cup {new}
<1>1. /\ blocks \in Seq(Blocks) /\ n \in Nat /\ DOMAIN blocks = 1..n
      /\ \A b \in 1..n : blocks[b] \in Blocks
  <2>1. blocks \in Seq(Blocks)
    BY DEF HistoryTypeOK
  <2> QED BY <2>1
<1>2. ASSUME NEW b \in 1..n
      PROVE  /\ old[b].active <=> blocks[b].active /\ b \notin Consumed(sel)
             /\ old[b].direct = blocks[b].direct /\ old[b].consumed = blocks[b].consumed
             /\ old[b].refs = blocks[b].refs /\ old[b].text = blocks[b].text
             /\ old[b] \in Blocks
  <2>1. old[b] = [blocks[b] EXCEPT !.active = blocks[b].active /\ b \notin Consumed(sel)]
    BY <1>1
  <2>2. (blocks[b].active /\ b \notin Consumed(sel)) \in BOOLEAN
    OBVIOUS
  <2> DEFINE keeps == blocks[b].active /\ b \notin Consumed(sel)
  <2> HIDE DEF keeps, old
  <2>3. old[b] = [blocks[b] EXCEPT !.active = keeps] /\ keeps \in BOOLEAN /\ blocks[b] \in Blocks
    BY <1>1, <2>1, <2>2 DEF keeps
  <2>4. /\ old[b].active = keeps
        /\ old[b].direct = blocks[b].direct /\ old[b].consumed = blocks[b].consumed
        /\ old[b].refs = blocks[b].refs /\ old[b].text = blocks[b].text
        /\ old[b] \in Blocks
    BY <2>3 DEF Blocks
  <2> QED BY <2>4 DEF keeps
<1>3. Compressed(sel, refs) = Append(old, new)
  BY DEF Compressed
<1> HIDE DEF old, new
<1>4. old \in Seq(T) /\ Len(old) = n /\ new \in T
  <2>1. old \in [1..n -> T]
    BY <1>1 DEF old
  <2> QED BY <1>1, <2>1
<1> HIDE DEF T, n
<1>5. /\ DOMAIN Append(old, new) = 1..(n + 1) /\ Append(old, new)[n + 1] = new
      /\ \A b \in 1..n : Append(old, new)[b] = old[b]
  BY <1>1, <1>4
<1> QED BY <1>1, <1>2, <1>3, <1>5 DEF n, new

LEMMA CompressedTyped ==
  ASSUME HistoryTypeOK, NEW sel \in SUBSET (1..Len(messages)), NEW refs \in SUBSET Consumed(sel)
  PROVE  BlocksTyped(Compressed(sel, refs), Len(messages))
<1> DEFINE n == Len(blocks)
           C == Compressed(sel, refs)
           new == [active |-> TRUE, direct |-> sel, consumed |-> Consumed(sel),
                   refs |-> refs, text |-> {Identity(messages[k]) : k \in Untold(sel)}]
<1>1. /\ n \in Nat /\ DOMAIN blocks = 1..n /\ DOMAIN C = 1..(n + 1)
      /\ \A b \in 1..n : C[b].direct = blocks[b].direct /\ C[b].consumed = blocks[b].consumed
                         /\ C[b].refs = blocks[b].refs /\ C[b] \in Blocks
      /\ C[n + 1] = new
  BY CompressedFacts
<1>2. /\ Len(messages) \in Nat /\ Len(messages) <= MaxMessages /\ MaxMessages \in Nat
      /\ \A k \in 1..Len(messages) : messages[k] \in Messages
      /\ BlocksTyped(blocks, Len(messages))
  BY HistoryTyping, HistoryFacts, HistoryBounds DEF Typed
<1>3. Consumed(sel) \in SUBSET (1..n)
  BY <1>1 DEF Consumed, Active
<1>4. new \in Blocks
  <2>1. sel \in SUBSET (1..MaxMessages)
    BY <1>2
  <2>2. Consumed(sel) \in SUBSET Nat /\ refs \in SUBSET Nat
    BY <1>1, <1>3
  <2>3. \A k \in Untold(sel) : Identity(messages[k]) \in (1..MaxIds) \X (0..MaxCalls)
    <3>1. \A k \in Untold(sel) : messages[k] \in Messages
      BY <1>2 DEF Untold
    <3> QED BY <3>1 DEF Messages, Identity
  <2> DEFINE text == {Identity(messages[k]) : k \in Untold(sel)}
  <2>4. text \in SUBSET ((1..MaxIds) \X (0..MaxCalls))
    BY <2>3
  <2>5. new = [active |-> TRUE, direct |-> sel, consumed |-> Consumed(sel),
               refs |-> refs, text |-> text]
    OBVIOUS
  <2> HIDE DEF text, new
  <2> QED BY <2>1, <2>2, <2>4, <2>5 DEF Blocks
<1>5. new.direct = sel /\ new.consumed = Consumed(sel) /\ new.refs = refs
  OBVIOUS
<1> HIDE DEF C, new, n
<1>6. C \in Seq(Blocks)
  <2>1. \A b \in 1..(n + 1) : C[b] \in Blocks
    BY <1>1, <1>4
  <2>2. C \in [1..(n + 1) -> Blocks]
    <3>1. C = [b \in DOMAIN C |-> C[b]]
      BY DEF C, Compressed
    <3> QED BY <1>1, <2>1, <3>1
  <2> QED BY <1>1, <2>2
<1>7. ASSUME NEW b \in 1..(n + 1)
      PROVE  /\ C[b].direct \subseteq 1..Len(messages)
             /\ C[b].refs \subseteq C[b].consumed /\ C[b].consumed \subseteq 1..(b - 1)
  <2>1. CASE b = n + 1
    <3>1. (n + 1) - 1 = n
      BY <1>1
    <3> QED BY <1>1, <1>3, <1>5, <2>1, <3>1
  <2>2. CASE b \in 1..n
    BY <1>1, <1>2, <2>2 DEF BlocksTyped
  <2> QED BY <1>1, <2>1, <2>2
<1> QED BY <1>1, <1>6, <1>7 DEF BlocksTyped, C

\* AgentMemory::add_message keeps the history and its blocks typed.
LEMMA RepairedTyped ==
  ASSUME HistoryTypeOK, NEW m \in Messages, m.kind = "calls" <=> m.calls # {},
         Len(messages) < MaxMessages, NEW bs, NEW raw, raw = Append(messages, m),
         Repair(raw, TRUE) = raw => BlocksTyped(bs, Len(messages)),
         Repair(raw, TRUE) # raw => bs = <<>>
  PROVE  /\ IsHistory(Repair(raw, TRUE)) /\ Len(Repair(raw, TRUE)) <= MaxMessages
         /\ BlocksTyped(bs, Len(Repair(raw, TRUE)))
<1>1. IsHistory(messages) /\ messages \in Seq(Messages) /\ MaxMessages \in Nat
  BY HistoryTyping, HistoryBounds DEF Typed, IsHistory
<1>2. Len(messages) \in Nat /\ Len(raw) = Len(messages) + 1 /\ IsHistory(raw)
  BY <1>1, AppendFacts, AppendHistory
<1>3. IsHistory(Repair(raw, TRUE)) /\ Len(Repair(raw, TRUE)) <= Len(raw)
  BY <1>2, RepairTyped
<1> DEFINE t == Repair(raw, TRUE)
<1>4. Len(t) \in Nat /\ Len(t) <= MaxMessages
  <2>1. IsHistory(t) /\ Len(t) <= Len(messages) + 1
    BY <1>2, <1>3
  <2> HIDE DEF t
  <2>2. Len(t) \in Nat
    BY <2>1, HistoryFacts
  <2> QED BY <1>1, <1>2, <2>1, <2>2
<1>5. CASE Repair(raw, TRUE) = raw
  <2>1. BlocksTyped(bs, Len(messages)) /\ Len(t) = Len(messages) + 1
    BY <1>2, <1>5
  <2> HIDE DEF t
  <2>2. BlocksTyped(bs, Len(t))
    BY <1>2, <1>4, <2>1, BlocksTypedGrow
  <2> QED BY <1>3, <1>4, <2>2 DEF t
<1>6. CASE Repair(raw, TRUE) # raw
  BY <1>3, <1>4, <1>6, NoBlocksTyped
<1> QED BY <1>5, <1>6

LEMMA AddTyped ==
  ASSUME HistoryTypeOK, NEW m \in Messages, m.kind = "calls" <=> m.calls # {}, AddMessage(m)
  PROVE  /\ IsHistory(messages') /\ Len(messages') <= MaxMessages
         /\ BlocksTyped(blocks', Len(messages'))
<1> DEFINE raw == Append(messages, m)
<1>1. Len(messages) < MaxMessages /\ messages' = Repair(raw, TRUE)
  BY DEF AddMessage
<1>2. /\ Repair(raw, TRUE) = raw => blocks' = blocks
      /\ Repair(raw, TRUE) # raw => blocks' = <<>>
  BY DEF AddMessage, BlocksAfter
<1>3. BlocksTyped(blocks, Len(messages))
  BY HistoryTyping DEF Typed
<1> HIDE DEF raw
<1>4. raw = Append(messages, m)
  BY DEF raw
<1> QED BY <1>1, <1>2, <1>3, <1>4, RepairedTyped

LEMMA PlainMessage ==
  ASSUME HistoryTypeOK, next <= MaxIds, NEW k \in {"task", "user", "text"}
  PROVE  /\ Message(k) \in Messages /\ Message(k).kind = k /\ Message(k).calls = {}
<1>1. next \in 1..MaxIds /\ MaxCalls \in Nat
  BY HistoryTyping, HistoryBounds DEF Typed
<1> QED BY <1>1 DEF Message, Messages, Kinds

LEMMA AddPlainTyped ==
  ASSUME HistoryTypeOK, next <= MaxIds, NEW k \in {"task", "user", "text"}, AddMessage(Message(k)),
         next' = next + 1
  PROVE  /\ IsHistory(messages') /\ Len(messages') <= MaxMessages
         /\ BlocksTyped(blocks', Len(messages')) /\ next' \in 1..(MaxIds + 1)
<1>1. /\ Message(k) \in Messages /\ Message(k).kind = k /\ Message(k).calls = {}
      /\ k # "calls"
  BY PlainMessage
<1>2. /\ IsHistory(messages') /\ Len(messages') <= MaxMessages
      /\ BlocksTyped(blocks', Len(messages'))
  BY <1>1, AddTyped
<1>3. next' \in 1..(MaxIds + 1)
  BY HistoryTyping, HistoryBounds DEF Typed
<1> QED BY <1>2, <1>3

\* The events of a batch of n calls.
LEMMA SeqOfFunction ==
  ASSUME NEW S, NEW l \in Nat, NEW f \in [1..l -> S]
  PROVE  f \in Seq(S) /\ Len(f) = l
OBVIOUS

LEMMA RestTyped ==
  ASSUME NEW n \in 1..MaxCalls, NEW c \in 0..n, batch.calls = 1..n, batch.dup \in BOOLEAN
  PROVE  /\ Cardinality(batch.calls) = n
         /\ Rest(c) \in Seq(0..MaxCalls) /\ Len(Rest(c)) <= n
         /\ batch.dup => Rest(c) = <<>>
         /\ ~batch.dup => Rest(c) = [i \in 1..(n - c) |-> c + i] /\ Len(Rest(c)) = n - c
<1>1. n \in Int /\ c \in Int /\ 0 <= c /\ c <= n /\ 1 <= n /\ n <= MaxCalls /\ MaxCalls \in Nat
  BY HistoryBounds
<1>2. Cardinality(1..n) = n
  BY <1>1, FS_Interval
<1>3. CASE batch.dup
  <2>1. Rest(c) = <<>> /\ <<>> \in Seq(0..MaxCalls) /\ Len(<<>>) = 0
    BY <1>3 DEF Rest
  <2> QED BY <1>1, <1>2, <1>3, <2>1
<1>4. CASE ~batch.dup
  <2>1. Rest(c) = [i \in 1..(n - c) |-> c + i]
    BY <1>2, <1>4 DEF Rest
  <2>2. \A i \in 1..(n - c) : c + i \in 0..MaxCalls
    BY <1>1
  <2>3. Rest(c) \in [1..(n - c) -> 0..MaxCalls] /\ n - c \in Nat
    BY <1>1, <2>1, <2>2
  <2>4. Rest(c) \in Seq(0..MaxCalls) /\ Len(Rest(c)) = n - c
    BY <2>3, SeqOfFunction
  <2> QED BY <1>1, <1>2, <1>4, <2>1, <2>4
<1> QED BY <1>3, <1>4

LEMMA BatchMessages ==
  ASSUME HistoryTypeOK, BatchOK, pc = "apply", events # <<>>
  PROVE  /\ LET m == [kind |-> "calls", id |-> batch.id, calls |-> batch.calls,
                      of |-> 0, said |-> batch.said]
            IN m \in Messages /\ m.kind = "calls" /\ m.calls # {}
         /\ LET m == [kind |-> "result", id |-> batch.id, calls |-> {},
                      of |-> Head(events), said |-> TRUE]
            IN m \in Messages /\ m.kind = "result" /\ m.calls = {}
         /\ Tail(events) \in Seq(0..MaxCalls) /\ Len(Tail(events)) <= MaxCalls + 1
<1>1. /\ events \in Seq(0..MaxCalls) /\ Len(events) <= MaxCalls + 1 /\ MaxCalls \in Nat
      /\ batch \in [id : 0..MaxIds, calls : SUBSET (1..MaxCalls), said : BOOLEAN,
                    dup : BOOLEAN, compress : 0..MaxCalls, seen : 0..MaxMessages]
  BY HistoryTyping, HistoryBounds DEF Typed
<1>2. Head(events) \in 0..MaxCalls /\ Tail(events) \in Seq(0..MaxCalls)
  BY <1>1
<1>3. Len(Tail(events)) <= MaxCalls + 1
  BY <1>1
<1>4. batch.id >= 1 /\ \E n \in 1..MaxCalls : batch.calls = 1..n
  BY DEF BatchOK
<1>5. batch.id \in 1..MaxIds /\ batch.calls \in SUBSET (1..MaxCalls) /\ batch.said \in BOOLEAN
  BY <1>1, <1>4
<1>6. batch.calls # {}
  <2>1. PICK n \in 1..MaxCalls : batch.calls = 1..n
    BY <1>4
  <2>2. 1 \in 1..n
    OBVIOUS
  <2> QED BY <2>1, <2>2
<1> QED BY <1>1, <1>2, <1>3, <1>5, <1>6 DEF Messages, Kinds

LEMMA TypingStep ==
  ASSUME HistoryTypeOK, BatchOK, [HistoryNext]_historyVars
  PROVE  Typed' /\ BatchOK'
<1>1. Typed
  BY HistoryTyping
<1>2. /\ MaxCalls \in Nat /\ MaxIds \in Nat /\ MaxMessages \in Nat
      /\ Len(messages) \in Nat /\ DOMAIN messages = 1..Len(messages)
  BY <1>1, HistoryBounds, HistoryFacts DEF Typed
<1>3. NoBatch \in [id : 0..MaxIds, calls : SUBSET (1..MaxCalls), said : BOOLEAN,
                   dup : BOOLEAN, compress : 0..MaxCalls, seen : 0..MaxMessages]
  BY <1>2 DEF NoBatch
<1>4. <<>> \in Seq(0..MaxCalls) /\ Len(<<>>) <= MaxCalls + 1
  <2>1. <<>> \in Seq(0..MaxCalls) /\ Len(<<>>) = 0
    OBVIOUS
  <2> QED BY <1>2, <2>1
<1>5. ASSUME StartRun PROVE Typed' /\ BatchOK'
  <2>1. PICK k \in {"task", "user"} : AddMessage(Message(k))
    BY <1>5 DEF StartRun
  <2>2. /\ IsHistory(messages') /\ Len(messages') <= MaxMessages
        /\ BlocksTyped(blocks', Len(messages')) /\ next' \in 1..(MaxIds + 1)
    BY <1>5, <2>1, AddPlainTyped DEF StartRun
  <2> QED BY <1>1, <1>5, <2>2 DEF StartRun, Typed, BatchOK
<1>6. ASSUME AddContext PROVE Typed' /\ BatchOK'
  <2>1. /\ IsHistory(messages') /\ Len(messages') <= MaxMessages
        /\ BlocksTyped(blocks', Len(messages')) /\ next' \in 1..(MaxIds + 1)
    BY <1>6, AddPlainTyped DEF AddContext
  <2> QED BY <1>1, <1>6, <2>1 DEF AddContext, Typed, BatchOK
<1>7. ASSUME RewriteFailures PROVE Typed' /\ BatchOK'
  <2>1. IsHistory(messages') /\ Len(messages') <= Len(messages)
    BY <1>1, <1>7, RepairTyped DEF RewriteFailures, Typed
  <2>2. Len(messages') <= MaxMessages
    BY <1>1, <1>2, <2>1, HistoryFacts DEF Typed
  <2>3. BlocksTyped(blocks', Len(messages'))
    BY <1>7, NoBlocksTyped DEF RewriteFailures
  <2> QED BY <1>1, <1>7, <2>1, <2>2, <2>3 DEF RewriteFailures, Typed, BatchOK
<1>8. ASSUME Reply PROVE Typed' /\ BatchOK'
  <2>1. /\ IsHistory(messages') /\ Len(messages') <= MaxMessages
        /\ BlocksTyped(blocks', Len(messages')) /\ next' \in 1..(MaxIds + 1)
    BY <1>8, AddPlainTyped DEF Reply
  <2> QED BY <1>1, <1>8, <2>1 DEF Reply, Typed, BatchOK
<1>9. ASSUME CallTools PROVE Typed' /\ BatchOK'
  <2>1. PICK n \in 1..MaxCalls, said \in BOOLEAN, dup \in BOOLEAN, c \in 0..MaxCalls :
          batch' = [id |-> next, calls |-> 1..n, said |-> said, dup |-> dup,
                    compress |-> c, seen |-> Len(messages)]
    BY <1>9 DEF CallTools
  <2>2. next \in 1..MaxIds /\ next' \in 1..(MaxIds + 1) /\ Len(messages) \in 0..MaxMessages
    BY <1>1, <1>2, <1>9 DEF CallTools, Typed
  <2>3. 1..n \in SUBSET (1..MaxCalls)
    BY <1>2
  <2>4. batch' \in [id : 0..MaxIds, calls : SUBSET (1..MaxCalls), said : BOOLEAN,
                    dup : BOOLEAN, compress : 0..MaxCalls, seen : 0..MaxMessages]
    BY <1>2, <2>1, <2>2, <2>3
  <2>5. batch'.id >= 1 /\ batch'.calls = 1..n /\ batch'.seen = Len(messages)
    BY <1>2, <2>1, <2>2
  <2>6. messages' = messages /\ blocks' = blocks /\ events' = events /\ pc' = "tools"
    BY <1>9 DEF CallTools
  <2>7. Typed'
    BY <1>1, <2>2, <2>4, <2>6 DEF Typed
  <2> QED BY <2>5, <2>6, <2>7 DEF BatchOK
<1>10. ASSUME ToolsReturn PROVE Typed' /\ BatchOK'
  <2>1. PICK n \in 1..MaxCalls : batch.calls = 1..n
    BY <1>10 DEF ToolsReturn, BatchOK
  <2>2. events' = <<0>> \o Rest(0)
    <3>1. n - 0 = n /\ 0 \in 0..n /\ batch.dup \in BOOLEAN
      BY <1>1 DEF Typed
    <3>2. Cardinality(batch.calls) = n /\ (~batch.dup => Rest(0) = [c \in 1..(n - 0) |-> 0 + c])
          /\ (batch.dup => Rest(0) = <<>>)
      BY <2>1, <3>1, RestTyped
    <3>3. [c \in 1..(n - 0) |-> 0 + c] = [c \in 1..n |-> c]
      OBVIOUS
    <3> QED BY <1>10, <3>2, <3>3 DEF ToolsReturn
  <2>3. Rest(0) \in Seq(0..MaxCalls) /\ Len(Rest(0)) <= n
    <3>1. 0 \in 0..n /\ batch.dup \in BOOLEAN
      BY <1>1 DEF Typed
    <3> QED BY <2>1, <3>1, RestTyped
  <2>4. events' \in Seq(0..MaxCalls) /\ Len(events') = 1 + Len(Rest(0))
    BY <1>2, <2>2, <2>3
  <2>5. Len(events') <= MaxCalls + 1
    BY <1>2, <2>3, <2>4
  <2> QED BY <1>1, <1>10, <2>4, <2>5 DEF ToolsReturn, Typed, BatchOK
<1>11. ASSUME ApplyAssistant PROVE Typed' /\ BatchOK'
  <2>1. /\ IsHistory(messages') /\ Len(messages') <= MaxMessages
        /\ BlocksTyped(blocks', Len(messages'))
    BY <1>11, BatchMessages, AddTyped DEF ApplyAssistant
  <2>2. events' \in Seq(0..MaxCalls) /\ Len(events') <= MaxCalls + 1
    BY <1>11, BatchMessages DEF ApplyAssistant
  <2> QED BY <1>1, <1>11, <2>1, <2>2 DEF ApplyAssistant, Typed, BatchOK
<1>12. ASSUME ApplyResult PROVE Typed' /\ BatchOK'
  <2> DEFINE m == [kind |-> "result", id |-> batch.id, calls |-> {},
                   of |-> Head(events), said |-> TRUE]
             raw == Append(messages, m)
  <2>1. m \in Messages /\ m.kind = "result" /\ m.calls = {}
    BY <1>12, BatchMessages DEF ApplyResult
  <2>2. /\ Len(messages) < MaxMessages /\ messages' = Repair(raw, TRUE)
        /\ \/ blocks' = BlocksAfter(raw)
           \/ \E sel \in Selections : Accepts(sel) /\
                \E refs \in SUBSET Consumed(sel) :
                  blocks' = IF Repair(raw, TRUE) = raw THEN Compressed(sel, refs) ELSE <<>>
    BY <1>12 DEF ApplyResult
  <2> HIDE DEF raw, m
  <2>3. /\ Repair(raw, TRUE) = raw => BlocksTyped(blocks', Len(messages))
        /\ Repair(raw, TRUE) # raw => blocks' = <<>>
    <3>1. CASE blocks' = BlocksAfter(raw)
      BY <1>1, <3>1 DEF BlocksAfter, Typed
    <3>2. CASE blocks' # BlocksAfter(raw)
      <4>1. PICK sel \in Selections : Accepts(sel) /\
                \E refs \in SUBSET Consumed(sel) :
                  blocks' = IF Repair(raw, TRUE) = raw THEN Compressed(sel, refs) ELSE <<>>
        BY <2>2, <3>2
      <4>2. PICK refs \in SUBSET Consumed(sel) :
                  blocks' = IF Repair(raw, TRUE) = raw THEN Compressed(sel, refs) ELSE <<>>
        BY <4>1
      <4>3. sel \in SUBSET (1..Len(messages))
        BY <1>2, <4>1 DEF Accepts
      <4>4. BlocksTyped(Compressed(sel, refs), Len(messages))
        BY <4>3, CompressedTyped
      <4> QED BY <4>2, <4>4
    <3> QED BY <3>1, <3>2
  <2>4. m.kind = "calls" <=> m.calls # {}
    BY <2>1
  <2>5. /\ IsHistory(messages') /\ Len(messages') <= MaxMessages
        /\ BlocksTyped(blocks', Len(messages'))
    <3>1. raw = Append(messages, m)
      BY DEF raw
    <3> QED BY <2>1, <2>2, <2>3, <2>4, <3>1, RepairedTyped
  <2>6. events' \in Seq(0..MaxCalls) /\ Len(events') <= MaxCalls + 1
    BY <1>12, BatchMessages DEF ApplyResult
  <2>7. pc' = pc /\ batch' = batch /\ next' = next /\ pc = "apply"
    BY <1>12 DEF ApplyResult
  <2> QED BY <1>1, <2>5, <2>6, <2>7 DEF Typed, BatchOK
<1>13. ASSUME ApplyDone PROVE Typed' /\ BatchOK'
  <2>1. pc' \in {"idle", "sample"}
    BY <1>13 DEF ApplyDone
  <2> QED BY <1>1, <1>3, <1>13, <2>1 DEF ApplyDone, Typed, BatchOK
<1>14. ASSUME RunEnds PROVE Typed' /\ BatchOK'
  BY <1>1, <1>3, <1>4, <1>14 DEF RunEnds, Typed, BatchOK
<1>15. ASSUME Clear PROVE Typed' /\ BatchOK'
  <2>1. IsHistory(<<>>) /\ Len(<<>>) = 0
    <3>1. <<>> \in Seq(Messages) /\ DOMAIN <<>> = {} /\ Len(<<>>) = 0
      OBVIOUS
    <3> QED BY <3>1 DEF IsHistory
  <2>2. IsHistory(messages') /\ Len(messages') <= MaxMessages
    BY <1>2, <1>15, <2>1 DEF Clear
  <2>3. BlocksTyped(blocks', Len(messages'))
    BY <1>15, NoBlocksTyped DEF Clear
  <2> QED BY <1>1, <1>15, <2>2, <2>3 DEF Clear, Typed, BatchOK
<1>16. ASSUME NEW k \in 1..MaxMessages, AutoCompact(k) PROVE Typed' /\ BatchOK'
  <2>1. messages' = messages /\ batch' = batch /\ events' = events /\ next' = next
        /\ pc = "sample" /\ pc' \in {"sample", "idle"}
    BY <1>16 DEF AutoCompact
  <2>2. BlocksTyped(blocks', Len(messages))
    <3> DEFINE sel == AutoSelection(k)
    <3>1. CASE blocks' = blocks
      BY <1>1, <3>1 DEF Typed
    <3>2. CASE blocks' # blocks
      <4>1. Accepts(sel) /\ blocks' = Compressed(sel, Consumed(sel))
        BY <1>16, <3>2 DEF AutoCompact
      <4> HIDE DEF sel
      <4>2. sel \in SUBSET (1..Len(messages)) /\ Consumed(sel) \in SUBSET Consumed(sel)
        BY <1>2, <4>1 DEF Accepts
      <4>3. BlocksTyped(Compressed(sel, Consumed(sel)), Len(messages))
        BY <4>2, CompressedTyped
      <4> QED BY <4>1, <4>3
    <3> QED BY <3>1, <3>2
  <2> QED BY <1>1, <2>1, <2>2 DEF Typed, BatchOK
<1>17. ASSUME UNCHANGED historyVars PROVE Typed' /\ BatchOK'
  BY <1>1, <1>17 DEF historyVars, Typed, BatchOK
<1> QED BY <1>5, <1>6, <1>7, <1>8, <1>9, <1>10, <1>11, <1>12, <1>13, <1>14, <1>15, <1>16, <1>17
       DEF HistoryNext

LEMMA TypingInit ==
  ASSUME HistoryInit
  PROVE  Typed /\ BatchOK
<1>1. MaxCalls \in Nat /\ MaxIds \in Nat /\ MaxMessages \in Nat
  BY HistoryBounds
<1>2. <<>> \in Seq(Messages) /\ DOMAIN <<>> = {} /\ Len(<<>>) = 0 /\ <<>> \in Seq(0..MaxCalls)
  OBVIOUS
<1>3. IsHistory(<<>>)
  BY <1>2 DEF IsHistory
<1>4. NoBatch \in [id : 0..MaxIds, calls : SUBSET (1..MaxCalls), said : BOOLEAN,
                   dup : BOOLEAN, compress : 0..MaxCalls, seen : 0..MaxMessages]
  BY <1>1 DEF NoBatch
<1>5. BlocksTyped(<<>>, 0)
  BY NoBlocksTyped
<1> QED BY <1>1, <1>2, <1>3, <1>4, <1>5 DEF HistoryInit, Typed, BatchOK

\* The conversation, its blocks and the run that appends to it keep their types.
THEOREM HistoryTyped == HistorySpec => []HistoryTypeOK
<1>1. HistoryInit => HistoryTypeOK /\ BatchOK
  BY TypingInit, HistoryTyping
<1>2. Typed' => HistoryTypeOK'
  BY HistoryTyping, PTL
<1>3. HistoryTypeOK /\ BatchOK /\ [HistoryNext]_historyVars => HistoryTypeOK' /\ BatchOK'
  BY <1>2, TypingStep
<1> QED BY <1>1, <1>3, PTL DEF HistorySpec

-----------------------------------------------------------------------------
(* The batch that is being applied: the history is sound at every step, and  *)
(* closed whenever the model is asked.                                       *)

LEMMA RestSteps ==
  ASSUME NEW n \in 1..MaxCalls, NEW c \in 0..n, batch.calls = 1..n, batch.dup \in BOOLEAN
  PROVE  /\ Rest(c) # <<>> => /\ ~batch.dup /\ c < n /\ Head(Rest(c)) = c + 1
                              /\ Tail(Rest(c)) = Rest(c + 1)
         /\ Rest(c) = <<>> /\ ~batch.dup => c = n
<1>1. n \in Int /\ c \in Int /\ 0 <= c /\ c <= n /\ 1 <= n
  BY HistoryBounds
<1>2. /\ batch.dup => Rest(c) = <<>>
      /\ ~batch.dup => Rest(c) = [i \in 1..(n - c) |-> c + i] /\ Len(Rest(c)) = n - c
      /\ Rest(c) \in Seq(0..MaxCalls)
  BY RestTyped
<1>3. ASSUME ~batch.dup, Rest(c) = <<>> PROVE c = n
  BY <1>1, <1>2, <1>3
<1>4. ASSUME Rest(c) # <<>>
      PROVE  /\ ~batch.dup /\ c < n /\ Head(Rest(c)) = c + 1
             /\ Tail(Rest(c)) = Rest(c + 1)
  <2> DEFINE s == Rest(c)
             l == n - (c + 1)
  <2>1. ~batch.dup /\ s = [i \in 1..(n - c) |-> c + i] /\ Len(s) = n - c
        /\ s \in Seq(0..MaxCalls)
    BY <1>2, <1>4
  <2> HIDE DEF s
  <2>2. c < n
    <3>1. Len(s) # 0
      BY <1>4, <2>1 DEF s
    <3> QED BY <1>1, <2>1, <3>1
  <2>3. Head(s) = c + 1
    <3>1. Head(s) = s[1] /\ 1 \in 1..(n - c)
      BY <1>1, <2>1, <2>2
    <3> QED BY <1>1, <2>1, <3>1
  <2>4. /\ Tail(s) \in Seq(0..MaxCalls) /\ Len(Tail(s)) = l /\ l \in Nat
        /\ \A i \in 1..l : Tail(s)[i] = s[i + 1]
    <3>1. s # <<>> /\ s \in Seq(0..MaxCalls)
      BY <1>4, <2>1 DEF s
    <3>2. /\ Tail(s) \in Seq(0..MaxCalls) /\ Len(Tail(s)) = Len(s) - 1
          /\ \A i \in 1..(Len(s) - 1) : Tail(s)[i] = s[i + 1]
      BY <3>1, HeadTailProperties
    <3>3. Len(s) - 1 = l /\ l \in Nat
      BY <1>1, <2>1, <2>2
    <3> HIDE DEF l
    <3> QED BY <3>2, <3>3
  <2>5. \A i \in 1..l : s[i + 1] = (c + 1) + i
    BY <1>1, <2>1
  <2>6. Rest(c + 1) = [i \in 1..l |-> (c + 1) + i]
    <3>1. c + 1 \in 0..n
      BY <1>1, <2>2
    <3> QED BY <2>1, <3>1, RestTyped
  <2> HIDE DEF l
  <2>7. Tail(s) = [i \in 1..l |-> Tail(s)[i]]
    <3> DEFINE rest == Tail(s)
    <3>1. rest \in Seq(0..MaxCalls) /\ Len(rest) = l
      BY <2>4
    <3> HIDE DEF rest
    <3>2. rest \in [1..l -> 0..MaxCalls]
      BY <3>1, LenProperties
    <3> QED BY <3>2 DEF rest
  <2>8. Tail(s) = Rest(c + 1)
    BY <2>4, <2>5, <2>6, <2>7
  <2> QED BY <2>1, <2>2, <2>3, <2>8 DEF s
<1> QED BY <1>3, <1>4

LEMMA AddPlainCloses ==
  ASSUME HistoryTypeOK, Sound(messages), next <= MaxIds,
         NEW k \in {"task", "user", "text"}, AddMessage(Message(k))
  PROVE  Closed(messages', DOMAIN messages')
<1> DEFINE m == Message(k)
           r == Append(messages, m)
<1>1. m \in Messages /\ m.kind = k /\ m.calls = {} /\ k \notin {"calls", "result"}
  BY PlainMessage
<1>2. IsHistory(messages) /\ messages \in Seq(Messages)
  BY MessagesHistory DEF IsHistory
<1>3. messages' = Repair(r, TRUE)
  BY DEF AddMessage
<1> HIDE DEF m
<1>4. Len(r) = Len(messages) + 1 /\ Len(messages) \in Nat /\ r[Len(messages) + 1] = m
  BY <1>1, <1>2, AppendFacts
<1>5. IsHistory(r)
  BY <1>1, <1>2, AppendHistory
<1>6. Owned(r, DOMAIN r)
  BY <1>1, <1>2, PlainOwned DEF Sound
<1> HIDE DEF r
<1>7. Len(r) # 0 /\ r[Len(r)].kind \notin {"calls", "result"}
  BY <1>1, <1>4
<1> QED BY <1>3, <1>5, <1>6, <1>7, RepairCloses

\* The batch whose first results are stored is the last thing in the history.
LEMMA StoredAtEnd ==
  ASSUME HistoryTypeOK, BatchOK, pc = "apply", NEW c \in 0..MaxCalls, BatchStored(c)
  PROVE  LET p == batch.seen + 1
         IN /\ p \in 1..Len(messages) /\ p \in Nat /\ Len(messages) = p + c /\ messages[p].kind = "calls"
            /\ AtEnd(messages, p)
            /\ \A i \in (p + 1)..Len(messages) : messages[i].of <= c
<1> DEFINE p == batch.seen + 1
           n == Len(messages)
<1>1. batch.seen \in Nat /\ n \in Nat /\ c \in Nat
  <2>1. batch.seen \in 0..MaxMessages
    BY HistoryTyping DEF Typed
  <2>2. n \in Nat
    BY MessagesHistory, HistoryFacts
  <2> QED BY <2>1, <2>2, HistoryBounds
<1>2. /\ n = p + c /\ messages[p].kind = "calls"
      /\ \A i \in 1..c : messages[p + i].kind = "result" /\ messages[p + i].of = i
  BY DEF BatchStored
<1> HIDE DEF n
<1>3. p \in 1..n /\ p \in Nat
  BY <1>1, <1>2
<1> HIDE DEF p
<1>4. ASSUME NEW i \in (p + 1)..n
      PROVE  messages[i].kind = "result" /\ messages[i].of <= c
  <2>1. i - p \in 1..c /\ p + (i - p) = i
    BY <1>1, <1>2, <1>3
  <2>2. messages[i].kind = "result" /\ messages[i].of = i - p
    BY <1>2, <2>1
  <2> QED BY <1>1, <1>3, <2>1, <2>2
<1> QED BY <1>2, <1>3, <1>4 DEF AtEnd, p, n

\* What the two kinds of events of a batch do to the history.
LEMMA AssistantApplied ==
  ASSUME HistoryTypeOK, BatchOK, HistoryInv, ApplyAssistant
  PROVE  /\ AssistantDue /\ batch.seen = Len(messages)
         /\ messages' = Append(messages, [kind |-> "calls", id |-> batch.id, calls |-> batch.calls,
                                          of |-> 0, said |-> batch.said])
         /\ Sound(messages') /\ BatchStored(0)' /\ blocks' = blocks
<1> DEFINE m == [kind |-> "calls", id |-> batch.id, calls |-> batch.calls,
                 of |-> 0, said |-> batch.said]
           r == Append(messages, m)
<1>1. pc = "apply" /\ events # <<>> /\ Head(events) = 0 /\ AddMessage(m) /\ events' = Tail(events)
      /\ batch' = batch
  BY DEF ApplyAssistant
<1>2. PICK n \in 1..MaxCalls : batch.calls = 1..n
  BY <1>1 DEF BatchOK
<1>3. batch.dup \in BOOLEAN /\ batch.seen \in 0..MaxMessages /\ n \in Nat /\ MaxMessages \in Nat
  BY HistoryTyping, HistoryBounds DEF Typed
<1>4. Cardinality(batch.calls) = n
  <2>1. 0 \in 0..n
    BY <1>3
  <2> QED BY <1>2, <1>3, <2>1, RestTyped
<1>5. ASSUME NEW c \in 0..MaxCalls, BatchStored(c) PROVE FALSE
  <2>1. events = Rest(c) /\ c \in 0..n
    BY <1>3, <1>4, <1>5 DEF BatchStored
  <2>2. Head(events) = c + 1
    BY <1>1, <1>2, <1>3, <2>1, RestSteps
  <2> QED BY <1>1, <1>3, <2>1, <2>2
<1>6. AssistantDue
  BY <1>1, <1>5 DEF HistoryInv
<1>7. /\ Tail(events) = Rest(0) /\ batch.seen = Len(messages)
      /\ Closed(messages, DOMAIN messages)
  BY <1>6 DEF AssistantDue
<1>8. m \in Messages /\ m.kind = "calls" /\ m.calls # {} /\ m.id = batch.id /\ m.calls = batch.calls
  BY <1>1, BatchMessages
<1> HIDE DEF m
<1>9. IsHistory(messages) /\ messages \in Seq(Messages)
  BY MessagesHistory DEF IsHistory
<1>10. IsHistory(r) /\ Sound(r)
  BY <1>7, <1>8, <1>9, AppendHistory, CallsSound
<1>11. Repair(r, TRUE) = r
  BY <1>10, SoundIsFixed
<1>12. messages' = r /\ blocks' = blocks
  BY <1>1, <1>11 DEF AddMessage, BlocksAfter
<1>13. Len(r) = Len(messages) + 1 /\ Len(messages) \in Nat /\ r[Len(messages) + 1] = m
  BY <1>8, <1>9, AppendFacts
<1> HIDE DEF r
<1>14. BatchStored(0)'
  <2>1. Rest(0)' = Rest(0)
    BY <1>1 DEF Rest
  <2>2. Len(r) = batch.seen + 1 + 0 /\ 0 <= Cardinality(batch.calls)
    BY <1>3, <1>4, <1>7, <1>13
  <2>3. r[batch.seen + 1] = m
    BY <1>7, <1>13
  <2>4. \A i \in 1..0 : FALSE
    OBVIOUS
  <2> QED BY <1>1, <1>7, <1>8, <1>12, <2>1, <2>2, <2>3, <2>4 DEF BatchStored
<1> QED BY <1>6, <1>7, <1>10, <1>12, <1>14 DEF r, m

LEMMA ResultApplied ==
  ASSUME HistoryTypeOK, BatchOK, HistoryInv, ApplyResult
  PROVE  /\ \E c \in 0..MaxCalls : BatchStored(c)
         /\ \E c \in 0..MaxCalls : BatchStored(c)'
         /\ messages' = Append(messages, [kind |-> "result", id |-> batch.id, calls |-> {},
                                          of |-> Head(events), said |-> TRUE])
         /\ Repair(messages', TRUE) = messages'
         /\ Sound(messages')
<1> DEFINE m == [kind |-> "result", id |-> batch.id, calls |-> {},
                 of |-> Head(events), said |-> TRUE]
           r == Append(messages, m)
<1>1. /\ pc = "apply" /\ events # <<>> /\ Head(events) # 0 /\ messages' = Repair(r, TRUE)
      /\ events' = Tail(events) /\ batch' = batch
  BY DEF ApplyResult
<1>2. PICK n \in 1..MaxCalls : batch.calls = 1..n
  BY <1>1 DEF BatchOK
<1>3. batch.dup \in BOOLEAN /\ batch.seen \in Nat /\ n \in Nat /\ MaxCalls \in Nat /\ n <= MaxCalls
  <2>1. batch.seen \in 0..MaxMessages /\ batch.dup \in BOOLEAN
    BY HistoryTyping DEF Typed
  <2> QED BY <2>1, HistoryBounds
<1>4. Cardinality(batch.calls) = n
  <2>1. 0 \in 0..n
    BY <1>3
  <2> QED BY <1>2, <1>3, <2>1, RestTyped
<1>5. PICK c \in 0..MaxCalls : BatchStored(c)
  BY <1>1 DEF HistoryInv, AssistantDue
<1>6. events = Rest(c) /\ c \in 0..n /\ Len(messages) = batch.seen + 1 + c
  BY <1>3, <1>4, <1>5 DEF BatchStored
<1>7. ~batch.dup /\ c < n /\ Head(events) = c + 1 /\ Tail(events) = Rest(c + 1)
  BY <1>1, <1>2, <1>3, <1>6, RestSteps
<1>8. m \in Messages /\ m.kind = "result" /\ m.calls = {} /\ m.id = batch.id /\ m.of = c + 1
  BY <1>1, <1>7, BatchMessages
<1> HIDE DEF m
<1> DEFINE p == batch.seen + 1
<1>9. IsHistory(messages) /\ messages \in Seq(Messages) /\ Sound(messages)
  BY MessagesHistory DEF IsHistory, HistoryInv
<1>10. /\ p \in 1..Len(messages) /\ p \in Nat /\ Len(messages) = p + c /\ messages[p].kind = "calls"
       /\ AtEnd(messages, p)
       /\ \A i \in (p + 1)..Len(messages) : messages[i].of <= c
  BY <1>1, <1>5, StoredAtEnd
<1>11. /\ messages[p].id = batch.id /\ messages[p].calls = batch.calls
       /\ \A i \in 1..c : /\ messages[p + i].kind = "result"
                          /\ messages[p + i].id = batch.id /\ messages[p + i].of = i
  BY <1>5 DEF BatchStored
<1> HIDE DEF p
<1>12. IsHistory(r)
  BY <1>8, <1>9, AppendHistory
<1>13. Sound(r)
  <2>1. m.of \in messages[p].calls
    BY <1>2, <1>3, <1>7, <1>8, <1>11
  <2>2. \A i \in (p + 1)..Len(messages) : messages[i].of # m.of
    <3>1. c \in Nat /\ ~(c + 1 <= c)
      BY <1>6
    <3> QED BY <1>8, <1>10, <3>1
  <2> QED BY <1>8, <1>9, <1>10, <1>11, <2>1, <2>2, ResultSound
<1>14. messages' = r /\ Repair(r, TRUE) = r
  BY <1>1, <1>12, <1>13, SoundIsFixed
<1>15. /\ Len(messages) \in Nat /\ Len(r) = Len(messages) + 1
       /\ (\A k \in 1..Len(messages) : r[k] = messages[k]) /\ r[Len(messages) + 1] = m
  BY <1>8, <1>9, AppendFacts
<1> HIDE DEF r
<1>16. BatchStored(c + 1)'
  <2>1. Rest(c + 1)' = Rest(c + 1)
    BY <1>1 DEF Rest
  <2>2. Len(r) = batch.seen + 1 + (c + 1) /\ c + 1 <= Cardinality(batch.calls)
    <3>1. c \in Int /\ n \in Int /\ batch.seen \in Int
      BY <1>3, <1>6
    <3> QED BY <1>4, <1>6, <1>7, <1>15, <3>1
  <2>3. r[p] = messages[p]
    BY <1>10, <1>15
  <2>4. ASSUME NEW i \in 1..(c + 1)
        PROVE  r[p + i].kind = "result" /\ r[p + i].id = batch.id /\ r[p + i].of = i
    <3>1. CASE i = c + 1
      <4>1. p + i = Len(messages) + 1
        BY <1>6, <1>10, <3>1
      <4> QED BY <1>8, <1>15, <3>1, <4>1
    <3>2. CASE i # c + 1
      <4>1. i \in 1..c /\ p + i \in 1..Len(messages)
        BY <1>6, <1>10, <3>2
      <4> QED BY <1>11, <1>15, <4>1
    <3> QED BY <3>1, <3>2
  <2>5. /\ r[p].kind = "calls" /\ r[p].id = batch.id /\ r[p].calls = batch.calls
    BY <1>10, <1>11, <2>3
  <2>6. events' = Rest(c + 1)'
    BY <1>1, <1>7, <2>1
  <2>7. messages' = r /\ batch' = batch /\ ~batch.dup
    BY <1>1, <1>7, <1>14
  <2> QED BY <2>2, <2>4, <2>5, <2>6, <2>7 DEF BatchStored, p
<1>17. c + 1 \in 0..MaxCalls
  BY <1>3, <1>6, <1>7
<1> QED BY <1>5, <1>13, <1>14, <1>16, <1>17 DEF r, m

LEMMA HistoryStep ==
  ASSUME HistoryTypeOK, BatchOK, HistoryInv, [HistoryNext]_historyVars
  PROVE  HistoryInv'
<1>1. Sound(messages) /\ (pc \in {"sample", "tools"} => Closed(messages, DOMAIN messages))
  BY DEF HistoryInv
<1>2. ASSUME Closed(messages', DOMAIN messages'), pc' # "apply" PROVE HistoryInv'
  BY <1>2, ClosedIsSound DEF HistoryInv
<1>3. ASSUME messages' = messages, pc' = "idle" PROVE HistoryInv'
  BY <1>1, <1>3 DEF HistoryInv
<1>4. ASSUME StartRun PROVE HistoryInv'
  <2>1. PICK k \in {"task", "user"} : AddMessage(Message(k))
    BY <1>4 DEF StartRun
  <2> QED BY <1>1, <1>2, <1>4, <2>1, AddPlainCloses DEF StartRun
<1>5. ASSUME AddContext PROVE HistoryInv'
  BY <1>1, <1>2, <1>5, AddPlainCloses DEF AddContext
<1>6. ASSUME RewriteFailures PROVE HistoryInv'
  <2>1. messages' = messages
    BY <1>1, <1>6, MessagesHistory, SoundIsFixed DEF RewriteFailures
  <2> QED BY <1>1, <1>2, <1>6, <2>1 DEF RewriteFailures
<1>7. ASSUME Reply PROVE HistoryInv'
  <2>1. pc' # "apply"
    BY <1>7 DEF Reply
  <2> QED BY <1>1, <1>2, <1>7, <2>1, AddPlainCloses DEF Reply
<1>8. ASSUME CallTools PROVE HistoryInv'
  BY <1>1, <1>2, <1>8 DEF CallTools
<1>9. ASSUME ToolsReturn PROVE HistoryInv'
  <2>1. PICK n \in 1..MaxCalls : batch.calls = 1..n
    BY <1>9 DEF ToolsReturn, BatchOK
  <2>2. n - 0 = n /\ 0 \in 0..n /\ batch.dup \in BOOLEAN
    BY HistoryTyping, HistoryBounds DEF Typed
  <2>3. /\ Cardinality(batch.calls) = n /\ Rest(0) \in Seq(0..MaxCalls)
        /\ ~batch.dup => Rest(0) = [c \in 1..(n - 0) |-> 0 + c]
        /\ batch.dup => Rest(0) = <<>>
    BY <2>1, <2>2, RestTyped
  <2>4. events' = <<0>> \o Rest(0)
    <3>1. [c \in 1..(n - 0) |-> 0 + c] = [c \in 1..n |-> c]
      OBVIOUS
    <3> QED BY <1>9, <2>2, <2>3, <3>1 DEF ToolsReturn
  <2>5. events' # <<>> /\ Head(events') = 0 /\ Tail(events') = Rest(0)
    <3> DEFINE rest == Rest(0)
    <3>1. rest \in Seq(0..MaxCalls)
      BY <2>3
    <3> HIDE DEF rest
    <3>2. 0 \in 0..MaxCalls
      BY HistoryBounds
    <3>3. <<0>> \o rest # <<>> /\ Head(<<0>> \o rest) = 0 /\ Tail(<<0>> \o rest) = rest
      BY <3>1, <3>2
    <3> QED BY <2>4, <3>3 DEF rest
  <2>6. messages' = messages /\ batch' = batch /\ pc' = "apply" /\ pc = "tools"
    BY <1>9 DEF ToolsReturn
  <2>7. Rest(0)' = Rest(0)
    BY <2>6 DEF Rest
  <2>8. AssistantDue'
    BY <1>1, <2>5, <2>6, <2>7 DEF AssistantDue, BatchOK
  <2> QED BY <1>1, <2>6, <2>8 DEF HistoryInv
<1>10. ASSUME ApplyAssistant PROVE HistoryInv'
  <2>1. Sound(messages') /\ BatchStored(0)' /\ pc' = "apply"
    BY <1>10, AssistantApplied DEF ApplyAssistant
  <2>2. 0 \in 0..MaxCalls
    BY HistoryBounds
  <2>3. (\E c \in 0..MaxCalls : BatchStored(c))'
    BY <2>1, <2>2
  <2> QED BY <2>1, <2>3 DEF HistoryInv
<1>11. ASSUME ApplyResult PROVE HistoryInv'
  <2>1. Sound(messages') /\ (\E c \in 0..MaxCalls : BatchStored(c))' /\ pc' = "apply"
    BY <1>11, ResultApplied DEF ApplyResult
  <2> QED BY <2>1 DEF HistoryInv
<1>12. ASSUME ApplyDone PROVE HistoryInv'
  <2>1. CASE batch.dup
    BY <1>3, <1>12, <2>1 DEF ApplyDone
  <2>2. CASE ~batch.dup
    <3>1. pc = "apply" /\ events = <<>> /\ messages' = messages /\ pc' = "sample"
      BY <1>12, <2>2 DEF ApplyDone
    <3>2. PICK c \in 0..MaxCalls : BatchStored(c)
      BY <3>1 DEF HistoryInv, AssistantDue
    <3>3. PICK n \in 1..MaxCalls : batch.calls = 1..n
      BY <3>1 DEF BatchOK
    <3>4. batch.dup \in BOOLEAN /\ n \in Nat /\ c \in Nat /\ 0 \in 0..n
      BY HistoryTyping, HistoryBounds DEF Typed
    <3>5. Cardinality(batch.calls) = n
      BY <3>3, <3>4, RestTyped
    <3>6. c \in 0..n /\ Rest(c) = <<>>
      BY <3>1, <3>2, <3>4, <3>5 DEF BatchStored
    <3>7. c = n
      BY <2>2, <3>3, <3>4, <3>6, RestSteps
    <3> DEFINE p == batch.seen + 1
    <3>8. p \in 1..Len(messages) /\ Len(messages) = p + c /\ messages[p].kind = "calls"
      BY <3>1, <3>2, StoredAtEnd
    <3>9. /\ messages[p].calls = 1..c
          /\ \A i \in 1..c : /\ messages[p + i].kind = "result"
                             /\ messages[p + i].id = messages[p].id /\ messages[p + i].of = i
      BY <3>2, <3>3, <3>7 DEF BatchStored
    <3> HIDE DEF p
    <3>10. Closed(messages, DOMAIN messages)
      <4>1. IsHistory(messages) /\ Sound(messages) /\ c \in Nat
        BY <1>1, <3>4, MessagesHistory
      <4> QED BY <3>8, <3>9, <4>1, StoredCloses, ZenonT(60)
    <3> QED BY <1>2, <3>1, <3>10
  <2> QED BY <2>1, <2>2
<1>13. ASSUME RunEnds PROVE HistoryInv'
  BY <1>3, <1>13 DEF RunEnds
<1>14. ASSUME Clear PROVE HistoryInv'
  <2>1. DOMAIN <<>> = {}
    OBVIOUS
  <2>2. Closed(<<>>, DOMAIN <<>>)
    BY <2>1 DEF Closed, Owned
  <2> QED BY <1>2, <1>14, <2>2 DEF Clear
<1>15. ASSUME NEW k \in 1..MaxMessages, AutoCompact(k) PROVE HistoryInv'
  <2>1. messages' = messages /\ pc = "sample" /\ pc' # "apply"
    BY <1>15 DEF AutoCompact
  <2> QED BY <1>1, <1>2, <2>1
<1>16. ASSUME UNCHANGED historyVars PROVE HistoryInv'
  BY <1>16 DEF historyVars, HistoryInv, AssistantDue, BatchStored, Rest
<1> QED BY <1>4, <1>5, <1>6, <1>7, <1>8, <1>9, <1>10, <1>11, <1>12, <1>13, <1>14, <1>15, <1>16
       DEF HistoryNext

LEMMA HistoryInitInv ==
  ASSUME HistoryInit
  PROVE  HistoryInv
<1>1. DOMAIN <<>> = {}
  OBVIOUS
<1>2. Closed(<<>>, DOMAIN <<>>)
  BY <1>1 DEF Closed, Owned
<1> QED BY <1>2, ClosedIsSound DEF HistoryInit, HistoryInv

-----------------------------------------------------------------------------
(* Blocks: what they cover and what their summaries tell.                   *)

LEMMA HasLeast ==
  ASSUME NEW n \in Nat, NEW S \in SUBSET (1..n), S # {}
  PROVE  \E k \in S : \A i \in S : k <= i
<1>1. Cardinality(S) \in Nat /\ \A k \in S : Rank(S, k) \in 1..Cardinality(S)
  BY OrderedFacts
<1>2. 1 \in 1..Cardinality(S)
  <2>1. PICK k \in S : TRUE
    OBVIOUS
  <2> QED BY <1>1, <2>1
<1>3. PICK k \in S : Rank(S, k) = 1
  BY <1>2, OrderedFacts
<1>4. ASSUME NEW i \in S PROVE k <= i
  <2>1. i \in Int /\ k \in Int
    BY IndicesAreNat
  <2>2. i < k => Rank(S, i) < Rank(S, k)
    BY <2>1, RankGrows
  <2>3. Rank(S, i) \in 1..Cardinality(S)
    BY <1>1
  <2> QED BY <1>1, <1>3, <2>1, <2>2, <2>3
<1> QED BY <1>4

LEMMA HasLargest ==
  ASSUME NEW n \in Nat, NEW S \in SUBSET (1..n), S # {}
  PROVE  \E k \in S : \A i \in S : k >= i
<1> DEFINE N == Cardinality(S)
<1>1. N \in Nat /\ \A k \in S : Rank(S, k) \in 1..N
  BY OrderedFacts
<1>2. N \in 1..N
  <2>1. PICK k \in S : TRUE
    OBVIOUS
  <2> HIDE DEF N
  <2> QED BY <1>1, <2>1
<1>3. PICK k \in S : Rank(S, k) = N
  BY <1>2, OrderedFacts
<1>4. ASSUME NEW i \in S PROVE k >= i
  <2>1. i \in Int /\ k \in Int
    BY IndicesAreNat
  <2>2. k < i => Rank(S, k) < Rank(S, i)
    BY <2>1, RankGrows
  <2>3. Rank(S, i) \in 1..N
    BY <1>1
  <2> HIDE DEF N
  <2> QED BY <1>1, <1>3, <2>1, <2>2, <2>3
<1> QED BY <1>4

LEMMA BlockFacts ==
  ASSUME HistoryTypeOK
  PROVE  /\ blocks \in Seq(Blocks) /\ Len(blocks) \in Nat /\ DOMAIN blocks = 1..Len(blocks)
         /\ \A b \in 1..Len(blocks) :
              /\ blocks[b].direct \in SUBSET (1..Len(messages))
              /\ blocks[b].refs \subseteq blocks[b].consumed
              /\ \A c \in blocks[b].consumed : c \in 1..Len(blocks) /\ c < b
         /\ Len(messages) \in Nat /\ DOMAIN messages = 1..Len(messages)
<1>1. BlocksTyped(blocks, Len(messages))
  BY HistoryTyping DEF Typed
<1>2. blocks \in Seq(Blocks) /\ Len(blocks) \in Nat /\ DOMAIN blocks = 1..Len(blocks)
  BY <1>1 DEF BlocksTyped
<1>3. ASSUME NEW b \in 1..Len(blocks), NEW c \in blocks[b].consumed
      PROVE  c \in 1..Len(blocks) /\ c < b
  <2>1. c \in 1..(b - 1)
    BY <1>1, <1>2 DEF BlocksTyped
  <2> QED BY <1>2, <2>1
<1>4. Len(messages) \in Nat /\ DOMAIN messages = 1..Len(messages)
  BY MessagesHistory, HistoryFacts
<1> QED BY <1>1, <1>2, <1>3, <1>4 DEF BlocksTyped

\* effective_message_indices: a block covers its own selection, no more, since
\* the blocks it consumes lie inside it.
LEMMA EffectiveIsDirect ==
  ASSUME HistoryTypeOK, BlocksInv
  PROVE  \A b \in DOMAIN blocks : Effective[b] = blocks[b].direct
<1> DEFINE D == DOMAIN blocks
           g == [b \in D |-> blocks[b].direct]
           Bad == {b \in D : Effective[b] # blocks[b].direct}
<1>1. /\ Len(blocks) \in Nat /\ D = 1..Len(blocks)
      /\ \A b \in D : \A c \in blocks[b].consumed :
           c \in D /\ c < b /\ blocks[c].direct \subseteq blocks[b].direct
  BY BlockFacts DEF BlocksInv
<1>2. \A b \in D : UNION {g[c] : c \in blocks[b].consumed} \subseteq blocks[b].direct
  BY <1>1
<1>3. g = [b \in DOMAIN blocks |->
             blocks[b].direct \cup UNION {g[c] : c \in blocks[b].consumed}]
  BY <1>2
<1>4. Effective = [b \in DOMAIN blocks |->
                     blocks[b].direct \cup UNION {Effective[c] : c \in blocks[b].consumed}]
  <2> HIDE DEF g
  <2> QED BY <1>3, Zenon DEF Effective
<1>5. \A b \in D : Effective[b]
                     = blocks[b].direct \cup UNION {Effective[c] : c \in blocks[b].consumed}
  BY <1>4, Zenon
<1>6. SUFFICES ASSUME Bad # {} PROVE FALSE
  OBVIOUS
<1>7. Bad \in SUBSET (1..Len(blocks))
  BY <1>1
<1>8. PICK b \in Bad : \A c \in Bad : b <= c
  <2> HIDE DEF Bad
  <2> QED BY <1>1, <1>6, <1>7, HasLeast
<1>9. b \in D /\ Effective[b] # blocks[b].direct
  OBVIOUS
<1>10. \A c \in blocks[b].consumed : Effective[c] = blocks[c].direct
  <2>1. ASSUME NEW c \in blocks[b].consumed, c \in Bad PROVE FALSE
    <3>1. c < b /\ c \in Int /\ b \in Int
      BY <1>1, <1>9, <2>1
    <3>2. b <= c
      BY <1>8, <2>1
    <3> QED BY <3>1, <3>2
  <2> QED BY <1>1, <1>9, <2>1
<1>11. UNION {Effective[c] : c \in blocks[b].consumed} \subseteq blocks[b].direct
  BY <1>1, <1>9, <1>10
<1> HIDE DEF Bad
<1> QED BY <1>5, <1>9, <1>11

\* The blocks whose summaries the summary of b shows.
ClosedBlocks(R) == \A c \in R : Nested(c) \subseteq R
Shown(b) ==
    {c \in DOMAIN blocks : \A R \in SUBSET DOMAIN blocks : b \in R /\ ClosedBlocks(R) => c \in R}

LEMMA ShownUnfolds ==
  ASSUME \A c \in DOMAIN blocks : Nested(c) \subseteq DOMAIN blocks, NEW b \in DOMAIN blocks
  PROVE  Shown(b) = {b} \cup UNION {Shown(c) : c \in Nested(b)}
<1> DEFINE D == DOMAIN blocks
           U == {b} \cup UNION {Shown(c) : c \in Nested(b)}
<1>1. \A c \in D : Shown(c) \in SUBSET D /\ c \in Shown(c)
  BY DEF Shown
<1>2. ASSUME NEW c \in D, NEW d \in Shown(c) PROVE Nested(d) \subseteq Shown(c)
  BY <1>2 DEF Shown, ClosedBlocks
<1>3. ASSUME NEW d \in U PROVE d \in Shown(b)
  <2>1. CASE d = b
    BY <1>1, <2>1
  <2>2. CASE d # b
    <3>1. PICK c \in Nested(b) : d \in Shown(c)
      BY <2>2
    <3>2. ASSUME NEW R \in SUBSET D, b \in R, ClosedBlocks(R) PROVE d \in R
      <4>1. c \in R
        BY <3>2 DEF ClosedBlocks
      <4> QED BY <3>1, <3>2, <4>1 DEF Shown
    <3> QED BY <3>1, <3>2 DEF Shown
  <2> QED BY <2>1, <2>2
<1>4. ASSUME NEW d \in Shown(b) PROVE d \in U
  <2>1. U \in SUBSET D
    BY <1>1
  <2>2. ASSUME NEW e \in U PROVE Nested(e) \subseteq U
    <3>1. CASE e = b
      <4>1. \A c \in Nested(b) : c \in Shown(c)
        BY <1>1
      <4> QED BY <3>1, <4>1
    <3>2. CASE e # b
      <4>1. PICK c \in Nested(b) : e \in Shown(c)
        BY <3>2
      <4>2. Nested(e) \subseteq Shown(c)
        BY <1>2, <4>1
      <4> QED BY <4>2
    <3> QED BY <3>1, <3>2
  <2>3. b \in U /\ ClosedBlocks(U)
    BY <2>2 DEF ClosedBlocks
  <2> HIDE DEF U
  <2> QED BY <1>4, <2>1, <2>3 DEF Shown
<1> HIDE DEF U
<1> QED BY <1>3, <1>4 DEF U

LEMMA ToldUnfolds ==
  ASSUME HistoryTypeOK
  PROVE  \A b \in DOMAIN blocks :
           Told[b] = blocks[b].text \cup UNION {Told[c] : c \in Nested(b)}
<1> DEFINE D == DOMAIN blocks
           g == [b \in D |-> UNION {blocks[c].text : c \in Shown(b)}]
<1>1. \A b \in D : Nested(b) \subseteq D
  BY BlockFacts DEF Nested
<1>2. ASSUME NEW b \in D
      PROVE  g[b] = blocks[b].text \cup UNION {g[c] : c \in Nested(b)}
  <2>1. Shown(b) = {b} \cup UNION {Shown(c) : c \in Nested(b)}
    BY <1>1, ShownUnfolds
  <2>2. g[b] = UNION {blocks[d].text : d \in Shown(b)}
    OBVIOUS
  <2>3. \A c \in Nested(b) : g[c] = UNION {blocks[d].text : d \in Shown(c)}
    BY <1>1
  <2> HIDE DEF g
  <2>4. ASSUME NEW x \in g[b]
        PROVE  x \in blocks[b].text \cup UNION {g[c] : c \in Nested(b)}
    <3>1. PICK d \in Shown(b) : x \in blocks[d].text
      BY <2>2
    <3> QED BY <2>1, <2>3, <3>1
  <2>5. ASSUME NEW x \in blocks[b].text \cup UNION {g[c] : c \in Nested(b)}
        PROVE  x \in g[b]
    <3>1. CASE x \in blocks[b].text
      BY <2>1, <2>2, <3>1
    <3>2. CASE x \notin blocks[b].text
      <4>1. PICK c \in Nested(b) : x \in g[c]
        BY <3>2
      <4>2. PICK d \in Shown(c) : x \in blocks[d].text
        BY <2>3, <4>1
      <4>3. d \in Shown(b)
        BY <2>1, <4>2
      <4> QED BY <2>2, <4>2, <4>3
    <3> QED BY <3>1, <3>2
  <2> QED BY <2>4, <2>5
<1>3. g = [b \in DOMAIN blocks |-> blocks[b].text \cup UNION {g[c] : c \in Nested(b)}]
  BY <1>2
<1>4. Told = [b \in DOMAIN blocks |-> blocks[b].text \cup UNION {Told[c] : c \in Nested(b)}]
  <2> HIDE DEF g
  <2> QED BY <1>3, Zenon DEF Told
<1> QED BY <1>4, Zenon

\* Every raw message a block covers is told by its summary.
LEMMA AllTold ==
  ASSUME HistoryTypeOK, BlocksInv
  PROVE  \A b \in DOMAIN blocks : \A k \in blocks[b].direct : Identity(messages[k]) \in Told[b]
<1> DEFINE D == DOMAIN blocks
           Bad == {b \in D : \E k \in blocks[b].direct : Identity(messages[k]) \notin Told[b]}
<1>1. /\ Len(blocks) \in Nat /\ D = 1..Len(blocks)
      /\ \A b \in D : \A c \in blocks[b].consumed : c \in D /\ c < b
  BY BlockFacts
<1>2. \A b \in D : Told[b] = blocks[b].text \cup UNION {Told[c] : c \in Nested(b)}
  BY ToldUnfolds
<1>3. SUFFICES ASSUME Bad # {} PROVE FALSE
  OBVIOUS
<1>4. Bad \in SUBSET (1..Len(blocks))
  BY <1>1
<1>5. PICK b \in Bad : \A c \in Bad : b <= c
  <2> HIDE DEF Bad
  <2> QED BY <1>1, <1>3, <1>4, HasLeast
<1>6. PICK k \in blocks[b].direct : Identity(messages[k]) \notin Told[b]
  OBVIOUS
<1>7. b \in D
  OBVIOUS
<1>8. PICK c \in blocks[b].consumed : k \in blocks[c].direct
  BY <1>2, <1>6, <1>7 DEF BlocksInv
<1>9. c \in D /\ c < b /\ c \in Nested(b)
  BY <1>1, <1>7 DEF Nested
<1>10. c \notin Bad
  <2>1. b \in Int /\ c \in Int
    BY <1>1, <1>7, <1>9
  <2> HIDE DEF Bad
  <2> QED BY <1>5, <1>9, <2>1
<1>11. Identity(messages[k]) \in Told[c]
  BY <1>8, <1>9, <1>10
<1> QED BY <1>2, <1>6, <1>7, <1>9, <1>11

LEMMA ToldIsNothingForgotten ==
  ASSUME HistoryTypeOK, BlocksInv
  PROVE  NothingForgotten
<1>1. ASSUME NEW k \in Covered
      PROVE  \E b \in Active : k \in Effective[b] /\ Identity(messages[k]) \in Told[b]
  <2>1. PICK b \in Active : k \in Effective[b]
    BY DEF Covered
  <2>2. b \in DOMAIN blocks
    BY DEF Active
  <2>3. k \in blocks[b].direct
    BY <2>1, <2>2, EffectiveIsDirect
  <2> QED BY <2>1, <2>2, <2>3, AllTold
<1> QED BY <1>1 DEF NothingForgotten

-----------------------------------------------------------------------------
(* How a step changes the history and the blocks.                           *)

LEMMA AddChanges ==
  ASSUME NEW m, AddMessage(m)
  PROVE  blocks' = <<>> \/ (blocks' = blocks /\ messages' = Append(messages, m))
BY DEF AddMessage, BlocksAfter

\* The three ways a message is added; nothing else changes the messages while
\* blocks remain.
AddsPlain == pc' # "apply" /\ \E m \in Messages :
    /\ m.kind # "result" /\ messages' = Append(messages, m)
AddsCalls == batch' = batch /\ pc = "apply" /\ batch.seen = Len(messages) /\ \E m \in Messages :
    /\ m.kind # "result" /\ messages' = Append(messages, m)
AddsResult == batch' = batch /\ pc = "apply" /\ \E m \in Messages :
    /\ batch.seen + 1 \in 1..Len(messages) /\ messages[batch.seen + 1].kind = "calls"
    /\ messages' = Append(messages, m)

LEMMA MessagesChange ==
  ASSUME HistoryTypeOK, BatchOK, HistoryInv, [HistoryNext]_historyVars, blocks' # <<>>
  PROVE  /\ \/ messages' = messages /\ (pc' = "apply" => pc \in {"tools", "apply"} /\ batch' = batch)
            \/ AddsPlain /\ blocks' = blocks
            \/ AddsCalls /\ blocks' = blocks
            \/ AddsResult /\ ApplyResult
         /\ \/ blocks' = blocks
            \/ \E sel \in SUBSET (1..Len(messages)) : \E refs \in SUBSET Consumed(sel) :
                 /\ Accepts(sel) /\ blocks' = Compressed(sel, refs)
                 /\ \/ ApplyResult /\ sel \in Selections
                    \/ \E k \in BudgetTails : pc' # "apply" /\ sel = AutoSelection(k)
<1> DEFINE Change ==
         \/ messages' = messages /\ (pc' = "apply" => pc \in {"tools", "apply"} /\ batch' = batch)
         \/ AddsPlain /\ blocks' = blocks
         \/ AddsCalls /\ blocks' = blocks
         \/ AddsResult /\ ApplyResult
       Compacted ==
         \E sel \in SUBSET (1..Len(messages)) : \E refs \in SUBSET Consumed(sel) :
           /\ Accepts(sel) /\ blocks' = Compressed(sel, refs)
           /\ \/ ApplyResult /\ sel \in Selections
              \/ \E k \in BudgetTails : pc' # "apply" /\ sel = AutoSelection(k)
<1> SUFFICES Change /\ (blocks' = blocks \/ Compacted)
  OBVIOUS
<1>1. ASSUME NEW k \in {"task", "user", "text"}, next <= MaxIds, AddMessage(Message(k)), pc' # "apply"
      PROVE  Change /\ blocks' = blocks
  <2>1. Message(k) \in Messages /\ Message(k).kind # "result"
    BY <1>1, PlainMessage
  <2>2. blocks' = blocks /\ messages' = Append(messages, Message(k))
    BY <1>1, AddChanges
  <2> QED BY <1>1, <2>1, <2>2 DEF AddsPlain
<1>2. DOMAIN messages = 1..Len(messages)
  BY BlockFacts
<1> HIDE DEF Compacted
<1>3. CASE StartRun
  BY <1>1, <1>3 DEF StartRun
<1>4. CASE AddContext
  <2>1. pc' # "apply"
    BY <1>4 DEF AddContext
  <2> QED BY <1>1, <1>4, <2>1 DEF AddContext
<1>5. CASE RewriteFailures
  BY <1>5 DEF RewriteFailures
<1>6. CASE Reply
  <2>1. pc' # "apply"
    BY <1>6 DEF Reply
  <2> QED BY <1>1, <1>6, <2>1 DEF Reply
<1>7. CASE CallTools
  BY <1>7 DEF CallTools
<1>8. CASE ToolsReturn
  BY <1>8 DEF ToolsReturn
<1>9. CASE ApplyAssistant
  <2> DEFINE m == [kind |-> "calls", id |-> batch.id, calls |-> batch.calls,
                   of |-> 0, said |-> batch.said]
  <2>1. pc = "apply" /\ events # <<>> /\ batch' = batch
    BY <1>9 DEF ApplyAssistant
  <2>2. m \in Messages /\ m.kind # "result"
    BY <2>1, BatchMessages
  <2>3. batch.seen = Len(messages) /\ messages' = Append(messages, m) /\ blocks' = blocks
    BY <1>9, AssistantApplied
  <2> HIDE DEF m
  <2>4. AddsCalls
    BY <2>1, <2>2, <2>3 DEF AddsCalls
  <2> QED BY <2>3, <2>4
<1>10. CASE ApplyResult
  <2> DEFINE m == [kind |-> "result", id |-> batch.id, calls |-> {},
                   of |-> Head(events), said |-> TRUE]
             raw == Append(messages, m)
  <2>1. pc = "apply" /\ events # <<>> /\ batch' = batch
    BY <1>10 DEF ApplyResult
  <2>2. m \in Messages
    BY <2>1, BatchMessages
  <2>3. messages' = raw /\ Repair(raw, TRUE) = raw /\ \E c \in 0..MaxCalls : BatchStored(c)
    BY <1>10, ResultApplied
  <2>4. \/ blocks' = BlocksAfter(raw)
        \/ \E sel \in Selections : Accepts(sel) /\
             \E refs \in SUBSET Consumed(sel) :
               blocks' = IF Repair(raw, TRUE) = raw THEN Compressed(sel, refs) ELSE <<>>
    BY <1>10 DEF ApplyResult
  <2>5. batch.seen + 1 \in 1..Len(messages) /\ messages[batch.seen + 1].kind = "calls"
    BY <2>1, <2>3, StoredAtEnd
  <2>6. AddsResult
    BY <2>1, <2>2, <2>3, <2>5 DEF AddsResult
  <2> HIDE DEF raw
  <2>7. blocks' = blocks \/ Compacted
    <3>1. CASE blocks' = BlocksAfter(raw)
      BY <2>3, <3>1 DEF BlocksAfter
    <3>2. CASE blocks' # BlocksAfter(raw)
      <4>1. PICK sel \in Selections : Accepts(sel) /\
              \E refs \in SUBSET Consumed(sel) : blocks' = Compressed(sel, refs)
        BY <2>3, <2>4, <3>2
      <4>2. sel \in SUBSET (1..Len(messages))
        BY <1>2, <4>1 DEF Accepts
      <4> QED BY <1>10, <4>1, <4>2 DEF Compacted
    <3> QED BY <3>1, <3>2
  <2> QED BY <1>10, <2>6, <2>7
<1>11. CASE ApplyDone
  BY <1>11 DEF ApplyDone
<1>12. CASE RunEnds
  BY <1>12 DEF RunEnds
<1>13. CASE Clear
  BY <1>13 DEF Clear
<1>14. ASSUME NEW k \in 1..MaxMessages, AutoCompact(k)
       PROVE  Change /\ (blocks' = blocks \/ Compacted)
  <2> DEFINE sel == AutoSelection(k)
  <2>1. messages' = messages /\ pc' # "apply" /\ k \in BudgetTails
    BY <1>14 DEF AutoCompact
  <2>2. blocks' = blocks \/ (Accepts(sel) /\ blocks' = Compressed(sel, Consumed(sel)))
    BY <1>14 DEF AutoCompact
  <2>3. sel = AutoSelection(k)
    OBVIOUS
  <2> HIDE DEF sel
  <2>4. ASSUME Accepts(sel), blocks' = Compressed(sel, Consumed(sel)) PROVE Compacted
    <3>1. sel \in SUBSET (1..Len(messages)) /\ Consumed(sel) \in SUBSET Consumed(sel)
      BY <1>2, <2>4 DEF Accepts
    <3> QED BY <2>1, <2>3, <2>4, <3>1 DEF Compacted
  <2> QED BY <2>1, <2>2, <2>4
<1>15. CASE UNCHANGED historyVars
  BY <1>15 DEF historyVars
<1> QED BY <1>3, <1>4, <1>5, <1>6, <1>7, <1>8, <1>9, <1>10, <1>11, <1>12, <1>13, <1>14, <1>15
       DEF HistoryNext

LEMMA HistoryGrows ==
  ASSUME HistoryTypeOK, BatchOK, HistoryInv, [HistoryNext]_historyVars, blocks' # <<>>
  PROVE  \A k \in 1..Len(messages) : messages'[k] = messages[k]
<1>1. messages \in Seq(Messages)
  BY MessagesHistory DEF IsHistory
<1>2. messages' = messages \/ \E m \in Messages : messages' = Append(messages, m)
  BY MessagesChange DEF AddsPlain, AddsCalls, AddsResult
<1> QED BY <1>1, <1>2, AppendFacts

-----------------------------------------------------------------------------
(* The steps of the block invariants.                                       *)

\* A block after a compression is an old one, or the new one.
LEMMA CompressedBlock ==
  ASSUME HistoryTypeOK, NEW sel, NEW refs, blocks' = Compressed(sel, refs),
         NEW b \in DOMAIN blocks'
  PROVE  \/ /\ b \in DOMAIN blocks /\ b # Len(blocks) + 1
            /\ blocks'[b].direct = blocks[b].direct
            /\ blocks'[b].consumed = blocks[b].consumed /\ blocks'[b].text = blocks[b].text
            /\ b \in Active' <=> b \in Active \ Consumed(sel)
         \/ /\ b = Len(blocks) + 1
            /\ blocks'[b].direct = sel /\ blocks'[b].consumed = Consumed(sel)
            /\ blocks'[b].text = {Identity(messages[k]) : k \in Untold(sel)}
            /\ b \in Active'
<1> DEFINE C == Compressed(sel, refs)
           n == Len(blocks)
<1>1. /\ n \in Nat /\ DOMAIN blocks = 1..n /\ DOMAIN C = 1..(n + 1)
      /\ \A c \in 1..n : /\ C[c].active <=> blocks[c].active /\ c \notin Consumed(sel)
                         /\ C[c].direct = blocks[c].direct
                         /\ C[c].consumed = blocks[c].consumed /\ C[c].text = blocks[c].text
      /\ C[n + 1] = [active |-> TRUE, direct |-> sel, consumed |-> Consumed(sel),
                     refs |-> refs, text |-> {Identity(messages[k]) : k \in Untold(sel)}]
  BY CompressedFacts
<1> HIDE DEF n
<1>2. blocks' = C
  OBVIOUS
<1> HIDE DEF C
<1>3. CASE b \in 1..n
  <2>1. b # n + 1 /\ b \in DOMAIN C
    BY <1>1, <1>3
  <2> QED BY <1>1, <1>2, <1>3, <2>1 DEF Active, n
<1>4. CASE b = n + 1
  BY <1>1, <1>2, <1>4 DEF Active, n
<1> QED BY <1>1, <1>2, <1>3, <1>4

LEMMA NoActive ==
  ASSUME blocks' = <<>>
  PROVE  DOMAIN blocks' = {} /\ Active' = {}
BY DEF Active

LEMMA BlocksStep ==
  ASSUME HistoryTypeOK, BatchOK, HistoryInv, BlocksInv, [HistoryNext]_historyVars
  PROVE  BlocksInv'
<1>1. CASE blocks' = <<>>
  BY <1>1, NoActive DEF BlocksInv
<1>2. CASE blocks' # <<>>
  <2>1. \A k \in 1..Len(messages) : messages'[k] = messages[k]
    BY <1>2, HistoryGrows
  <2>2. \A b \in DOMAIN blocks : /\ blocks[b].direct \in SUBSET (1..Len(messages))
                                 /\ \A c \in blocks[b].consumed : c \in DOMAIN blocks
    BY BlockFacts
  <2>3. CASE blocks' = blocks
    BY <2>1, <2>2, <2>3 DEF BlocksInv, Identity
  <2>4. CASE blocks' # blocks
    <3>1. PICK sel \in SUBSET (1..Len(messages)) : \E refs \in SUBSET Consumed(sel) :
            Accepts(sel) /\ blocks' = Compressed(sel, refs)
      BY <1>2, <2>4, MessagesChange
    <3>2. PICK refs \in SUBSET Consumed(sel) : blocks' = Compressed(sel, refs)
      BY <3>1
    <3>3. \A c \in Consumed(sel) : c \in DOMAIN blocks /\ blocks[c].direct \subseteq sel
      BY DEF Consumed, Active
    <3>4. /\ DOMAIN blocks = 1..Len(blocks) /\ DOMAIN blocks' = 1..(Len(blocks) + 1)
          /\ Len(blocks) \in Nat
      BY <3>2, CompressedFacts
    <3>5. \A c \in DOMAIN blocks : blocks'[c].direct = blocks[c].direct
      BY <3>2, CompressedFacts
    <3>6. ASSUME NEW b \in DOMAIN blocks'
          PROVE  /\ blocks'[b].direct # {}
                 /\ \A c \in blocks'[b].consumed : blocks'[c].direct \subseteq blocks'[b].direct
                 /\ \A k \in blocks'[b].direct :
                      \/ Identity(messages'[k]) \in blocks'[b].text
                      \/ \E c \in blocks'[b].consumed : k \in blocks'[c].direct
      <4>1. CASE /\ b \in DOMAIN blocks
                 /\ blocks'[b].direct = blocks[b].direct
                 /\ blocks'[b].consumed = blocks[b].consumed /\ blocks'[b].text = blocks[b].text
        BY <2>1, <2>2, <3>5, <4>1 DEF BlocksInv, Identity
      <4>2. CASE /\ blocks'[b].direct = sel /\ blocks'[b].consumed = Consumed(sel)
                 /\ blocks'[b].text = {Identity(messages[k]) : k \in Untold(sel)}
        <5>1. sel # {}
          BY <3>1 DEF Accepts
        <5>2. ASSUME NEW k \in sel, Identity(messages'[k]) \notin blocks'[b].text
              PROVE  \E c \in Consumed(sel) : k \in blocks'[c].direct
          <6>1. messages'[k] = messages[k]
            BY <2>1
          <6>2. k \notin Untold(sel)
            BY <4>2, <5>2, <6>1
          <6>3. PICK c \in Consumed(sel) : k \in Effective[c]
            BY <6>2 DEF Untold
          <6>4. Effective[c] = blocks[c].direct
            BY <3>3, EffectiveIsDirect
          <6> QED BY <3>3, <3>5, <6>3, <6>4
        <5> QED BY <3>3, <3>5, <4>2, <5>1, <5>2
      <4> QED BY <3>2, <4>1, <4>2, CompressedBlock
    <3> QED BY <3>6 DEF BlocksInv
  <2> QED BY <2>3, <2>4
<1> QED BY <1>1, <1>2

\* An accepted selection and an active block it does not consume are disjoint.
LEMMA AcceptedApart ==
  ASSUME HistoryTypeOK, BlocksInv, NEW sel, Accepts(sel), NEW b \in Active \ Consumed(sel)
  PROVE  blocks[b].direct \cap sel = {}
<1>1. Effective[b] = blocks[b].direct
  BY EffectiveIsDirect DEF Active
<1> QED BY <1>1 DEF Accepts, NoOverlap

LEMMA DisjointStep ==
  ASSUME HistoryTypeOK, BatchOK, HistoryInv, BlocksInv, DisjointInv, [HistoryNext]_historyVars
  PROVE  DisjointInv'
<1>1. CASE blocks' = <<>>
  BY <1>1, NoActive DEF DisjointInv
<1>2. CASE blocks' = blocks
  BY <1>2 DEF DisjointInv, Active
<1>3. CASE blocks' # <<>> /\ blocks' # blocks
  <2>1. PICK sel \in SUBSET (1..Len(messages)) : \E refs \in SUBSET Consumed(sel) :
          Accepts(sel) /\ blocks' = Compressed(sel, refs)
    BY <1>3, MessagesChange
  <2>2. PICK refs \in SUBSET Consumed(sel) : blocks' = Compressed(sel, refs)
    BY <2>1
  <2>3. ASSUME NEW b \in Active'
        PROVE  \/ b \in Active \ Consumed(sel) /\ blocks'[b].direct = blocks[b].direct
               \/ b = Len(blocks) + 1 /\ blocks'[b].direct = sel
    <3>1. b \in DOMAIN blocks'
      BY DEF Active
    <3> QED BY <2>2, <3>1, CompressedBlock
  <2>4. \A b \in Active \ Consumed(sel) : blocks[b].direct \cap sel = {}
    BY <2>1, AcceptedApart
  <2>5. ASSUME NEW b \in Active', NEW c \in Active', b # c
        PROVE  blocks'[b].direct \cap blocks'[c].direct = {}
    BY <2>3, <2>4, <2>5 DEF DisjointInv
  <2> QED BY <2>5 DEF DisjointInv
<1> QED BY <1>1, <1>2, <1>3

LEMMA BatchesKept ==
  ASSUME NEW sel
  PROVE  KeepsBatches(sel) <=> KeepsWhole(messages, sel)
<1>1. ASSUME KeepsBatches(sel), NEW j \in DOMAIN messages, messages[j].kind = "calls"
      PROVE  \/ j \in sel /\ ResultsAfter(messages, j) \subseteq sel
             \/ j \notin sel /\ ResultsAfter(messages, j) \cap sel = {}
  <2>1. {j} \cup ResultsAfter(messages, j) \in ToolBatches
    BY <1>1 DEF ToolBatches
  <2> QED BY <1>1, <2>1 DEF KeepsBatches
<1>2. ASSUME KeepsWhole(messages, sel), NEW t \in ToolBatches
      PROVE  t \subseteq sel \/ t \cap sel = {}
  <2>1. PICK j \in DOMAIN messages : messages[j].kind = "calls"
                                     /\ t = {j} \cup ResultsAfter(messages, j)
    BY DEF ToolBatches
  <2> QED BY <1>2, <2>1 DEF KeepsWhole
<1> QED BY <1>1, <1>2 DEF KeepsBatches, KeepsWhole

\* A message added after the selection, and after a message that is not a
\* result, splits no batch of it.
LEMMA WholeGrows ==
  ASSUME NEW s \in Seq(Messages), NEW m \in Messages, NEW p \in 0..Len(s),
         NEW sel \in SUBSET (1..p), Append(s, m)[p + 1].kind # "result", KeepsWhole(s, sel)
  PROVE  KeepsWhole(Append(s, m), sel)
<1> DEFINE r == Append(s, m)
           n == Len(s)
<1>1. /\ n \in Nat /\ DOMAIN s = 1..n /\ DOMAIN r = 1..(n + 1)
      /\ \A k \in 1..n : r[k] = s[k]
  BY AppendFacts
<1> HIDE DEF r, n
<1>2. r[p + 1].kind # "result" /\ p \in 0..n
  BY Zenon DEF r, n
<1>3. ASSUME NEW j \in DOMAIN r, r[j].kind = "calls"
      PROVE  \/ j \in sel /\ ResultsAfter(r, j) \subseteq sel
             \/ j \notin sel /\ ResultsAfter(r, j) \cap sel = {}
  <2>1. j \in Nat /\ p \in Nat /\ \A k \in sel : k \in Nat /\ k <= p
    <3>1. j \in Nat /\ p \in Nat
      BY <1>1, <1>2
    <3> QED BY <3>1, IndicesAreNat
  <2>2. CASE j > p
    <3>1. \A k \in ResultsAfter(r, j) : k \in Nat /\ k > p
      BY <1>1, <2>1, <2>2 DEF ResultsAfter
    <3>2. \A k \in sel : k \notin ResultsAfter(r, j) /\ k # j
      BY <2>1, <2>2, <3>1
    <3> QED BY <3>2
  <2>3. CASE j <= p
    <3>1. j \in DOMAIN s /\ s[j].kind = "calls"
      BY <1>1, <1>2, <1>3, <2>1, <2>3
    <3>2. ASSUME NEW k \in ResultsAfter(r, j)
          PROVE  k \in ResultsAfter(s, j)
      <4>1. k \in 1..(n + 1) /\ k > j /\ \A i \in (j + 1)..k : r[i].kind = "result"
        BY <1>1 DEF ResultsAfter
      <4>2. k <= p
        <5>1. k > p => p + 1 \in (j + 1)..k
          BY <1>1, <2>1, <2>3, <4>1
        <5> QED BY <1>1, <1>2, <2>1, <4>1, <5>1
      <4>3. k \in 1..n /\ \A i \in (j + 1)..k : i \in 1..n
        BY <1>1, <1>2, <2>1, <4>1, <4>2
      <4> QED BY <1>1, <4>1, <4>3 DEF ResultsAfter
    <3>3. ASSUME NEW k \in ResultsAfter(s, j)
          PROVE  k \in ResultsAfter(r, j)
      <4>1. k \in 1..n /\ k > j /\ \A i \in (j + 1)..k : s[i].kind = "result"
        BY <1>1, <3>3 DEF ResultsAfter
      <4>2. k \in 1..(n + 1) /\ \A i \in (j + 1)..k : i \in 1..n
        BY <1>1, <2>1, <4>1
      <4> QED BY <1>1, <4>1, <4>2 DEF ResultsAfter
    <3>4. ResultsAfter(r, j) = ResultsAfter(s, j)
      BY <3>2, <3>3
    <3> QED BY <3>1, <3>4 DEF KeepsWhole
  <2> QED BY <2>1, <2>2, <2>3
<1> QED BY <1>3 DEF KeepsWhole, r

\* Every active block holds whole batches, and none of the open one, when the
\* calls of compress name only messages older than their batch.
LEMMA CoverStep ==
  ASSUME ~OpenRefs, HistoryTypeOK, BatchOK, HistoryInv, CoverInv, [HistoryNext]_historyVars
  PROVE  CoverInv'
<1>1. CASE blocks' = <<>>
  BY <1>1, NoActive DEF CoverInv
<1>2. CASE blocks' # <<>>
  <2>1. /\ messages \in Seq(Messages) /\ Len(messages) \in Nat
        /\ \A b \in Active : blocks[b].direct \in SUBSET (1..Len(messages))
    BY BlockFacts, MessagesHistory DEF IsHistory, Active
  \* What is covered after the step is whole already before it.
  <2>2. ASSUME NEW b \in Active'
        PROVE  /\ blocks'[b].direct \in SUBSET (1..Len(messages))
               /\ KeepsWhole(messages, blocks'[b].direct)
               /\ pc = "apply" /\ pc' = "apply" => blocks'[b].direct \subseteq 1..batch.seen
    <3>1. CASE blocks' = blocks
      BY <2>1, <3>1 DEF CoverInv, Active
    <3>2. CASE blocks' # blocks
      <4>1. PICK sel \in SUBSET (1..Len(messages)) : \E refs \in SUBSET Consumed(sel) :
              /\ Accepts(sel) /\ blocks' = Compressed(sel, refs)
              /\ \/ ApplyResult /\ sel \in Selections
                 \/ \E k \in BudgetTails : pc' # "apply" /\ sel = AutoSelection(k)
        BY <1>2, <3>2, MessagesChange
      <4>2. KeepsWhole(messages, sel)
        BY <4>1, BatchesKept DEF Accepts
      <4>3. pc' = "apply" => sel \subseteq 1..batch.seen
        <5>1. pc' = "apply" => sel \in Selections
          BY <4>1
        <5>2. sel \in Selections => sel \subseteq 1..batch.seen
          <6>1. batch.seen \in 0..MaxMessages
            BY HistoryTyping DEF Typed
          <6>2. Selections = IF AnySets THEN SUBSET (1..batch.seen)
                             ELSE {i..k : i \in 1..batch.seen, k \in 1..batch.seen}
            BY DEF Selections
          <6>3. \A i, k \in 1..batch.seen : i..k \subseteq 1..batch.seen
            BY <6>1
          <6> QED BY <6>2, <6>3
        <5> QED BY <5>1, <5>2
      <4>4. b \in DOMAIN blocks'
        BY DEF Active
      <4>5. \/ b \in Active /\ blocks'[b].direct = blocks[b].direct
            \/ blocks'[b].direct = sel
        <5>1. PICK refs \in SUBSET Consumed(sel) : blocks' = Compressed(sel, refs)
          BY <4>1
        <5> QED BY <4>4, <5>1, CompressedBlock
      <4> QED BY <2>1, <4>2, <4>3, <4>5 DEF CoverInv
    <3> QED BY <3>1, <3>2
  <2> DEFINE Whole == \A b \in Active' : KeepsWhole(messages', blocks'[b].direct)
             Old == pc' = "apply" => \A b \in Active' : blocks'[b].direct \subseteq 1..batch'.seen
  <2> SUFFICES Whole /\ Old
    BY DEF CoverInv
  <2>3. CASE messages' = messages /\ (pc' = "apply" => pc \in {"tools", "apply"} /\ batch' = batch)
    <3>1. pc = "tools" => batch.seen = Len(messages)
      BY DEF BatchOK
    <3> QED BY <2>2, <2>3, <3>1
  <2>4. CASE AddsPlain
    <3>1. PICK m \in Messages : m.kind # "result" /\ messages' = Append(messages, m)
      BY <2>4 DEF AddsPlain
    <3>2. Append(messages, m)[Len(messages) + 1].kind # "result" /\ Len(messages) \in 0..Len(messages)
      BY <2>1, <3>1, AppendFacts
    <3>3. Whole
      BY <2>1, <2>2, <3>1, <3>2, WholeGrows
    <3> QED BY <2>4, <3>3 DEF AddsPlain
  <2>5. CASE AddsCalls
    <3>1. PICK m \in Messages : m.kind # "result" /\ messages' = Append(messages, m)
      BY <2>5 DEF AddsCalls
    <3>2. Append(messages, m)[Len(messages) + 1].kind # "result" /\ Len(messages) \in 0..Len(messages)
      BY <2>1, <3>1, AppendFacts
    <3>3. Whole
      BY <2>1, <2>2, <3>1, <3>2, WholeGrows
    <3> QED BY <2>2, <2>5, <3>3 DEF AddsCalls
  <2>6. CASE AddsResult /\ ApplyResult
    <3>1. PICK m \in Messages : messages' = Append(messages, m)
      BY <2>6 DEF AddsResult
    <3>2. /\ batch.seen + 1 \in 1..Len(messages) /\ messages[batch.seen + 1].kind = "calls"
          /\ batch' = batch /\ pc = "apply" /\ pc' = "apply"
      BY <2>6 DEF AddsResult, ApplyResult
    <3>3. batch.seen \in 0..Len(messages)
      <4>1. batch.seen \in 0..MaxMessages
        BY HistoryTyping DEF Typed
      <4> QED BY <2>1, <3>2, <4>1
    <3>4. Append(messages, m)[batch.seen + 1].kind # "result"
      BY <2>1, <3>2, AppendFacts
    <3>5. \A b \in Active' : blocks'[b].direct \in SUBSET (1..batch.seen)
      BY <2>2, <3>2
    <3>6. Whole
      BY <2>1, <2>2, <3>1, <3>3, <3>4, <3>5, WholeGrows
    <3> QED BY <3>2, <3>5, <3>6
  <2> QED BY <1>2, <2>3, <2>4, <2>5, <2>6, MessagesChange
<1> QED BY <1>1, <1>2

-----------------------------------------------------------------------------
(* What the model is sent.                                                  *)

LEMMA RenderedPaired ==
  ASSUME HistoryTypeOK, HistoryInv, BlocksInv, CoverInv, pc = "sample"
  PROVE  Paired(Rendered)
<1> DEFINE n == Len(messages)
           K == {k \in DOMAIN messages : k \in Anchors \/ k \notin Covered}
           summary == [kind |-> "user", id |-> 0, calls |-> {}, of |-> 0, said |-> TRUE]
           u == [k \in K |-> IF k \in Anchors THEN summary ELSE messages[k]]
<1>1. n \in Nat /\ DOMAIN messages = 1..n /\ \A b \in Active : blocks[b].direct \in SUBSET (1..n)
  BY BlockFacts DEF Active
<1>2. Closed(messages, DOMAIN messages)
  BY DEF HistoryInv
<1>3. \A k : k \in Covered <=> \E b \in Active : k \in blocks[b].direct
  <2>1. \A b \in Active : Effective[b] = blocks[b].direct
    BY EffectiveIsDirect DEF Active
  <2> QED BY <2>1 DEF Covered
<1>4. Anchors \subseteq Covered
  <2>1. ASSUME NEW b \in Active
        PROVE  (CHOOSE k \in blocks[b].direct : \A i \in blocks[b].direct : k <= i) \in Covered
    <3>1. blocks[b].direct # {}
      BY DEF BlocksInv, Active
    <3>2. \E k \in blocks[b].direct : \A i \in blocks[b].direct : k <= i
      BY <1>1, <3>1, HasLeast
    <3>3. (CHOOSE k \in blocks[b].direct : \A i \in blocks[b].direct : k <= i) \in blocks[b].direct
      BY <3>2
    <3> QED BY <1>3, <3>3
  <2> QED BY <2>1 DEF Anchors
<1>5. K \in SUBSET (1..n)
  BY <1>1
<1>6. ASSUME NEW k \in 1..n, k \notin Covered
      PROVE  k \in K /\ u[k] = messages[k]
  BY <1>1, <1>4, <1>6
\* A batch is covered as a whole or not at all.
<1>7. ASSUME NEW j \in 1..n, NEW k \in 1..n, Follows(messages, DOMAIN messages, j, k)
      PROVE  \A i \in j..k : i \in 1..n /\ (i \in Covered <=> j \in Covered)
  <2>1. /\ j < k /\ messages[j].kind = "calls"
        /\ \A i \in (j + 1)..k : messages[i].kind = "result"
    BY <1>7 DEF Follows
  <2>2. ASSUME NEW i \in j..k
        PROVE  i \in 1..n /\ (i = j \/ i \in ResultsAfter(messages, j))
    <3>1. i \in 1..n
      <4> HIDE DEF n
      <4> QED BY <1>1
    <3>2. i # j => i > j /\ \A l \in (j + 1)..i : l \in (j + 1)..k
      <4> HIDE DEF n
      <4> QED BY <1>1, <2>1
    <3> QED BY <1>1, <2>1, <3>1, <3>2 DEF ResultsAfter
  <2>3. \A b \in Active : KeepsWhole(messages, blocks[b].direct)
    BY DEF CoverInv
  <2>4. \A b \in Active : \A i \in j..k : i \in blocks[b].direct <=> j \in blocks[b].direct
    BY <1>1, <2>1, <2>2, <2>3 DEF KeepsWhole
  <2> QED BY <1>3, <2>2, <2>4
<1>8. ASSUME NEW j \in 1..n, NEW k \in 1..n, Follows(messages, DOMAIN messages, j, k),
             j \notin Covered \/ k \notin Covered
      PROVE  /\ Follows(u, K, j, k)
             /\ \A i \in j..k : u[i] = messages[i]
  <2>1. /\ j < k /\ messages[j].kind = "calls"
        /\ \A i \in (j + 1)..k : messages[i].kind = "result"
    BY <1>8 DEF Follows
  <2>2. j \in j..k /\ k \in j..k /\ \A i \in (j + 1)..k : i \in j..k
    <3> HIDE DEF n
    <3> QED BY <1>1, <2>1
  <2>3. \A i \in j..k : i \in K /\ u[i] = messages[i]
    <3> HIDE DEF u, K
    <3> QED BY <1>6, <1>7, <1>8, <2>2
  <2> HIDE DEF u, K
  <2> QED BY <2>1, <2>2, <2>3 DEF Follows
<1>9. ASSUME NEW k \in K, k \notin Anchors
      PROVE  k \notin Covered /\ k \in 1..n /\ u[k] = messages[k]
  BY <1>1, <1>9
<1>10. ASSUME NEW k \in K, u[k].kind \in {"calls", "result"} PROVE k \notin Anchors
  BY <1>10
<1> HIDE DEF n, u, K
<1>11. ASSUME NEW k \in K, u[k].kind = "result"
       PROVE  \E j \in K : CallOf(u, K, j, k)
  <2>1. k \notin Covered /\ k \in 1..n /\ u[k] = messages[k]
    BY <1>9, <1>10, <1>11
  <2>2. PICK j \in 1..n : CallOf(messages, DOMAIN messages, j, k)
    BY <1>1, <1>2, <1>11, <2>1 DEF Closed, Owned
  <2>3. Follows(u, K, j, k) /\ \A i \in j..k : u[i] = messages[i]
    BY <1>8, <2>1, <2>2 DEF CallOf
  <2>4. j < k
    BY <2>3 DEF Follows
  <2>5. j \in j..k /\ k \in j..k /\ \A i \in (j + 1)..(k - 1) : i \in j..k
    BY <1>1, <2>1, <2>4
  <2>6. CallOf(u, K, j, k)
    BY <2>2, <2>3, <2>5 DEF CallOf, Answers
  <2> QED BY <2>3, <2>6 DEF Follows
<1>12. ASSUME NEW j \in K, u[j].kind = "calls"
       PROVE  WholeAt(u, K, j)
  <2>1. j \notin Covered /\ j \in 1..n /\ u[j] = messages[j]
    BY <1>9, <1>10, <1>12
  <2>2. ASSUME NEW c \in u[j].calls
        PROVE  \E k \in K : Follows(u, K, j, k) /\ Answers(u, j, k) /\ u[k].of = c
    <3>1. PICK k \in 1..n : /\ Follows(messages, DOMAIN messages, j, k)
                            /\ Answers(messages, j, k) /\ messages[k].of = c
      BY <1>1, <1>2, <1>12, <2>1, <2>2 DEF Closed, WholeAt
    <3>2. Follows(u, K, j, k) /\ \A i \in j..k : u[i] = messages[i]
      BY <1>8, <2>1, <3>1
    <3>3. j < k /\ k \in K
      BY <3>2 DEF Follows
    <3>4. k \in j..k
      BY <1>1, <2>1, <3>1, <3>3
    <3> QED BY <2>1, <3>1, <3>2, <3>3, <3>4 DEF Answers
  <2> QED BY <2>2 DEF WholeAt
<1>13. Closed(u, K)
  BY <1>11, <1>12 DEF Closed, Owned
<1>14. Rendered = [i \in DOMAIN Ordered(K) |-> u[Ordered(K)[i]]]
  <2>1. Rendered = [i \in DOMAIN Ordered(K) |->
                      IF Ordered(K)[i] \in Anchors THEN summary ELSE messages[Ordered(K)[i]]]
    BY DEF Rendered, K
  <2>2. \A i \in DOMAIN Ordered(K) : Ordered(K)[i] \in K
    <3>1. /\ DOMAIN Ordered(K) = 1..Cardinality(K)
          /\ \A i \in 1..Cardinality(K) : Ordered(K)[i] \in K
      BY <1>1, <1>5, OrderedFacts
    <3> QED BY <3>1
  <2>3. \A k \in K : u[k] = IF k \in Anchors THEN summary ELSE messages[k]
    BY DEF u
  <2> QED BY <2>1, <2>2, <2>3
<1>15. /\ DOMAIN Rendered = 1..Cardinality(K) /\ Cardinality(K) \in Nat
       /\ Closed(Rendered, DOMAIN Rendered)
  BY <1>1, <1>5, <1>13, <1>14, ClosedPicked, FiniteIndices
<1> QED BY <1>15, ClosedIsPaired

-----------------------------------------------------------------------------
(* auto_select.rs: the range automatic compaction selects.                  *)

LEMMA FirstLast ==
  ASSUME HistoryTypeOK, BlocksInv, NEW b \in Active
  PROVE  /\ First(b) \in blocks[b].direct /\ Last(b) \in blocks[b].direct
         /\ First(b) \in Int /\ Last(b) \in Int
         /\ \A k \in blocks[b].direct : k \in Int /\ First(b) <= k /\ k <= Last(b)
<1> DEFINE S == blocks[b].direct
<1>1. Len(messages) \in Nat /\ S \in SUBSET (1..Len(messages)) /\ S # {}
  BY BlockFacts DEF BlocksInv, Active
<1>2. \A k \in S : k \in Int
  BY <1>1, IndicesAreNat
<1>3. First(b) \in S /\ \A i \in S : First(b) <= i
  <2>1. \E k \in S : \A i \in S : k <= i
    <3> HIDE DEF S
    <3> QED BY <1>1, HasLeast
  <2> QED BY <2>1 DEF First
<1>4. Last(b) \in S /\ \A i \in S : Last(b) >= i
  <2>1. \E k \in S : \A i \in S : k >= i
    <3> HIDE DEF S
    <3> QED BY <1>1, HasLargest
  <2> QED BY <2>1 DEF Last
<1> HIDE DEF S
<1>5. \A k \in S : k <= Last(b)
  BY <1>2, <1>4
<1> QED BY <1>2, <1>3, <1>4, <1>5 DEF S

\* adjust_for_active_blocks leaves a range.
LEMMA AdjustedIsRange ==
  ASSUME HistoryTypeOK, BlocksInv, NEW first \in Int, NEW last \in Int,
         NEW i \in Adjusted(first, last), NEW k \in Adjusted(first, last), NEW l \in i..k
  PROVE  l \in Adjusted(first, last)
<1>1. i \in first..last /\ k \in first..last /\ l \in first..last
      /\ l \in Int /\ i \in Int /\ k \in Int /\ i <= l /\ l <= k
  BY DEF Adjusted
<1>2. ASSUME NEW b \in Active
      PROVE  /\ First(b) < first /\ Last(b) >= first => l > Last(b)
             /\ First(b) <= last /\ Last(b) > last => l < First(b)
  <2>1. First(b) \in Int /\ Last(b) \in Int
    BY FirstLast
  <2>2. /\ First(b) < first /\ Last(b) >= first => i > Last(b)
        /\ First(b) <= last /\ Last(b) > last => k < First(b)
    BY DEF Adjusted
  <2> QED BY <1>1, <2>1, <2>2
<1> QED BY <1>1, <1>2 DEF Adjusted

LEMMA PrefixFacts ==
  ASSUME HistoryTypeOK
  PROVE  /\ PrefixEnd \in Nat /\ PrefixEnd <= Len(messages)
         /\ \A i \in 1..PrefixEnd : messages[i].kind = "task"
<1> DEFINE n == Len(messages)
           D == {k \in DOMAIN messages : \A i \in 1..k : messages[i].kind = "task"}
           P == Cardinality(D)
<1>1. n \in Nat /\ DOMAIN messages = 1..n /\ PrefixEnd = P
  BY BlockFacts DEF PrefixEnd
<1>2. D \in SUBSET (1..n)
  BY <1>1
<1>3. ASSUME NEW k \in D, NEW i \in 1..k
      PROVE  i \in D /\ messages[i].kind = "task"
  <2>1. k \in 1..n /\ \A l \in 1..k : messages[l].kind = "task"
    BY <1>1
  <2>2. i \in 1..n /\ \A l \in 1..i : l \in 1..k
    <3> HIDE DEF n
    <3> QED BY <1>1, <2>1
  <2> QED BY <1>1, <2>1, <2>2
<1> HIDE DEF n, D
<1>4. P \in Nat /\ P <= n
  BY <1>1, <1>2, FiniteIndices
<1>5. ASSUME P # 0
      PROVE  P \in D
  <2>1. P \in 1..Cardinality(D)
    BY <1>4, <1>5
  <2>2. PICK k \in D : Rank(D, k) = P
    BY <1>1, <1>2, <2>1, RankIsOnto
  <2>3. k \in Int /\ 1 <= k
    BY <1>1, <1>2, IndicesAreNat
  <2>4. UpTo(D, k) = 1..k
    <3>1. ASSUME NEW i \in 1..k PROVE i \in UpTo(D, k)
      BY <1>3, <2>3 DEF UpTo
    <3>2. ASSUME NEW i \in UpTo(D, k) PROVE i \in 1..k
      <4>1. i \in D /\ i <= k
        BY <3>2 DEF UpTo
      <4>2. i \in Int /\ 1 <= i
        BY <1>1, <1>2, <4>1, IndicesAreNat
      <4> QED BY <2>3, <4>1, <4>2
    <3> QED BY <3>1, <3>2
  <2>5. Cardinality(1..k) = k
    <3>1. 1 \in Int /\ ~(1 > k)
      BY <2>3
    <3>2. Cardinality(1..k) = IF 1 > k THEN 0 ELSE k - 1 + 1
      BY <2>3, <3>1, FS_Interval
    <3> QED BY <2>3, <3>1, <3>2
  <2> QED BY <2>2, <2>4, <2>5 DEF Rank
<1>6. ASSUME NEW i \in 1..P
      PROVE  messages[i].kind = "task"
  <2>1. P # 0
    BY <1>4
  <2> QED BY <1>3, <1>5, <2>1
<1> QED BY <1>1, <1>4, <1>6 DEF n

\* Where the tail starts: where the budget ends it, or at a user turn before.
LEMMA TailStartFacts ==
  ASSUME HistoryTypeOK, NEW k \in 1..Len(messages)
  PROVE  /\ TailStart(k) \in Int
         /\ \/ TailStart(k) = k
            \/ TailStart(k) = PrefixEnd + 1
            \/ TailStart(k) \in 1..Len(messages) /\ messages[TailStart(k)].kind \in {"task", "user"}
<1> DEFINE n == Len(messages)
           T == TailStart(k)
           enough == {i \in (PrefixEnd + 1)..k : Cardinality(UserTurns(i)) >= MinUserTurns}
<1>1. n \in Nat /\ k \in 1..n /\ k \in Int
  BY BlockFacts
<1>2. PrefixEnd \in Nat
  BY PrefixFacts
<1> HIDE DEF n
<1>3. T = IF Cardinality(UserTurns(k)) >= MinUserTurns THEN k
          ELSE IF enough # {} THEN CHOOSE i \in enough : \A j \in enough : j <= i
          ELSE IF k > PrefixEnd THEN k ELSE PrefixEnd + 1
  BY DEF TailStart
<1> HIDE DEF T
<1>4. CASE ~(Cardinality(UserTurns(k)) >= MinUserTurns) /\ enough # {}
  <2>1. enough \in SUBSET (1..n)
    BY <1>1, <1>2
  <2>2. \E i \in enough : \A j \in enough : i >= j
    <3> HIDE DEF enough
    <3> QED BY <1>1, <1>4, <2>1, HasLargest
  <2>3. \A i, j \in enough : i >= j => j <= i
    BY <1>1, <1>2
  <2>4. \E i \in enough : \A j \in enough : j <= i
    <3> HIDE DEF enough
    <3> QED BY <2>2, <2>3
  <2>5. T \in enough /\ \A j \in enough : j <= T
    <3> HIDE DEF enough
    <3> QED BY <1>3, <1>4, <2>4
  <2>6. T \in (PrefixEnd + 1)..k /\ Cardinality(UserTurns(T)) >= MinUserTurns /\ T \in 1..n
    BY <2>1, <2>5
  <2>7. T # k
    BY <1>4, <2>6
  <2>8. T + 1 \in (PrefixEnd + 1)..k /\ ~(T + 1 <= T)
    BY <1>1, <1>2, <2>6, <2>7
  <2>9. ~(Cardinality(UserTurns(T + 1)) >= MinUserTurns)
    BY <2>5, <2>8
  <2>10. messages[T].kind \in {"task", "user"}
    <3>1. SUFFICES ASSUME messages[T].kind \notin {"task", "user"} PROVE FALSE
      OBVIOUS
    <3>2. \A i : i \in UserTurns(T) <=> i \in UserTurns(T + 1)
      <4>1. \A i \in T..n : i \in (T + 1)..n \/ i = T
        BY <1>1, <2>6
      <4>2. \A i \in (T + 1)..n : i \in T..n
        BY <1>1, <2>6
      <4> QED BY <3>1, <4>1, <4>2 DEF UserTurns, n
    <3>3. UserTurns(T) = UserTurns(T + 1)
      <4>1. UserTurns(T) = {i \in UserTurns(T) : TRUE} /\ UserTurns(T + 1) = {i \in UserTurns(T + 1) : TRUE}
        OBVIOUS
      <4> QED BY <3>2, <4>1
    <3> QED BY <2>6, <2>9, <3>3
  <2> QED BY <2>6, <2>10 DEF T, n
<1>5. CASE Cardinality(UserTurns(k)) >= MinUserTurns \/ enough = {}
  <2>1. T = k \/ T = PrefixEnd + 1
    BY <1>3, <1>5
  <2> QED BY <1>1, <1>2, <2>1 DEF T
<1> QED BY <1>4, <1>5

LEMMA AutoSelectionIsRange ==
  ASSUME HistoryTypeOK, BlocksInv, NEW k \in BudgetTails,
         NEW i \in AutoSelection(k), NEW l \in AutoSelection(k)
  PROVE  i..l \subseteq AutoSelection(k)
<1>1. k \in 1..Len(messages)
  BY BlockFacts DEF BudgetTails
<1>2. PrefixEnd + 1 \in Int /\ TailStart(k) - 1 \in Int
  BY <1>1, PrefixFacts, TailStartFacts
<1>3. AutoSelection(k) = Adjusted(PrefixEnd + 1, TailStart(k) - 1)
  BY DEF AutoSelection
<1> QED BY <1>2, <1>3, AdjustedIsRange

LEMMA RangeStep ==
  ASSUME ~AnySets, HistoryTypeOK, BatchOK, HistoryInv, BlocksInv, RangeInv,
         [HistoryNext]_historyVars
  PROVE  RangeInv'
<1>1. CASE blocks' = <<>>
  BY <1>1, NoActive DEF RangeInv
<1>2. CASE blocks' = blocks
  BY <1>2 DEF RangeInv, Active
<1>3. CASE blocks' # <<>> /\ blocks' # blocks
  <2>1. PICK sel \in SUBSET (1..Len(messages)) : \E refs \in SUBSET Consumed(sel) :
          /\ Accepts(sel) /\ blocks' = Compressed(sel, refs)
          /\ \/ ApplyResult /\ sel \in Selections
             \/ \E k \in BudgetTails : pc' # "apply" /\ sel = AutoSelection(k)
    BY <1>3, MessagesChange
  <2>2. PICK refs \in SUBSET Consumed(sel) : blocks' = Compressed(sel, refs)
    BY <2>1
  <2>3. \A i, k \in sel : i..k \subseteq sel
    <3>1. CASE sel \in Selections
      <4> DEFINE top == IF OpenRefs THEN Len(messages) ELSE batch.seen
      <4>1. top \in Nat
        <5>1. batch.seen \in 0..MaxMessages
          BY HistoryTyping DEF Typed
        <5> QED BY <5>1, BlockFacts
      <4>2. Selections = {a..b : a \in 1..top, b \in 1..top}
        BY DEF Selections
      <4> HIDE DEF top
      <4>3. PICK a \in 1..top, b \in 1..top : sel = a..b
        BY <3>1, <4>2
      <4> QED BY <4>1, <4>3
    <3>2. CASE \E k \in BudgetTails : sel = AutoSelection(k)
      BY <3>2, AutoSelectionIsRange
    <3> QED BY <2>1, <3>1, <3>2
  <2>4. ASSUME NEW b \in Active'
        PROVE  \A i, k \in blocks'[b].direct : i..k \subseteq blocks'[b].direct
    <3>1. b \in DOMAIN blocks'
      BY DEF Active
    <3>2. \/ b \in Active /\ blocks'[b].direct = blocks[b].direct
          \/ blocks'[b].direct = sel
      BY <2>2, <3>1, CompressedBlock
    <3> QED BY <2>3, <3>2 DEF RangeInv
  <2> QED BY <2>4 DEF RangeInv
<1> QED BY <1>1, <1>2, <1>3

LEMMA AutoAccepted ==
  ASSUME HistoryTypeOK, BlocksInv, CoverInv, RangeInv, DisjointInv,
         NEW k \in BudgetTails, AutoSelection(k) # {}
  PROVE  Accepts(AutoSelection(k))
<1> DEFINE first == PrefixEnd + 1
           T == TailStart(k)
           last == T - 1
           sel == AutoSelection(k)
           n == Len(messages)
<1>1. n \in Nat /\ DOMAIN messages = 1..n /\ k \in 1..n
  BY BlockFacts DEF BudgetTails
<1>2. PrefixEnd \in Nat /\ \A i \in 1..PrefixEnd : messages[i].kind = "task"
  BY PrefixFacts
<1>3. T \in Int /\ ~(first >= T) /\ sel = Adjusted(first, last)
  BY <1>1, TailStartFacts DEF AutoSelection
<1>4. T \in 1..n /\ (T = k \/ messages[T].kind \in {"task", "user"})
  <2>1. T # first
    BY <1>2, <1>3
  <2> QED BY <1>1, <2>1, TailStartFacts
<1>5. first \in Int /\ last \in Int /\ 1 <= first /\ last < T /\ last <= n
  BY <1>1, <1>2, <1>4
<1>6. sel # {}
  OBVIOUS
<1> HIDE DEF first, T, last, sel, n
<1>7. \A i \in sel : i \in first..last
  BY <1>3 DEF Adjusted
<1>8. sel \subseteq 1..n
  BY <1>1, <1>5, <1>7
<1>9. \A b \in Active : /\ First(b) \in blocks[b].direct /\ Last(b) \in blocks[b].direct
                        /\ First(b) \in Int /\ Last(b) \in Int
                        /\ \A i \in blocks[b].direct : i \in Int /\ First(b) <= i /\ i <= Last(b)
                        /\ First(b)..Last(b) \subseteq blocks[b].direct
  BY FirstLast DEF RangeInv
\* Whatever the adjustment leaves out lies in an active block that reaches out
\* of the range, and nothing of that block is selected.
<1>10. ASSUME NEW x \in first..last, x \notin sel
       PROVE  \E b \in Active : /\ x \in blocks[b].direct /\ blocks[b].direct \cap sel = {}
                                /\ First(b) < first \/ Last(b) > last
  <2>1. PICK b \in Active :
          ~ /\ First(b) < first /\ Last(b) >= first => x > Last(b)
            /\ First(b) <= last /\ Last(b) > last => x < First(b)
    BY <1>3, <1>10 DEF Adjusted
  <2>2. x \in Int /\ first <= x /\ x <= last /\ First(b) \in Int /\ Last(b) \in Int
    BY <1>5, <1>9
  <2>3. CASE First(b) < first /\ Last(b) >= first /\ ~(x > Last(b))
    <3>1. x \in First(b)..Last(b)
      BY <1>5, <2>2, <2>3
    <3>2. ASSUME NEW y \in blocks[b].direct, y \in sel PROVE FALSE
      <4>1. y > Last(b)
        BY <1>3, <2>3, <3>2 DEF Adjusted
      <4>2. y \in Int /\ y <= Last(b)
        BY <1>9
      <4> QED BY <2>2, <4>1, <4>2
    <3> QED BY <1>9, <2>3, <3>1, <3>2
  <2>4. CASE First(b) <= last /\ Last(b) > last /\ ~(x < First(b))
    <3>1. x \in First(b)..Last(b)
      BY <1>5, <2>2, <2>4
    <3>2. ASSUME NEW y \in blocks[b].direct, y \in sel PROVE FALSE
      <4>1. y < First(b)
        BY <1>3, <2>4, <3>2 DEF Adjusted
      <4>2. y \in Int /\ First(b) <= y
        BY <1>9
      <4> QED BY <2>2, <4>1, <4>2
    <3> QED BY <1>9, <2>4, <3>1, <3>2
  <2> QED BY <2>1, <2>3, <2>4
\* Neither end of the range lies inside a batch.
<1>11. ASSUME NEW j \in 1..n, messages[j].kind = "calls", NEW i \in ResultsAfter(messages, j)
       PROVE  j \in first..last <=> i \in first..last
  <2>1. i \in 1..n /\ i > j /\ \A l \in (j + 1)..i : messages[l].kind = "result"
    BY <1>1 DEF ResultsAfter
  <2>2. first <= j
    <3>1. ~(j \in 1..PrefixEnd)
      BY <1>2, <1>11
    <3> QED BY <1>1, <1>2, <3>1 DEF first
  <2>3. ASSUME j < T, T <= i PROVE FALSE
    <3>1. T \in (j + 1)..i
      BY <1>1, <1>4, <2>1, <2>3
    <3>2. messages[T].kind = "result"
      BY <2>1, <3>1
    <3>3. T = k
      BY <1>4, <3>2
    <3>4. T \in ResultsAfter(messages, j)
      <4>1. \A l \in (j + 1)..T : l \in (j + 1)..i
        BY <2>1, <3>1
      <4> QED BY <1>1, <1>4, <2>1, <2>3, <4>1 DEF ResultsAfter
    <3>5. {j} \cup ResultsAfter(messages, j) \in ToolBatches
      BY <1>1, <1>11 DEF ToolBatches
    <3>6. k <= j
      BY <3>3, <3>4, <3>5 DEF BudgetTails
    <3> QED BY <1>1, <2>3, <3>3, <3>6
  <2>4. last = T - 1
    BY DEF last
  <2> QED BY <1>1, <1>4, <1>5, <2>1, <2>2, <2>3, <2>4
<1>12. KeepsWhole(messages, sel)
  <2>1. ASSUME NEW j \in 1..n, messages[j].kind = "calls", NEW i \in ResultsAfter(messages, j)
        PROVE  j \in sel <=> i \in sel
    <3>1. j \in first..last <=> i \in first..last
      BY <1>11, <2>1
    <3>2. \A b \in Active : j \in blocks[b].direct <=> i \in blocks[b].direct
      BY <1>1, <2>1 DEF CoverInv, KeepsWhole
    <3>3. j \in sel => i \in sel
      BY <1>7, <1>10, <3>1, <3>2
    <3>4. i \in sel => j \in sel
      BY <1>7, <1>10, <3>1, <3>2
    <3> QED BY <3>3, <3>4
  <2> QED BY <1>1, <2>1 DEF KeepsWhole
<1>13. ASSUME NEW b \in Active \ Consumed(sel)
       PROVE  Effective[b] \cap sel = {}
  <2>1. Effective[b] = blocks[b].direct
    BY EffectiveIsDirect DEF Active
  <2>2. ASSUME NEW x \in blocks[b].direct, x \in sel PROVE FALSE
    <3>1. x \in first..last /\ x \in Int /\ First(b) <= x /\ x <= Last(b)
      BY <1>7, <1>9, <2>2
    <3>2. /\ First(b) < first /\ Last(b) >= first => x > Last(b)
          /\ First(b) <= last /\ Last(b) > last => x < First(b)
      BY <1>3, <2>2 DEF Adjusted
    <3>3. First(b) \in Int /\ Last(b) \in Int
      BY <1>9
    <3>4. first <= First(b) /\ Last(b) <= last
      BY <1>5, <3>1, <3>2, <3>3
    <3>5. PICK y \in blocks[b].direct : y \notin sel
      BY DEF Consumed
    <3>6. y \in first..last
      <4>1. y \in Int /\ First(b) <= y /\ y <= Last(b)
        BY <1>9
      <4> QED BY <1>5, <3>3, <3>4, <4>1
    <3>7. PICK c \in Active : y \in blocks[c].direct /\ (First(c) < first \/ Last(c) > last)
      BY <1>10, <3>5, <3>6
    <3>8. c = b
      BY <3>5, <3>7 DEF DisjointInv
    <3> QED BY <1>5, <3>3, <3>4, <3>7, <3>8
  <2> QED BY <2>1, <2>2
<1> QED BY <1>1, <1>6, <1>8, <1>12, <1>13, BatchesKept DEF Accepts, NoOverlap, sel

-----------------------------------------------------------------------------
(* The theorems of the conversation.                                        *)

LEMMA HistoryStarts ==
  ASSUME HistoryInit
  PROVE  BlocksInv /\ CoverInv /\ RangeInv /\ DisjointInv
BY DEF HistoryInit, BlocksInv, CoverInv, RangeInv, DisjointInv, Active

\* The history is sound at every step of a batch, and closed whenever the model
\* is asked, however batches are cut short: a repair never leaves a call without
\* its result (recovery.rs, apply_buffered_runtime_history).
THEOREM HistorySound == HistorySpec => []HistoryInv
<1>1. HistoryInit => HistoryTypeOK /\ BatchOK /\ HistoryInv
  BY TypingInit, HistoryTyping, HistoryInitInv
<1>2. Typed' => HistoryTypeOK'
  BY HistoryTyping, PTL
<1>3. HistoryTypeOK /\ BatchOK /\ HistoryInv /\ [HistoryNext]_historyVars
        => HistoryTypeOK' /\ BatchOK' /\ HistoryInv'
  BY <1>2, TypingStep, HistoryStep
<1> QED BY <1>1, <1>3, PTL DEF HistorySpec

LEMMA HistoryInvariants ==
  HistorySpec => [](HistoryTypeOK /\ BatchOK /\ HistoryInv /\ BlocksInv /\ DisjointInv)
<1>1. HistoryInit => HistoryTypeOK /\ BatchOK /\ HistoryInv /\ BlocksInv /\ DisjointInv
  BY TypingInit, HistoryTyping, HistoryInitInv, HistoryStarts
<1>2. Typed' => HistoryTypeOK'
  BY HistoryTyping, PTL
<1>3. HistoryTypeOK /\ BatchOK /\ HistoryInv /\ BlocksInv /\ DisjointInv /\ [HistoryNext]_historyVars
        => HistoryTypeOK' /\ BatchOK' /\ HistoryInv' /\ BlocksInv' /\ DisjointInv'
  BY <1>2, TypingStep, HistoryStep, BlocksStep, DisjointStep
<1> QED BY <1>1, <1>3, PTL DEF HistorySpec

\* Compaction forgets nothing: whatever a block covers, the summary of an active
\* block tells, through any nesting and every repair (render_block_summary,
\* apply_compression_at, repair_history_after_mutation).
THEOREM NothingIsForgotten == HistorySpec => []NothingForgotten
<1>1. HistoryTypeOK /\ BlocksInv => NothingForgotten
  BY ToldIsNothingForgotten
<1> QED BY <1>1, HistoryInvariants, PTL

\* No raw message lies in two active blocks, whatever compress names
\* (find_consumed_blocks, validate_non_overlap).
THEOREM ActiveBlocksApart == HistorySpec => []DisjointInv
BY HistoryInvariants, PTL

LEMMA HistoryCover == ASSUME ~OpenRefs PROVE HistorySpec => []CoverInv
<1>1. HistoryInit => CoverInv
  BY HistoryStarts
<1>2. HistoryTypeOK /\ BatchOK /\ HistoryInv /\ CoverInv /\ [HistoryNext]_historyVars => CoverInv'
  BY CoverStep
<1> QED BY <1>1, <1>2, HistoryInvariants, PTL DEF HistorySpec

\* The history a provider is sent pairs every tool call with its result, when a
\* compress call names only messages older than its batch (rendered_messages
\* before call_llm_with_tools).
THEOREM RequestsArePaired == ASSUME ~OpenRefs PROVE HistorySpec => []RequestPaired
<1>1. HistoryTypeOK /\ HistoryInv /\ BlocksInv /\ CoverInv => RequestPaired
  BY RenderedPaired DEF RequestPaired
<1> QED BY <1>1, HistoryInvariants, HistoryCover, PTL

\* The engine accepts the range automatic compaction selects, for every budget,
\* when compress names ranges (select_automatic_compression_range,
\* adjust_for_active_blocks, validate_non_overlap).
THEOREM AutoSelectionsAccepted ==
  ASSUME ~OpenRefs, ~AnySets PROVE HistorySpec => []AutoSelectionAccepted
<1>1. HistoryInit => RangeInv
  BY HistoryStarts
<1>2. HistoryTypeOK /\ BatchOK /\ HistoryInv /\ BlocksInv /\ RangeInv /\ [HistoryNext]_historyVars
        => RangeInv'
  BY RangeStep
<1>3. HistoryTypeOK /\ BlocksInv /\ CoverInv /\ RangeInv /\ DisjointInv => AutoSelectionAccepted
  BY AutoAccepted DEF AutoSelectionAccepted
<1> QED BY <1>1, <1>2, <1>3, HistoryInvariants, HistoryCover, PTL DEF HistorySpec
=============================================================================
