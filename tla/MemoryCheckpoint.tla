-------------------------- MODULE MemoryCheckpoint --------------------------
(***************************************************************************)
(* Checkpoints of an agent session's memory (core/src/agent/session.rs).    *)
(* The session's owner edits the memory, asks for background checkpoints    *)
(* (spawned tasks that register a snapshot for a debounced loop), flushes   *)
(* it (the forced checkpoint) and resets it.  Loops and flushes write       *)
(* through one persist lock; MemoryCheckpointState, behind a lock of its    *)
(* own, numbers the snapshots and remembers the last one persisted.         *)
(*                                                                          *)
(* A snapshot is the number of the edit that made it.  Only a reset brings  *)
(* an earlier content back, so the hash of a blank version is 0 and that of *)
(* any other one the version itself.  Every critical section of the state   *)
(* lock is one step; a write and the bookkeeping after it are two.          *)
(***************************************************************************)
EXTENDS Integers

CONSTANTS
    Loops,        \* run_background_checkpoint_loop tasks
    Owner,        \* the task that holds the session
    MaxVersion,   \* bound: edits and resets
    MaxRequests,  \* bound: background checkpoints
    MaxGen,       \* bound: snapshots registered between two state resets
    MaxFaults,    \* bound: writes that report an error
    InOrder,      \* a spawned request registers before the next one is made
    QuietResets   \* a reset finds no checkpoint on its way to the storage

ASSUME WritersAssumption == Owner \notin Loops
ASSUME BoundsAssumption ==
    /\ MaxVersion \in Nat /\ MaxRequests \in Nat
    /\ MaxGen \in Nat /\ MaxFaults \in Nat
ASSUME SwitchAssumption == InOrder \in BOOLEAN /\ QuietResets \in BOOLEAN

VARIABLES
    version,   \* the session's memory
    blank,     \* versions whose memory is empty
    asked,     \* background checkpoints asked for so far
    requests,  \* spawned requests that have not registered yet
    lastHash,  \* last_persisted_hash (NoHash: None)
    lastGen,   \* last_persisted_generation
    nextGen,   \* next_generation
    pending,   \* the queued snapshot (Nothing: None)
    active,    \* background_task_active
    phase,     \* where each loop and the owner's flush is
    item,      \* the snapshot it carries
    durable,   \* the snapshot in the storage
    wanted,    \* history: the newest snapshot a checkpoint was asked for
    faults,    \* failed writes so far
    unsure     \* history: a write that reported an error was applied

stateVars == <<lastHash, lastGen, nextGen, pending, active>>
storageVars == <<durable, faults, unsure>>
vars == <<version, blank, asked, requests, stateVars, phase, item,
          storageVars, wanted>>

Writers == Loops \cup {Owner}
Versions == 0..MaxVersion
NoHash == -1
Snapshots == [version : Versions, gen : 0..MaxGen]
Nothing == [version |-> 0, gen |-> 0]

TypeOK ==
    /\ version \in Versions
    /\ blank \subseteq Versions
    /\ asked \in 0..MaxRequests
    /\ requests \subseteq [number : 1..MaxRequests, version : Versions]
    /\ lastHash \in Versions \cup {NoHash}
    /\ lastGen \in 0..MaxGen
    /\ nextGen \in 0..MaxGen
    /\ pending \in Snapshots
    /\ active \in BOOLEAN
    /\ phase \in [Writers -> {"off", "sleeping", "queued", "writing", "written", "ok"}]
    /\ item \in [Writers -> Snapshots]
    /\ durable \in Versions
    /\ wanted \in Versions
    /\ faults \in 0..MaxFaults
    /\ unsure \in BOOLEAN

Init ==
    /\ version = 0
    /\ blank = {0}
    /\ asked = 0
    /\ requests = {}
    /\ lastHash = NoHash
    /\ lastGen = 0
    /\ nextGen = 0
    /\ pending = Nothing
    /\ active = FALSE
    /\ phase = [w \in Writers |-> "off"]
    /\ item = [w \in Writers |-> Nothing]
    /\ durable = 0
    /\ wanted = 0
    /\ faults = 0
    /\ unsure = FALSE

\* memory_checkpoint_hash
Hash(v) == IF v \in blank THEN 0 ELSE v

\* Mutant: writes are not serialized.
NoPersistLock == TRUE

\* checkpoint_persist_lock is held from the check to the bookkeeping.
LockFree == \A w \in Writers : phase[w] \notin {"writing", "written"}

\* The session is borrowed while a flush runs.
OwnerFree == phase[Owner] \in {"off", "ok"}

\* No checkpoint is between its request and the storage.
Quiet ==
    /\ requests = {}
    /\ pending = Nothing
    /\ \A l \in Loops : phase[l] \in {"off", "sleeping"}
    /\ OwnerFree

NextVersion == version + 1

-----------------------------------------------------------------------------
(* The owner of the session.                                                *)

\* The agent changes its memory.
Edit ==
    /\ OwnerFree
    /\ version < MaxVersion
    /\ version' = NextVersion
    /\ phase' = [phase EXCEPT ![Owner] = "off"]
    /\ UNCHANGED <<blank, asked, requests, stateVars, item, storageVars, wanted>>

\* MemoryCheckpointState::default()
ForgetState ==
    /\ lastHash' = NoHash
    /\ lastGen' = 0
    /\ nextGen' = 0
    /\ pending' = Nothing
    /\ active' = FALSE

\* Another task can hold the state lock for a moment only while one is alive.
StateContended == requests # {} \/ \E l \in Loops : phase[l] # "off"

\* AgentSession::reset.  Its try_lock gives up when the state is locked.
Reset ==
    /\ OwnerFree
    /\ QuietResets => Quiet
    /\ version < MaxVersion
    /\ version' = NextVersion
    /\ blank' = blank \cup {NextVersion}
    /\ phase' = [phase EXCEPT ![Owner] = "off"]
    /\ \/ ForgetState
       \/ StateContended /\ UNCHANGED stateVars
    /\ UNCHANGED <<asked, requests, item, storageVars, wanted>>

\* persist_memory_checkpoint_background clones the memory and spawns a task.
Request ==
    /\ OwnerFree
    /\ InOrder => requests = {}
    /\ asked < MaxRequests
    /\ asked' = asked + 1
    /\ requests' = requests \cup {[number |-> asked + 1, version |-> version]}
    /\ wanted' = version
    /\ UNCHANGED <<version, blank, stateVars, phase, item, storageVars>>

\* prepare_forced_memory_checkpoint
Flush ==
    /\ OwnerFree
    /\ InOrder => requests = {}
    /\ wanted' = version
    /\ pending' = Nothing
    /\ \/ /\ lastHash = Hash(version)
          /\ phase' = [phase EXCEPT ![Owner] = "ok"]
          /\ UNCHANGED <<nextGen, item>>
       \/ /\ lastHash # Hash(version)
          /\ nextGen < MaxGen
          /\ nextGen' = nextGen + 1
          /\ item' = [item EXCEPT ![Owner] =
                         [version |-> version, gen |-> nextGen + 1]]
          /\ phase' = [phase EXCEPT ![Owner] = "queued"]
    /\ UNCHANGED <<version, blank, asked, requests, lastHash, lastGen, active,
                   storageVars>>

-----------------------------------------------------------------------------
(* The spawned requests and the loops.                                      *)

\* The snapshot is the last one persisted: nothing is left to write.
RegisterPersisted(q) ==
    /\ q \in requests
    /\ lastHash = Hash(q.version)
    /\ pending' = Nothing
    /\ requests' = requests \ {q}
    /\ UNCHANGED <<version, blank, asked, lastHash, lastGen, nextGen, active,
                   phase, item, storageVars, wanted>>

\* Mutant: any pending snapshot makes the new one superfluous.
RegisterAnyPending(q) ==
    /\ q \in requests
    /\ lastHash # Hash(q.version)
    /\ pending # Nothing
    /\ requests' = requests \ {q}
    /\ UNCHANGED <<version, blank, asked, stateVars, phase, item, storageVars,
                   wanted>>

\* The snapshot is pending already.
RegisterPending(q) ==
    /\ q \in requests
    /\ lastHash # Hash(q.version)
    /\ pending # Nothing
    /\ Hash(pending.version) = Hash(q.version)
    /\ requests' = requests \ {q}
    /\ UNCHANGED <<version, blank, asked, stateVars, phase, item, storageVars,
                   wanted>>

\* A loop that is running will find the snapshot; otherwise one is spawned.
Register(q) ==
    /\ q \in requests
    /\ lastHash # Hash(q.version)
    /\ pending = Nothing \/ Hash(pending.version) # Hash(q.version)
    /\ nextGen < MaxGen
    /\ nextGen' = nextGen + 1
    /\ pending' = [version |-> q.version, gen |-> nextGen + 1]
    /\ requests' = requests \ {q}
    /\ active' = TRUE
    /\ \/ active /\ UNCHANGED phase
       \/ /\ ~active
          /\ \E l \in Loops : /\ phase[l] = "off"
                              /\ phase' = [phase EXCEPT ![l] = "sleeping"]
    /\ UNCHANGED <<version, blank, asked, lastHash, lastGen, item, storageVars,
                   wanted>>

\* After the debounce the loop takes the pending snapshot ...
TakePending(l) ==
    /\ phase[l] = "sleeping"
    /\ pending # Nothing
    /\ item' = [item EXCEPT ![l] = pending]
    /\ pending' = Nothing
    /\ phase' = [phase EXCEPT ![l] = "queued"]
    /\ UNCHANGED <<version, blank, asked, requests, lastHash, lastGen, nextGen,
                   active, storageVars, wanted>>

\* Mutant: the loop ends without clearing the flag.
LoopEndsFlagged(l) ==
    /\ phase[l] = "sleeping"
    /\ pending = Nothing
    /\ phase' = [phase EXCEPT ![l] = "off"]
    /\ UNCHANGED <<version, blank, asked, requests, stateVars, item,
                   storageVars, wanted>>

\* ... or ends, clearing the flag under the same lock.
LoopEnds(l) ==
    /\ phase[l] = "sleeping"
    /\ pending = Nothing
    /\ active' = FALSE
    /\ phase' = [phase EXCEPT ![l] = "off"]
    /\ UNCHANGED <<version, blank, asked, requests, lastHash, lastGen, nextGen,
                   pending, item, storageVars, wanted>>

-----------------------------------------------------------------------------
(* persist_queued_memory_checkpoint; the owner's flush is the forced one.   *)

\* Where a writer goes when it returns.
After(w, result) == IF w = Owner THEN result ELSE "sleeping"

\* Mutant: generations are not compared with the last persisted one.
StaleByHash(w) ==
    \/ lastHash = Hash(item[w].version)
    \/ w # Owner /\ pending.gen > item[w].gen

Stale(w) ==
    \/ lastHash = Hash(item[w].version)
    \/ item[w].gen <= lastGen
    \/ w # Owner /\ pending.gen > item[w].gen

Skip(w) ==
    /\ phase[w] = "queued"
    /\ LockFree
    /\ Stale(w)
    /\ phase' = [phase EXCEPT ![w] = After(w, "ok")]
    /\ UNCHANGED <<version, blank, asked, requests, stateVars, item,
                   storageVars, wanted>>

Write(w) ==
    /\ phase[w] = "queued"
    /\ LockFree
    /\ ~Stale(w)
    /\ phase' = [phase EXCEPT ![w] = "writing"]
    /\ UNCHANGED <<version, blank, asked, requests, stateVars, item,
                   storageVars, wanted>>

Written(w) ==
    /\ phase[w] = "writing"
    /\ durable' = item[w].version
    /\ phase' = [phase EXCEPT ![w] = "written"]
    /\ UNCHANGED <<version, blank, asked, requests, stateVars, item, faults,
                   unsure, wanted>>

\* The storage reports an error, whether it applied the write or not.
WriteFails(w) ==
    /\ phase[w] = "writing"
    /\ faults < MaxFaults
    /\ faults' = faults + 1
    /\ \/ UNCHANGED <<durable, unsure>>
       \/ durable' = item[w].version /\ unsure' = TRUE
    /\ phase' = [phase EXCEPT ![w] = After(w, "off")]
    /\ UNCHANGED <<version, blank, asked, requests, stateVars, item, wanted>>

Record(w) ==
    /\ phase[w] = "written"
    /\ IF item[w].gen > lastGen
       THEN /\ lastGen' = item[w].gen
            /\ lastHash' = Hash(item[w].version)
       ELSE UNCHANGED <<lastGen, lastHash>>
    /\ phase' = [phase EXCEPT ![w] = After(w, "ok")]
    /\ UNCHANGED <<version, blank, asked, requests, nextGen, pending, active,
                   item, storageVars, wanted>>

-----------------------------------------------------------------------------
RegisterStep(q) == RegisterPersisted(q) \/ RegisterPending(q) \/ Register(q)
LoopStep(l) == TakePending(l) \/ LoopEnds(l)
PersistStep(w) == Skip(w) \/ Write(w) \/ Written(w) \/ WriteFails(w) \/ Record(w)

Next ==
    \/ Edit
    \/ Reset
    \/ Request
    \/ Flush
    \/ \E q \in requests : RegisterStep(q)
    \/ \E l \in Loops : LoopStep(l)
    \/ \E w \in Writers : PersistStep(w)

Spec == Init /\ [][Next]_vars

\* The runtime runs every spawned task and hands out the locks in turn; the
\* owner is a user of the session and promises nothing.
Fairness ==
    /\ WF_vars(\E q \in requests : RegisterStep(q))
    /\ \A l \in Loops : WF_vars(LoopStep(l))
    /\ \A w \in Writers : WF_vars(PersistStep(w))
FairSpec == Spec /\ Fairness

-----------------------------------------------------------------------------
(* Properties.                                                              *)

\* No snapshot is ever replaced in the storage by an older one, however loops
\* and flushes race (checkpoint_persist_lock: "so stale background tasks
\* cannot win"), as long as no write is applied that reports an error.
StaleNeverWins == [][durable' >= durable \/ unsure]_vars

\* After a flush returned Ok the storage holds the session's memory until it
\* changes again: no late loop overwrites it and no skip was wrong
\* (persist_memory_checkpoint, "flush agent memory to durable storage").
FlushedIsDurable ==
    phase[Owner] = "ok" /\ ~unsure => Hash(durable) = Hash(version)

\* When nothing is on its way and no write failed, the storage holds the newest
\* snapshot that was asked for: coalescing, dedupe and skips lose none
\* (persist_memory_checkpoint_background).
NewestIsDurable == Quiet /\ faults = 0 => Hash(durable) = Hash(wanted)

\* A registered snapshot is always picked up by a loop or replaced: the flag
\* never says that a loop runs when none will look again
\* (background_task_active, run_background_checkpoint_loop).
PendingIsTaken == pending # Nothing ~> pending = Nothing
=============================================================================
