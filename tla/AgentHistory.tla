---------------------------- MODULE AgentHistory ----------------------------
(***************************************************************************)
(* The conversation an agent run works on: AgentMemory's raw messages, the   *)
(* tool batches the run appends to them (agent/runner/tools.rs, agent/       *)
(* tool_runtime), the history repair after every mutation (agent/            *)
(* recovery.rs), and the compaction overlay of blocks over raw indices       *)
(* (agent/compaction) through which the model sees them.                     *)
(*                                                                          *)
(* A message is its kind and an identity; a tool result has the identity of  *)
(* its batch and the number of its call.  Texts, token counts and tool names *)
(* are left out: what fits the budget is any choice of the recent tail.      *)
(***************************************************************************)
EXTENDS Integers, Sequences, FiniteSets

CONSTANTS
    MaxMessages,   \* bound: raw messages
    MaxIds,        \* bound: messages and batches ever created
    MaxCalls,      \* bound: tool calls of one batch
    MinUserTurns,  \* MIN_RECENT_USER_TURNS
    OpenRefs,      \* whether a compress call may name messages younger than it
    AnySets        \* whether it may name scattered messages, not only ranges

ASSUME HistoryBounds ==
    {MaxMessages, MaxIds, MaxCalls, MinUserTurns} \subseteq Nat
ASSUME HistoryRefs == {OpenRefs, AnySets} \subseteq BOOLEAN

VARIABLES
    messages,  \* AgentMemory::messages
    blocks,    \* AgentMemory::compaction_state, block bN at N
    pc,        \* "idle": no run; "sample": before an LLM call; "tools"; "apply"
    batch,     \* the tool calls being executed
    events,    \* BufferedRuntimeHistory's events not yet in memory
    next       \* next fresh identity

historyVars == <<messages, blocks, pc, batch, events, next>>

Kinds == {"task", "user", "text", "calls", "result"}
Messages == [kind : Kinds, id : 1..MaxIds, calls : SUBSET (1..MaxCalls),
             of : 0..MaxCalls, said : BOOLEAN]
Blocks == [active : BOOLEAN, direct : SUBSET (1..MaxMessages), consumed : SUBSET Nat,
           refs : SUBSET Nat, text : SUBSET ((1..MaxIds) \X (0..MaxCalls))]
NoBatch == [id |-> 0, calls |-> {}, said |-> FALSE, dup |-> FALSE,
            compress |-> 0, seen |-> 0]

HistoryTypeOK ==
    /\ messages \in Seq(Messages) /\ Len(messages) <= MaxMessages
    /\ \A k \in DOMAIN messages : (messages[k].kind = "calls") = (messages[k].calls # {})
    /\ blocks \in Seq(Blocks)
    /\ \A b \in DOMAIN blocks :
         /\ blocks[b].direct \subseteq DOMAIN messages
         /\ blocks[b].refs \subseteq blocks[b].consumed /\ blocks[b].consumed \subseteq 1..(b - 1)
    /\ pc \in {"idle", "sample", "tools", "apply"}
    /\ batch \in [id : 0..MaxIds, calls : SUBSET (1..MaxCalls), said : BOOLEAN,
                  dup : BOOLEAN, compress : 0..MaxCalls, seen : 0..MaxMessages]
    /\ events \in Seq(0..MaxCalls) /\ Len(events) <= MaxCalls + 1
    /\ next \in 1..(MaxIds + 1)

HistoryInit ==
    /\ messages = <<>> /\ blocks = <<>>
    /\ pc = "idle" /\ batch = NoBatch /\ events = <<>>
    /\ next = 1

\* The members of a set of indices, in order.
Ordered(S) ==
    [i \in 1..Cardinality(S) |-> CHOOSE k \in S : Cardinality({j \in S : j <= k}) = i]

Message(k) == [kind |-> k, id |-> next, calls |-> {}, of |-> 0, said |-> TRUE]
Identity(m) == <<m.id, m.of>>

-----------------------------------------------------------------------------
(* recovery.rs: repair_agent_message_history_with_policy.                    *)

\* Indices of the results that directly follow index j.
ResultsAfter(s, j) ==
    {k \in DOMAIN s : k > j /\ \A i \in (j + 1)..k : s[i].kind = "result"}
Terminal(s, j) == j + Cardinality(ResultsAfter(s, j)) = Len(s)
Answers(s, j, k) == s[k].id = s[j].id /\ s[k].of \in s[j].calls
Answered(s, j) ==
    {c \in s[j].calls : \E k \in ResultsAfter(s, j) : Answers(s, j, k) /\ s[k].of = c}

\* filter_tool_calls_by_results, unless the batch is the open one at the end.
KeptCallsAll(s, j, keepOpen) == s[j].calls  \* mutant: incomplete batches stay
KeptCalls(s, j, keepOpen) ==
    IF keepOpen /\ Terminal(s, j) THEN s[j].calls ELSE Answered(s, j)

\* process_tool_results, build_repaired_batch: what is dropped, and what is
\* left of the rest.
Drops(s, k, keepOpen) ==
    \/ s[k].kind = "calls" /\ KeptCalls(s, k, keepOpen) = {} /\ ~s[k].said
    \/ /\ s[k].kind = "result"
       /\ ~ \E j \in DOMAIN s :
              /\ s[j].kind = "calls" /\ k \in ResultsAfter(s, j) /\ Answers(s, j, k)
              /\ \A i \in (j + 1)..(k - 1) : s[i].of # s[k].of
Repaired(s, k, keepOpen) ==
    IF s[k].kind # "calls" THEN s[k]
    ELSE LET kept == KeptCalls(s, k, keepOpen)
         IN [s[k] EXCEPT !.calls = kept,
                         !.kind = IF kept = {} THEN "text" ELSE "calls"]
Repair(s, keepOpen) ==
    LET kept == Ordered({k \in DOMAIN s : ~Drops(s, k, keepOpen)})
    IN [i \in DOMAIN kept |-> Repaired(s, kept[i], keepOpen)]

\* AgentMemory::add_message with repair_history_after_mutation: a repair that
\* changed anything also resets the compaction state.
BlocksAfter(raw) == IF Repair(raw, TRUE) = raw THEN blocks ELSE <<>>
AddMessage(m) ==
    LET raw == Append(messages, m)
    IN /\ Len(messages) < MaxMessages
       /\ messages' = Repair(raw, TRUE)
       /\ blocks' = BlocksAfter(raw)

-----------------------------------------------------------------------------
(* compaction/engine.rs and block.rs.                                       *)

Active == {b \in DOMAIN blocks : blocks[b].active}

\* effective_message_indices.
Effective ==
    LET eff[b \in DOMAIN blocks] ==
          blocks[b].direct \cup UNION {eff[c] : c \in blocks[b].consumed}
    IN eff

\* find_tool_batches.
ToolBatches ==
    {{j} \cup ResultsAfter(messages, j) :
        j \in {k \in DOMAIN messages : messages[k].kind = "calls"}}

KeepsBatches(sel) == \A t \in ToolBatches : t \subseteq sel \/ t \cap sel = {}

\* find_consumed_blocks and validate_non_overlap.
Consumed(sel) == {b \in Active : blocks[b].direct \subseteq sel}
NoOverlap(sel) == \A b \in Active \ Consumed(sel) : Effective[b] \cap sel = {}

Accepts(sel) ==
    /\ sel # {} /\ sel \subseteq DOMAIN messages
    /\ KeepsBatches(sel)
    /\ NoOverlap(sel)

\* apply_compression_at: the new block, whose summary text tells what it shows
\* of the selection for the first time, and nests the consumed blocks `refs`.
Untold(sel) == sel \ UNION {Effective[b] : b \in Consumed(sel)}
Compressed(sel, refs) ==
    Append([b \in DOMAIN blocks |->
              [blocks[b] EXCEPT !.active = @ /\ b \notin Consumed(sel)]],
           [active |-> TRUE, direct |-> sel, consumed |-> Consumed(sel),
            refs |-> refs, text |-> {Identity(messages[k]) : k \in Untold(sel)}])

-----------------------------------------------------------------------------
(* compaction/renderer.rs: what the model sees.                             *)

\* render_block_summary: the text, the nested blocks it names, and the
\* consumed blocks it does not name.
NamedOnly(b) == blocks[b].refs  \* mutant: missing summaries are not appended
Nested(b) == blocks[b].refs \cup (blocks[b].consumed \ blocks[b].refs)
Told ==
    LET told[b \in DOMAIN blocks] ==
          blocks[b].text \cup UNION {told[c] : c \in Nested(b)}
    IN told

Covered == UNION {Effective[b] : b \in Active}
Anchors == {CHOOSE k \in blocks[b].direct : \A i \in blocks[b].direct : k <= i :
              b \in Active}
Rendered ==
    LET shown == Ordered({k \in DOMAIN messages : k \in Anchors \/ k \notin Covered})
    IN [i \in DOMAIN shown |->
          IF shown[i] \in Anchors
          THEN [kind |-> "user", id |-> 0, calls |-> {}, of |-> 0, said |-> TRUE]
          ELSE messages[shown[i]]]

-----------------------------------------------------------------------------
(* compaction/auto_select.rs.                                               *)

PrefixEnd ==
    Cardinality({k \in DOMAIN messages : \A i \in 1..k : messages[i].kind = "task"})
UserTurns(k) == {i \in k..Len(messages) : messages[i].kind \in {"task", "user"}}

\* Where the walk back from the end may stop for some token budget: at least
\* the last message or batch is in the tail, and no batch is split.
BudgetTails ==
    {k \in DOMAIN messages : \A t \in ToolBatches : k \in t => \A i \in t : k <= i}

\* The floor of MinUserTurns, unless it would leave nothing to compress.
TailStart(k) ==
    LET enough == {i \in (PrefixEnd + 1)..k : Cardinality(UserTurns(i)) >= MinUserTurns}
    IN IF Cardinality(UserTurns(k)) >= MinUserTurns THEN k
       ELSE IF enough # {} THEN CHOOSE i \in enough : \A j \in enough : j <= i
       ELSE IF k > PrefixEnd THEN k ELSE PrefixEnd + 1

\* adjust_for_active_blocks on the range first..last.
First(b) == CHOOSE k \in blocks[b].direct : \A i \in blocks[b].direct : k <= i
Last(b) == CHOOSE k \in blocks[b].direct : \A i \in blocks[b].direct : k >= i
Unadjusted(first, last) == first..last  \* mutant: active blocks are ignored
Adjusted(first, last) ==
    {k \in first..last : \A b \in Active :
        /\ First(b) < first /\ Last(b) >= first => k > Last(b)
        /\ First(b) <= last /\ Last(b) > last => k < First(b)}

\* select_automatic_compression_range for the budget that ends the tail at k.
AutoSelection(k) ==
    IF PrefixEnd + 1 >= TailStart(k) THEN {}
    ELSE Adjusted(PrefixEnd + 1, TailStart(k) - 1)

-----------------------------------------------------------------------------
(* The run.                                                                 *)

\* A new task, or a continuation, whose context the first iteration adds.
StartRun ==
    /\ pc = "idle" /\ next <= MaxIds
    /\ \E k \in {"task", "user"} : (k = "user" => messages # <<>>) /\ AddMessage(Message(k))
    /\ pc' = "sample"
    /\ next' = next + 1
    /\ UNCHANGED <<batch, events>>

\* A runtime context of a later iteration.
AddContext ==
    /\ pc = "sample" /\ next <= MaxIds
    /\ AddMessage(Message("user"))
    /\ next' = next + 1
    /\ UNCHANGED <<pc, batch, events>>

\* prune_stored_tool_failure_noise: results that are noisy failures get a short
\* text in place, through replace_messages, which forgets the blocks.
RewriteFailures ==
    /\ pc = "sample" /\ \E k \in DOMAIN messages : messages[k].kind = "result"
    /\ messages' = Repair(messages, TRUE)
    /\ blocks' = <<>>
    /\ UNCHANGED <<pc, batch, events, next>>

\* An answer, or a reply that is sent back with a correction.
Reply ==
    /\ pc = "sample" /\ next <= MaxIds
    /\ AddMessage(Message("text"))
    /\ pc' \in {"idle", "sample"}
    /\ next' = next + 1
    /\ UNCHANGED <<batch, events>>

\* maybe_run_runtime_pre_sampling_compaction, run_runtime_context_limit_
\* compaction: applied, skipped (nothing selected, or no gain: nesting blocks
\* that already cover the whole range can only lengthen it), or failed.
AutoCompact(k) ==
    /\ pc = "sample" /\ k \in BudgetTails
    /\ LET sel == AutoSelection(k)
       IN \/ Untold(sel) # {} /\ Accepts(sel)
             /\ blocks' = Compressed(sel, Consumed(sel))
             /\ UNCHANGED pc
          \/ sel # {} /\ pc' = "idle" /\ UNCHANGED blocks
    /\ UNCHANGED <<messages, batch, events, next>>

\* execute_tools_with_runtime up to the batch's execution: the assistant's
\* calls, perhaps with an id used twice, perhaps one of them compress.
CallTools ==
    /\ pc = "sample" /\ next <= MaxIds
    /\ \E n \in 1..MaxCalls, said, dup \in BOOLEAN, c \in 0..MaxCalls :
         /\ c <= n /\ (dup => n = MaxCalls /\ c = 0)
         /\ batch' = [id |-> next, calls |-> 1..n, said |-> said, dup |-> dup,
                      compress |-> c, seen |-> Len(messages)]
    /\ pc' = "tools"
    /\ next' = next + 1
    /\ UNCHANGED <<messages, blocks, events>>

\* execute_batch_with_blocked_calls: every call, blocked or run, cancelled,
\* failed or timed out, has its output, in call order; an id used twice fails
\* verify_outputs_match_calls, and no output is recorded.
ToolsReturn ==
    /\ pc = "tools"
    /\ events' = <<0>> \o (IF batch.dup THEN <<>>
                           ELSE [c \in 1..Cardinality(batch.calls) |-> c])
    /\ pc' = "apply"
    /\ UNCHANGED <<messages, blocks, batch, next>>

\* apply_buffered_runtime_history: the assistant message ...
ApplyAssistant ==
    /\ pc = "apply" /\ events # <<>> /\ Head(events) = 0
    /\ AddMessage([kind |-> "calls", id |-> batch.id, calls |-> batch.calls,
                   of |-> 0, said |-> batch.said])
    /\ events' = Tail(events)
    /\ UNCHANGED <<pc, batch, next>>

\* ... and the results; that of compress changes the blocks before it is added
\* itself (apply_compress_through_engine, one entry).
Selections ==
    LET top == IF OpenRefs THEN Len(messages) ELSE batch.seen
    IN IF AnySets THEN SUBSET (1..top)
       ELSE {a..b : a \in 1..top, b \in 1..top}
ApplyResult ==
    /\ pc = "apply" /\ events # <<>> /\ Head(events) # 0
    /\ Len(messages) < MaxMessages
    /\ LET m == [kind |-> "result", id |-> batch.id, calls |-> {},
                 of |-> Head(events), said |-> TRUE]
           raw == Append(messages, m)
       IN /\ messages' = Repair(raw, TRUE)
          /\ \/ blocks' = BlocksAfter(raw)
             \/ /\ Head(events) = batch.compress
                /\ \E sel \in Selections : Accepts(sel) /\
                     \E refs \in SUBSET Consumed(sel) :
                       blocks' = IF Repair(raw, TRUE) = raw
                                 THEN Compressed(sel, refs) ELSE <<>>
    /\ events' = Tail(events)
    /\ UNCHANGED <<pc, batch, next>>

\* The next iteration, or the failed run.
ApplyDone ==
    /\ pc = "apply" /\ events = <<>>
    /\ pc' = IF batch.dup THEN "idle" ELSE "sample"
    /\ batch' = NoBatch
    /\ UNCHANGED <<messages, blocks, events, next>>

\* The run ends where it stands: an error, a cancel, or the hard timeout, which
\* drops it at any await (between two results too).
RunEnds ==
    /\ pc # "idle"
    /\ pc' = "idle"
    /\ batch' = NoBatch /\ events' = <<>>
    /\ UNCHANGED <<messages, blocks, next>>

\* AgentMemory::clear.
Clear ==
    /\ pc = "idle" /\ messages # <<>>
    /\ messages' = <<>> /\ blocks' = <<>>
    /\ UNCHANGED <<pc, batch, events, next>>

HistoryNext ==
    \/ StartRun \/ AddContext \/ RewriteFailures \/ Reply \/ CallTools \/ ToolsReturn
    \/ ApplyAssistant \/ ApplyResult \/ ApplyDone \/ RunEnds \/ Clear
    \/ \E k \in 1..MaxMessages : AutoCompact(k)

HistorySpec == HistoryInit /\ [][HistoryNext]_historyVars

-----------------------------------------------------------------------------
(* Properties.                                                              *)

\* Every result follows its call, and every call has its result.
Paired(s) ==
    /\ \A k \in DOMAIN s : s[k].kind = "result" =>
         \E j \in DOMAIN s : /\ s[j].kind = "calls" /\ k \in ResultsAfter(s, j)
                             /\ Answers(s, j, k)
    /\ \A j \in DOMAIN s : s[j].kind = "calls" => Answered(s, j) = s[j].calls

\* Whatever was dropped in the middle of a batch, repaired or compressed, the
\* history a provider is sent has every tool call with its result and no result
\* without its call (rendered_messages before call_llm_with_tools).
RequestPaired == pc = "sample" => Paired(Rendered)

\* Compaction forgets nothing: a raw message the model no longer sees is told
\* by the summary of the active block that stands in its place, through any
\* nesting, and through repairs that move the indices the blocks hold.
NothingForgotten ==
    \A k \in Covered : \E b \in Active :
        k \in Effective[b] /\ Identity(messages[k]) \in Told[b]

\* The range automatic compaction selects is one the engine accepts, for every
\* token budget: "Adjust the range boundaries to avoid partial overlaps with
\* active blocks".  A rejection fails the run (run_engine_compaction).
AutoSelectionAccepted ==
    pc = "sample" => \A k \in BudgetTails :
        AutoSelection(k) # {} => Accepts(AutoSelection(k))
=============================================================================
