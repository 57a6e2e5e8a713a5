----------------------- MODULE BlockSignatureAggregator -----------------------
(***************************************************************************)
(* The aggregator task of one session: run_aggregator (party.rs), which    *)
(* waits for batches of ordered data and for the multisignatures of the    *)
(* blocks it started, and BlockSignatureAggregator (aggregator.rs), which  *)
(* hands multisignatures out in the order in which the blocks were started.*)
(*                                                                         *)
(* A block is its number: chain_extension_step returns the headers from    *)
(* last_finalized, exclusive, to the ordered block, on one branch (proved  *)
(* in ChainExtensionStepProofs), so no block is started twice and the test *)
(* of started_hashes never fails.                                          *)
(*                                                                         *)
(* RMC, the reliable multicast, is external: it yields each block once,    *)
(* when enough nodes have signed it, in any order, and may do so before    *)
(* this node has started the block.                                        *)
(***************************************************************************)
EXTENDS Integers, Sequences

CONSTANTS FirstFinalized,  \* the last finalized block when the task first runs,
                           \* perhaps past the session already
          LastBlock,       \* last_block_in_session
          MaxBlock         \* bounds the blocks ordered

ASSUME AggregatorAssumption ==
    FirstFinalized \in Nat /\ LastBlock \in Nat /\ MaxBlock \in Nat

Blocks == FirstFinalized + 1 .. LastBlock

VARIABLES st,            \* the loop: "running", why it broke, or "exited"
          lastFinalized, \* last_finalized
          lastSeen,      \* last_block_seen
          queue,         \* hash_queue
          signatures,    \* the keys of signatures
          lastPlaced,    \* last_hash_placed
          yielded,       \* the blocks RMC has yielded
          emitted        \* the blocks whose justifications were sent, in order

vars == <<st, lastFinalized, lastSeen, queue, signatures, lastPlaced, yielded, emitted>>

Status == {"running", "stream ended", "network closed", "batches ended", "exited"}

TypeOK ==
    /\ st \in Status
    /\ lastFinalized \in {FirstFinalized} \cup Blocks
    /\ lastSeen \in BOOLEAN /\ lastPlaced \in BOOLEAN
    /\ queue \in Seq(Blocks) /\ emitted \in Seq(Blocks)
    /\ signatures \subseteq Blocks /\ yielded \subseteq Blocks

Init ==
    /\ st = "running"
    /\ lastFinalized = FirstFinalized
    /\ lastSeen = FALSE /\ lastPlaced = FALSE
    /\ queue = <<>> /\ emitted = <<>>
    /\ signatures = {} /\ yielded = {}
----------------------------------------------------------------------------
(* next_multisigned_hash: it returns at once when the head of the queue has *)
(* its multisignature, or when there is no hash left and none will come;    *)
(* otherwise it waits for RMC and for the network.                          *)

HeadIsSigned == queue # <<>> /\ Head(queue) \in signatures
\* Mutant: the stream ends whenever the queue is empty.
IsDoneWhenDrained == queue = <<>>

IsDone == queue = <<>> /\ lastPlaced
Waits == st = "running" /\ ~HeadIsSigned /\ ~IsDone

\* Mutant: a multisignature that comes before the block is started is dropped.
MultisignedHashOfStarted(b) ==
    /\ Waits
    /\ b \notin yielded
    /\ yielded' = yielded \cup {b}
    /\ signatures' = signatures \cup ({b} \cap FirstFinalized .. lastFinalized)
    /\ UNCHANGED <<st, lastFinalized, lastSeen, queue, lastPlaced, emitted>>

MultisignedHash(b) ==
    /\ Waits
    /\ b \notin yielded
    /\ yielded' = yielded \cup {b}
    /\ signatures' = signatures \cup {b}
    /\ UNCHANGED <<st, lastFinalized, lastSeen, queue, lastPlaced, emitted>>

\* Breaks the loop; the task then waits for the exit signal.
Break(why) ==
    /\ st = "running"
    /\ st' = why
    /\ UNCHANGED <<lastFinalized, lastSeen, queue, signatures, lastPlaced, yielded, emitted>>

NetworkClosed == Waits /\ Break("network closed")
----------------------------------------------------------------------------
(* run_aggregator *)

\* The headers m + 1 .. n, in order.
Headers(m, n) == [i \in 1 .. n - m |-> m + i]

\* last_finalized once the headers up to n have been gone through: the last of
\* them that is in the session, if any is.
LastStarted(n) ==
    IF n <= LastBlock THEN n
    ELSE IF lastFinalized < LastBlock THEN LastBlock ELSE lastFinalized

\* Mutant: the last block is noticed only when it is passed.
OrderedBatchPast(n) ==
    /\ st = "running" /\ ~lastSeen
    /\ n > lastFinalized
    /\ queue' = queue \o Headers(lastFinalized, LastStarted(n))
    /\ lastFinalized' = LastStarted(n)
    /\ lastPlaced' = (n > LastBlock)
    /\ lastSeen' = (n >= LastBlock)
    /\ UNCHANGED <<st, signatures, yielded, emitted>>

\* Mutant: headers past the session are started too.
OrderedBatchAll(n) ==
    /\ st = "running" /\ ~lastSeen
    /\ n > lastFinalized
    /\ queue' = queue \o Headers(lastFinalized, n)
    /\ lastFinalized' = n
    /\ lastPlaced' = (n >= LastBlock)
    /\ lastSeen' = (n >= LastBlock)
    /\ UNCHANGED <<st, signatures, yielded, emitted>>

\* A batch of ordered data, of which n is the last block that extends
\* last_finalized.  Aggregation starts for the headers up to the last block
\* of the session; once that is reached, later batches are ignored.
OrderedBatch(n) ==
    /\ st = "running" /\ ~lastSeen
    /\ n > lastFinalized
    /\ queue' = queue \o Headers(lastFinalized, LastStarted(n))
    /\ lastFinalized' = LastStarted(n)
    /\ lastPlaced' = (n >= LastBlock)
    /\ lastSeen' = (n >= LastBlock)
    /\ UNCHANGED <<st, signatures, yielded, emitted>>

\* Mutant: a multisignature is handed out when it comes, not in its turn.
EmitAnySigned ==
    \E b \in signatures \cap FirstFinalized .. lastFinalized :
        /\ st = "running"
        /\ emitted' = Append(emitted, b)
        /\ queue' = SelectSeq(queue, LAMBDA c : c # b)
        /\ signatures' = signatures \ {b}
        /\ UNCHANGED <<st, lastFinalized, lastSeen, lastPlaced, yielded>>

EmitJustification ==
    /\ st = "running" /\ HeadIsSigned
    /\ emitted' = Append(emitted, Head(queue))
    /\ queue' = Tail(queue)
    /\ signatures' = signatures \ {Head(queue)}
    /\ UNCHANGED <<st, lastFinalized, lastSeen, lastPlaced, yielded>>

StreamEnds == IsDone /\ Break("stream ended")

\* AlephBFT has stopped and dropped its end of the channel.
BatchesEnd == Break("batches ended")

Exit ==
    /\ st # "exited"
    /\ st' = "exited"
    /\ UNCHANGED <<lastFinalized, lastSeen, queue, signatures, lastPlaced, yielded, emitted>>
----------------------------------------------------------------------------
Next ==
    \/ \E b \in Blocks : MultisignedHash(b)
    \/ \E n \in FirstFinalized + 1 .. MaxBlock : OrderedBatch(n)
    \/ EmitJustification
    \/ StreamEnds \/ NetworkClosed \/ BatchesEnd \/ Exit

Spec == Init /\ [][Next]_vars

\* The task keeps running, and RMC yields what this node has started: the
\* other nodes of the session order, and so start, the same blocks.
FairSpec ==
    /\ Spec
    /\ WF_vars(EmitJustification)
    /\ WF_vars(StreamEnds)
    /\ \A b \in Blocks : WF_vars(b <= lastFinalized /\ MultisignedHash(b))
----------------------------------------------------------------------------
(* Properties *)

\* Justifications leave in the order of the chain, with no gap and no repeat,
\* whatever the order in which multisignatures come: those sent and those
\* waited for make up the branch from the block finalized at the start to the
\* last one started (hash_queue, next_multisigned_hash).
InChainOrder == emitted \o queue = Headers(FirstFinalized, lastFinalized)

\* A multisignature that came is kept until its justification is sent, also
\* when it came before the block was started here: RMC yields it once, and a
\* lost one would block the queue for ever.
NoSignatureLost ==
    yielded = signatures \cup {emitted[i] : i \in DOMAIN emitted}

\* The stream of multisigned hashes ends only after the justification of the
\* last block of the session: the task does not stop short of it, and no block
\* after it gets one; when the task first runs after the session none does.
EndsWithSession == st = "stream ended" => emitted = Headers(FirstFinalized, LastBlock)

\* A node that has started a block sends its justification, unless the task
\* was stopped.
StartedIsJustified ==
    \A b \in Blocks :
        b <= lastFinalized ~> \/ \E i \in DOMAIN emitted : emitted[i] = b
                              \/ st \in {"network closed", "batches ended", "exited"}

\* Once the last block of the session is ordered the task comes to its end
\* (notify_last_hash).
ComesToEnd == lastSeen ~> st # "running"
=============================================================================
