# TLA+ models of the aleph finality gadget

This directory holds TLA+ models of aleph-node's finality gadget
(`finality-aleph`), TLC configurations that model-check them on small
instances, and TLAPS proofs about them for every instance. Paths below are
relative to the root of the repository; `party.rs` and the like stand for
`src/finality-aleph/src/party.rs`.

## The system

The chain is divided into sessions of `SessionPeriod` blocks (`lib.rs:230`).
In every session a committee, read from the runtime at the last block of the
session before, runs an instance of AlephBFT over the blocks its members
propose. Every member walks from its last finalised block to each block in the
order AlephBFT gives, signs the headers on the way and multicasts the
signatures. Two thirds of the committee's signatures of a block are a
justification, with which any node finalises the block.

| component | state | operations | interacts with |
|---|---|---|---|
| consensus party (`party.rs`) | current session, `SessionMap` | `run`, `run_session`, `prune_session_data`, `run_session_as_authority` | reads the client and the runtime, writes the `SessionMap`, starts and stops the tasks of a session |
| tasks of a session (`party.rs:258`, `split_network` in `network.rs`) | channels between them, exit signals | start, `split_network`, stop in order | member, aggregator, forwarder, refresher, data store; the network task |
| aggregator task (`party.rs:185`) | `last_finalized`, `last_block_seen` | one per batch of ordered data, one per multisignature, exit | gets batches from AlephBFT over a channel, hands justifications to the handler |
| block signature aggregator (`aggregator.rs`) | queue of hashes, signatures, `last_hash_placed` | `start_aggregation`, `notify_last_hash`, `next_multisigned_hash` | reliable multicast over the session's network |
| chain extension (`finalization.rs`) | none | `chain_extension_step`, `finalize_block` | reads headers from the client |
| justification handler (`justification.rs`) | times of the last request and finalisation | `run`, `handle_justification_notification`, `request_justification` | reads the `SessionMap` under a lock, finalises in the client, asks the network for justifications |
| data store (`data_io.rs`) | dependent and pending messages, requirement counts, LRU cache | `add_message`, `add_block`, `forget_message`, maintenance | between the network and AlephBFT; import notifications of the client |
| best chain refresher (`data_io.rs:242`) | `best_chain` | refresh every 100 ms, `get_data` | AlephBFT asks it what to propose |
| block import (`import.rs`) | none | `import_block`, `import_justification` | hands justifications to the handler |
| consensus network (`network.rs`) | peers, authenticated nodes, sessions | connect, disconnect, authenticate, data, commands | every session's `DataNetwork` |
| aleph pallet (`src/pallet`) | validators, authorities, session of the change | `change_validators`, `new_session`, `on_new_session` | `pallet_session`; the runtime API reads it |
| key box and session arithmetic (`lib.rs`) | none | sign, verify, `last_block_of_session` | all |
| metrics (`metrics.rs`), node binary (`src/bin`) | gauges; wiring | | no decision depends on them |

What makes it hard:

* **Interleaving.** Party, handler and aggregators of a node run concurrently
  over the client and the `SessionMap`. An aggregator reads its starting point
  when its task first runs (`party.rs:200`), and is told to exit only after the
  party has left the session (`party.rs:502`), so that aggregators of two
  sessions run at once.
* **Staleness and partial knowledge.** Authorities are read on the node's own
  best chain; a datum passes the data store because a block of its claimed
  number is final, not because the node has it (`data_io.rs:189`).
* **Loss.** Justifications may come late, again or never; import notifications
  are lost (`data_io.rs:101`).
* **Restarts.** Only the client's database survives. The session is run again
  from the finalised block, and blocks are signed again.
* **Failing calls.** A runtime call that fails makes the party leave out a
  session (`party.rs:436`). The handler then has no keybox for it.
* **Starting and stopping.** A task that sends on a channel whose receiver is gone may
  panic; the authority task therefore stops the others one by one
  (`party.rs:386`).
* **Timeouts and requests.** The handler asks for a justification when none came
  for a while (`justification.rs:153`), while what it asked for before may still
  come; a request that is refused must be repeated.
* **Bounds.** The data store forgets old messages and evicts from its cache;
  the party prunes old keyboxes.

What makes each part correct: nodes never finalise conflicting blocks; a node
does not sign two branches in a session; committees agree; the handler's
keybox is there when it is needed; the data store neither panics nor loses or
withholds a message; the walk returns the path it documents; the network
routes to authenticated peers only; validator changes happen once; what the
node imports becomes final up to the ends of sessions, and what is final is not
asked for; no task of a session panics because it sends to one that has gone,
and all of them end.

## Modules

* `SessionArithmetic` - sessions as intervals of block numbers.
* `BlockTree` - the blocks anybody ever creates, as an arbitrary finite or
  infinite tree with heights; sessions; `ChainExtension`, what
  `chain_extension_step` returns. Two assumptions say that it is a tree.
* `Finality` - the abstract specification: a node replaces its finalised block
  by a descendant that is on one chain with what every other node finalised.
* `AlephFinality` - the gadget: consensus party, aggregators, justification
  handler and block import of every honest node, composed (see below).
* `DataStore` - the data store with the client as its environment.
* `ChainExtensionStep` - the loop of `chain_extension_step`, header by header.
* `BlockSignatureAggregator` - the aggregator task of one session with the
  queue of multisignatures in front of it.
* `ConsensusNetwork` - the network task and the session manager of every node,
  over connections that open and close.
* `AlephPallet` - the committees as the runtime appoints them.
* `JustificationHandler` - the handler of one node with its two channels, its
  requests and its sense of time, between block import and the party.
* `AuthorityTasks` - the tasks of one session of one node, the channels between
  them, and how they are stopped.
* `MC...` - instances for TLC.
* `AlephFinalityProofs`, `DataStoreProofs`, `ChainExtensionStepProofs`,
  `BlockSignatureAggregatorProofs`, `ConsensusNetworkProofs`,
  `AlephPalletProofs`, `JustificationHandlerProofs`, `AuthorityTasksProofs` -
  theorems and proofs, one module for each component.

The modules are joined by what they assume of each other. `AlephFinality` walks
with the operator `ChainExtension`, which `ChainExtensionStep` is shown to
compute; it gives a node's handler any justification that signatures suffice
for, of which `BlockSignatureAggregator` says in which order a node makes them;
it takes the committee of a session from the last block before it, which
`AlephPallet` shows is the committee the runtime then has. How a node comes to
the justifications that `AlephFinality` lets its handler have at any time is
in `JustificationHandler`, which in turn takes from the agreement theorem that
justified blocks are on one chain. `AuthorityTasks` joins what is inside the
tasks (`DataStore`, `BlockSignatureAggregator`, `ConsensusNetwork`) by their
channels, in which it only counts messages.

### AlephFinality and the code

| variable | in the code |
|---|---|
| `imported[n]`, `finalized[n]` | the client's database |
| `sess[n]`, `phase[n]` | `curr_id` in `run`, and where `run_session` is: before the insertion into the `SessionMap`, at the early skip, at the wait loop |
| `known[n][s]` | `session_authorities`, the `SessionMap` |
| `agg[n][s]` | the locals of `run_aggregator` of session `s`, and how much of the order it has taken |
| `signed` | the signatures multicast (`start_rmc`) |
| `order[s]` | AlephBFT's output in session `s` |
| `crashes` | restarts so far, for the bound |

| action | code |
|---|---|
| `ImportBlock` | `import.rs:124` |
| `EnterSession`, `SkipSessionOnError` | `party.rs:417-446`: the authorities are inserted, or the call fails and `run_session` returns |
| `EarlySkip`, `StartSession`, `EndSession` | `party.rs:448-502`; each going on to the next session includes the pruning of `party.rs:524` |
| `StartAggregator`, `OrderedDatum`, `ExitAggregator` | `party.rs:185-256` |
| `HandleJustification` | `justification.rs:106` in the loop of `justification.rs:196`, with the checks of the client in `finalize_block` |
| `Crash` | the process ends; `party.rs:517` starts again |

A batch is taken datum by datum. The code awaits the multicast between two
headers, so that the client may change within a batch; that the rest of a
batch is still processed after the last block of the session has been seen
adds no header, because the tip is then that block.

A justification is what signatures suffice for: at any time the handler may be
given any block, so that duplicated, reordered, late and lost justifications,
those that come with a block and those that are requested, are all behaviours.
A faulty node has signed every block. The handler reads the finalised number,
its session and its keybox before it waits for a notification; as it is the
only one to finalise, and a keybox does not change, handling is one step.

Parameters that a reader should know: `NextAuthorities` is
`next_session_authorities` as a function of the block, `Data` says what AlephBFT
may order in each session (the pairs of a block and the number claimed for it,
which need not be its own), `ApiFails` says at which
nodes and sessions the runtime call may fail, `MaxOrdered` bounds the data
ordered in each session. `MaxSession` and `MaxCrashes` are bounds too.

### DataStore and the code

`nextId`, `dependent`, `requirements`, `pending` and `cache` are the fields of
the struct; an absent entry of a map is `{}`, `0` or `NoMessage`. The cache
evicts any entry rather than the least recently used one. The operators
`Pushed`, `Counted`, `Unsent` and `Released` are `push_messages` for a set of
blocks, whose order does not matter to the maps. `received`, `forwarded` and
`forgotten` count, for the properties, what happened to each message. Ids stop
at `MaxId`, arrivals of a message at `MaxReceived`.

### BlockSignatureAggregator and the code

A block is its number, because the walk only ever returns headers that extend
`last_finalized` on one branch; the test of `started_hashes` therefore never
fails and has no counterpart. `lastFinalized`, `lastSeen` are the locals of
`run_aggregator`; `queue`, `signatures`, `lastPlaced` the fields of the struct.
The future of `next_multisigned_hash` that `select!` drops holds no state, so
that its waiting is one action for each thing it waits for: `MultisignedHash`
and `NetworkClosed` (`aggregator.rs:109`). Between taking a multisignature from
RMC and inserting it nothing is awaited, and the two are one action; that a
dropped future loses none is therefore read off the code and not checked. `EmitJustification` and `StreamEnds`
are its two immediate results with what the loop does of them, `OrderedBatch`,
`BatchesEnd` and `Exit` the other branches (`party.rs:203`). A batch of several
data has the effect of its last datum that extends the tip. RMC is external: it
yields a block once, in any order, perhaps before the block is started here.

### ConsensusNetwork and the code

| variable | in the code |
|---|---|
| `allPeers[p]`, `auths[p][q][s]` | the keys of `all_peers`, and `PeerInfo.authentications` |
| `toPeer[p][s][i]` | `to_peer` |
| `session[p][s]` | the entry in `sessions`, and whether its `DataNetwork` still lives |
| `commands[p]` | the channel `commands_from_user` |
| `links[q][p]`, `linked` | Substrate's network: the events on their way to `p` about `q`, and the open connections |

| action | code |
|---|---|
| `StartSession`, `AnnounceSession` | `network.rs:301`, before and after the lock; the party awaits it, so that a node starts one session at a time |
| `SendData`, `EndSession` | `DataNetwork::send`, and its drop |
| `OnCommand` | `network.rs:496` |
| `OnPeerConnected`, `OnPeerDisconnected` | `network.rs:533`, `540` with `Peers::insert` and `remove` |
| `OnIncomingAuthentication`, `OnAuthenticationRequest` | `network.rs:417`, `448` |
| `OnIncomingData` | `network.rs:467`, `439`, `395`, and the `retain` of `network.rs:603`, which follows in the same iteration; the code handles all messages of one notification before that `retain`, the model each with its own, which a second message to a session without a user does not notice |
| `Connect`, `Disconnect`, `Restart`, `SendFaulty` | external |

A connection is opened and closed for both ends at once; each end learns of it
in order with the messages over it, which a close may cut off on either side. A
restarted node keeps its peer id and loses its session entries, its peers and
its commands. A signature under an authentication is accepted when the peer
named has the key of the node named, or a faulty peer has it.

### AlephPallet and the code

`validators`, `sessionForChange` and `authorities` are the storage items of the
pallet; an option is the set of its value or empty. `currentIndex`,
`queuedKeys` and `nextKeys` are those of `pallet_session`, whose rotation
(`Rotate`) at the first block of each session calls `new_session` for the
session after and `on_new_session`, in the order of that pallet. The genesis
has already taken the change for session 0 that `GenesisConfig::build` leaves.
`request` remembers the last call of `change_validators` for the properties.

### JustificationHandler and the code

A block of the finalised chain is its number; the client may also hold a fork
from its finalised block, of height `forkHeight`.

| variable | in the code |
|---|---|
| `imported`, `forkHeight`, `finalized` | the client |
| `sess`, `phase`, `known` | the party's `curr_id`, where it is in `run_session`, and the keys of the `SessionMap` |
| `open`, `queue` | the channels from block import and from the aggregators: whether a sender is left, and what is in them |
| `pc` | the handler: at the top of its loop, in the wait of 500 ms, waiting for a notification, returned; absent at a node that is no authority |
| `lastFinalized`, `stop` | `last_finalized_number` and `stop_h` |
| `sinceFinalization`, `sinceRequest` | the ages of `last_finalization_time` and `last_request_time`, in units of time, up to where they make no difference |
| `requested` | the headers for which Substrate's network asks peers |

| action | code |
|---|---|
| `ImportBlock`, `ImportFork` | `import.rs:124`: the justification is taken out before the import and sent after it |
| `Answer`, `LoseRequest` | `import.rs:182`, after a request; external |
| `StopImport`, `PartyPanics` | a sender is dropped |
| `EnterSession`, `SkipSessionOnError`, `LeaveSession` | `party.rs:417-446`, `448-502`, with the pruning |
| `AuthorityJustification` | `party.rs:230` |
| `ReadSession`, `Wake` | the top of the loop and its wait, `justification.rs:196-208` |
| `TakeNotification`, `TimeOut`, `Return` | `justification.rs:211-229`, with `handle_justification_notification` and `request_justification` |
| `Tick` | time |

The handler holds what it read while it waits; imports, requests and sessions go
on meanwhile, and only finalisation does not, because no one else finalises. A
full node has no handler and drops the receiver (`src/bin/node/src/service.rs`),
so that every send of its block import fails.

### AuthorityTasks and the code

| variable | in the code |
|---|---|
| `task` | the tasks spawned in `party.rs:350-384`; `"waiting"` is the aggregator past its loop, before its exit signal (`party.rs:247`) |
| `forwarding` | the three futures `split_network` joins (`network.rs:706`) |
| `stopping` | where the authority task is in `party.rs:386-414` |
| `network`, `session` | the network task; the session's sender in the `sessions` map, which the party's `session_manager` shares (`network.rs:296`, `party.rs:98`) and which is dropped when both have gone (`SessionsDropped`) |
| `channel` | what is in the channels; `failed` remembers sends that failed |

Each action is one step of one task: `MemberSends`, `AggregatorReceives`,
`ForwardData` and so on. Every send that meets a closed channel is recorded,
those too of which the code only writes to the log: the data store's to the
member, and the forwarder's (`network.rs:732`, `738`; `Pass`). `AggregatorBreaks` may happen at any time here: when
the loop is left is in `BlockSignatureAggregator`. A task that panics still
answers the authority task, because the handle of a spawned task yields an
error then (`src/finality-aleph/src/lib.rs:214`). The refresher only ends; the
chain it keeps is not modelled.

## Runs

| run | instance | shows |
|---|---|---|
| `finality` | 3 honest nodes, 1 faulty; 2 sessions of 2 blocks; forks at both heights, one block imported late; 2 data in session 0, 1 in session 1, of two candidates each | equal `SessionMap`s, conflicting signatures only from a node that is late, refinement of `Finality` |
| `restart` | 1 session of 3 blocks, forks at 1 and 2, one block imported late and also ordered under a wrong number, 1 restart | no double signing across a restart, in one session and with no failing call |
| `skipped` | 4 sessions of 1 block, two branches with different committees, 3 honest nodes, 1 faulty, a pruning window of 1, 1 restart; the runtime call of one node for session 1 may fail | agreement and own committees with a session left out; the `SessionMap` stays small; where calls succeed the party is never ahead of the handler, whose keybox is there |
| `data_store` | 2 blocks, 3 messages (two blocks; a wrong number; one block), each received twice; cache of 2, boundary 2 | no `expect` fails, no message is lost or counted twice, old ones are forgotten entirely, what is available is passed on |
| `data_store_repeated` | a message that includes one block twice | violation, see Findings |
| `signature_aggregator` | a session whose last block is 5, of which block 1 is final, and an ordered block past it | justifications in chain order, no multisignature lost, the end of the stream, and that all this comes about |
| `network` | 2 nodes, 1 session, 2 connections | two connected nodes are not left strangers, and if they stay connected they come to send each other data |
| `network_shared` | 3 peers, of which a faulty one shares another's key; 2 connections, 1 restart | routes go to authenticated and connected peers; the faulty peer speaks for itself only; no peer comes back by a late message |
| `pallet` | 3 accounts, 2 keys, sessions of 2 blocks, 9 blocks; changes for any session | changes happen once and on time; the announced authorities are the ones that come |
| `chain_extension` | 7 blocks, 2 forks; all clients, finalised blocks and data, numbers off by one included | the walk returns the path, lowest first, and ends |
| `justification` | sessions of 2 blocks, 4 blocks, a fork of height 2; the cadence is one unit of time; 1 justification in a channel; the runtime call for session 1 may fail; pruning | nothing final is asked for; the ends of sessions become final once imported; what has been delivered becomes final without a request |
| `authority_tasks` | 1 message in every channel | while there is a network, no send of the member or the aggregator fails, and others only once the tasks they serve are over; all tasks end |

Why the bounds are enough to be interesting: two sessions are what one needs
for an aggregator to lag into the next session, and for the committee to
change; two data in a session are what it takes for nodes to see them from
different tips; a restart needs a session with at least two blocks to sign
between. In the `finality` instance honest nodes really do sign conflicting
blocks of session 0: `ConflictingSignaturesOnlyWhenLate` without its
conclusion fails there. Three honest nodes of four is the smallest committee
with a faulty node. Two connections are what it takes to lose one and get it
back; what goes on between two peers does not depend on a third unless the two
share a node, and then three are enough. In the network runs a session has no
data under way while other data of it, or a request that data caused, is
(`InFlight`): more of the same data changes no state. Nine blocks are enough for a
change to be asked for, overwritten, planned and in force. A session of four
open blocks lets multisignatures overtake each other and their block. Two sessions after
each other, one of them left out or pruned, are what the handler's wait for a
keybox needs; a channel of one justification makes senders wait for the
handler, and a fork as high as the first session's end puts another block of
that number on the best chain when the handler asks. One message in each channel lets
every task end before, between and behind those that others have sent it; the
theorem is for any number. The first keybox is pruned when the third session
is left, with a window of 1 as with one of 10 when session 20 is left, so
`skipped` needs four sessions. Deadlock is not checked in these runs: a bounded instance
stops when its blocks, data and sessions are used up, `chain_extension_step`
when it has returned.

Every property of a passing run has a mutant, an operator beside the
definition it changes (`StartAggregatorAtGenesis`, `KeepHalfForgotten`, ...)
that makes the run fail; the models do not use these operators.

Fairness is assumed in six places. The maintenance timer of the data store
goes off again and again (`data_io.rs:124`; the timeout is re-armed in the
same branch): `WF_vars(Maintenance)`. `chain_extension_step` is a synchronous
function, so the loop takes steps until it returns: `WF_vars(Next)`. The
aggregator's loop goes on, and RMC yields each block this node has started,
because all members of the session start the same blocks and RMC repeats its
messages: `WF_vars` of `EmitJustification`, `StreamEnds` and `MultisignedHash`;
no fairness is given to batches, exits or closing channels. The network task
polls both of its channels (`select!` in random order), and AlephBFT broadcasts
as long as its session lasts: `WF_vars` of `OnCommand`, `OnEvent` and
`SendData`. Nothing is assumed of
connections; `EventuallyRouted` speaks of those that last. In
`JustificationHandler` time goes on, the chain grows, and party and handler take
their steps (weak fairness); `select` of the two streams alternates between
them, so that each channel is taken from again and again
(`SF_vars(TakeNotification(c))`); and of requests that are made again and again
one is answered, because some peer has finalised the block
(`SF_vars` of a good `Answer`; single answers may be bad or lost). In
`AuthorityTasks` every task polls its exit signal and the authority task awaits
one handle after the other: `WF_vars` of `StopNext`, of the exits, and of the
end of the member once it is told; nothing else of AlephBFT, and nothing of the
network task.

## Proofs

All theorems hold for every value of the constants that meets the named
assumptions: `GenesisAssumption` and `ChainAssumption` (blocks form a tree with
the genesis at its root), `ParameterAssumption` (types; finitely many nodes)
and `FaultAssumption` (less than a third of every committee is faulty) for the
gadget; `DataAssumption`, `DataStoreAssumption`, `AggregatorAssumption`,
`NetworkAssumption`, `PalletAssumption`, `HandlerAssumption` and
`TasksAssumption`, which give the constants of these modules their types, for
the others. Where a theorem needs more, its statement says so.

`AlephFinalityProofs`:

* `TypeCorrect`: `Spec => []TypeOK`. The step that needs care is
  `OrderedDatum`; `OrderedDatumEffect` says once what it does, and later proofs
  use that instead of the definition: the blocks signed lie between the old tip
  and the new one, on one chain, not above the session's last block.
* `OwnCommittee`: `Spec => FinalizedByOwnCommittee`, with restarts and failing
  calls. The handler verifies with the keybox its party read at some other
  time, from some other best chain. The inductive invariant `KeyInv` says that
  every keybox of a session up to the handler's is the committee on the
  finalised chain, that the handler has none if the party is ahead of it, and
  that the party knows no session it has not entered.
* `KeyboxIsThere`: `Spec => []KeyboxAvailable`, for the nodes whose runtime
  calls do not fail, with restarts, pruning and failing calls of others. The
  invariant `KeyboxInv` says of such a node that its party is not beyond the
  handler's session, has entered it if it is past the insertion, and that
  pruning cuts off earlier sessions only; a call is answered because the last
  block before the session is final, hence imported (`ClientInv`).

* `MapIsBounded`: `Spec => []SessionMapBounded`, with restarts, pruning and
  failing calls. The bound is not inductive: between two prunings the map grows.
  `PrunedInv` says that nothing is older than one window before any multiple of
  the window that the party has left; a restart empties the map, and the party
  adds only the session it is in.
* `CommitteesAgree`: `Spec => []CommitteeAgreement` where no runtime call fails
  (`ApiFails = {}`), with restarts: a keybox is then the committee on the
  finalised chain, and nodes agree on that chain.

The next three theorems hold for `MaxCrashes = 0 \/ ApiFails = {}`: nodes may
restart, or runtime calls may fail, in any number, but not both: the first
theorem is false where both happen (see Findings), and the others rest on it.
Two different arguments are behind them.

* `SignsOneChain`: `Spec => []NoDoubleSigning`.

  Without restarts the invariant `SigningInv` relates the aggregators of a node
  to each other and to what it has signed: an aggregator whose session the
  party has left finds the session's last block final (`LeftIsOver`); the tip
  of an aggregator has left all sessions behind that have an older aggregator
  still alive (`TipsApart`); before an aggregator starts nothing is signed in
  its session (`SignedBeforeStart`), and what is signed in its session, or
  before, the tip builds on or has left behind (`SignedBelowTip`). None of this
  uses that AlephBFT gives all nodes the same order, nor that calls succeed.

  With restarts a node signs its session a second time, from whatever it has
  finalised by then, and what keeps it on its first branch is that AlephBFT
  repeats the same order. The invariant `WalkInv` makes this precise: for every
  session there is one walk, the tips that an aggregator with every block
  imported would have from one starting block on the data ordered so far
  (`Walks`), and every honest node follows it (`Follows`). What the node
  finalises in the session is on the walk; what it has signed in the session is
  below a point of the walk up to which it has the blocks (`InStep`), since
  without them its aggregator does not move; and its running aggregator is on
  the walk or ahead of it by finalised blocks only (`OnWalk`), unless the
  session is over for it. The exception is `Late`: an aggregator that starts
  after its node has finalised beyond the session may leave the walk, but then
  its tip builds on all that the node has signed in the session. `EnteredInv` says that a node
  takes part in a session only once it has finalised what the session is built
  on, which is where the failing calls must be excluded, and `OrderedInv` that a
  session in which something is ordered has such a node.
* `Agreement`: `Spec => []FinalityAgreement`. Finalised blocks, and the last
  block of every session below them, are certified by the committee of their
  own chain (`CertInv`): the handler accepts nothing beyond the session's last
  block, so that block is finalised in its own right. Two certified blocks of
  one session over a common finalised block have the same committee, hence an
  honest signer in common (`QuorumsIntersect`), hence lie on one chain. With
  restarts this cannot come after `SignsOneChain`: the walk of a session starts
  at a block that all nodes have finalised, and finalised blocks are on one
  chain because no node has signed two. `RestartInv` holds all of it, and one
  step of the gadget preserves it as a whole (`RestartInductive`).
* `Refinement`: `Spec => ImplementsFinality`.
* `ConflictOnlyWhenLate`: `Spec => []ConflictingSignaturesOnlyWhenLate` where no
  runtime call fails, from the same walk: two nodes that sign conflicting blocks
  cannot both be on it, and only a `Late` one may be off.

`DataStoreProofs`, for any blocks, messages, cache size and boundary
(`DataStoreAssumption`). The invariant `StoreInv` says of each message number
that it is blank in all three maps (`BlankAt`), or that the message is pending,
young, and counted for no fewer blocks than it is filed under (`KeptAt`); that
what the cache holds is available (`CachedAreAvailable`); and that the client
announces only what it has imported (`Delivered`). The count is not equal to the
number of blocks: a block that is twice in a message is counted twice (see
Findings), and the inequality is what keeps both `expect`s safe all the same.
The folds over sets of messages in `push_messages` are reasoned about by what
they do to one message. From it: `StoreTypeCorrect`, `NeverPanics`,
`NothingOldIsLeft`, `MessagesAreConserved`, and the action property
`OnlyAvailableIsForwarded`.

`ChainExtensionStepProofs`: the walk's type invariant, that it returns the
path (`Correctness`), meets no missing header once the first is there
(`NoHeaderIsMissing`, which follows from the client holding every block's
ancestors), and agrees
with the operator the gadget is modelled with (`OperatorIsCorrect`).

`BlockSignatureAggregatorProofs`, for any numbers (`AggregatorAssumption` gives
them their type only: the task may first run when its session is over):
`AggregatorTypeCorrect`, and
`JustifiedInChainOrder` is inductive with the types: concatenating the
headers of two walks gives the headers of the longer one (`HeadersExtend`), and
moving the head of the queue to what was emitted changes nothing of the two
together (`MoveHead`). `EndsAtLastBlock` needs that the last hash is placed only
when the tip is the session's last block, or beyond it from the start
(`LastIsPlaced`). `SignaturesAreKept`:
every multisignature is still with the aggregator or has been emitted, whether
it came before its block was started or after.

`AlephPalletProofs`, for any period, accounts and calls (`PalletAssumption`):
`PalletTypeCorrect`, `ChangesAreOnTime` and `AnnouncedAuthorities`. The invariant `IndexFollows` says
that `pallet_session` counts sessions as the gadget does (by division:
`SessionSteps`) and that no call is later than the current session.

`JustificationHandlerProofs`, for any period, block time and chain:
`TypeCorrect`, and `OnlyNeededRequests`: `Spec => RequestsAreNeeded`. `stop_h`
was read before the wait, and the block may have become final since, by this
very notification: then the time of the last finalisation is now and no request
is made. Otherwise the handler still knows what is final, which is what
`KnowsFinalized` adds to the types.

`AuthorityTasksProofs`, for channels of any size: `ChannelsCloseInOrder`:
`Spec => []ClosedInOrder`. While the network task runs nothing that the member
or the aggregator sends meets a closed channel, so the aggregator does not
panic. Sends the other way do fail, when tasks are stopped: the data store's to
the member once that has ended, the forwarder's to the aggregator once the
member and it have, the network task's to the forwarder once all three have;
the forwarder's to the data store never. The invariant says that tasks are told to exit in
order (`StoppedInOrder`), that a task which has ended was told to or ended by
itself where the code lets it, so that it outlives those that send to it
(`OutlivesItsUsers`), and that no part of the forwarder ends while its sender
lives and the network task runs (`ForwardsToTheEnd`).

It is also proved there that every channel carries only the messages
which its receiver takes (`TasksTypeCorrect`).

`ConsensusNetworkProofs`, for any peers, faulty ones, committees, connections and
restarts (`NetworkAssumption`). What a node has in its maps is right only together
with what is still on its way to it, so the invariant `SeenInv` is about the
queues: `Seen(w, open, here)` says of the events `w` on their way to a node about
a peer that connections open and close in turn, that what is there of a
connection ends with its closing unless it is still open, that a peer of
`all_peers` has a closing to come or is connected, and that of an open
connection the node has the beginning behind or before it. Taking an event,
sending a message, opening and cutting each preserve this, by lemmas about
one queue.

* `NetworkTypeCorrect`, and `NobodyStaysForever`: `Spec => []NoGhosts`.
* `RoutesAgree` and `OwnersGetTheirData`: `RoutesAreAuthenticated` and
  `RoutesToOwner`. They need besides that honest nodes sign their own claims only
  (`OwnMessages`), that recorded authentications were verified
  (`AuthsVerified`), and that there is no route over a connection whose opening
  the node has still to see (`NoRouteBefore`): otherwise `Peers::insert`, which
  resets a peer's authentications, would leave a route behind.
* `PeersMeet`: `Spec => []NoMutualStrangers` where no two peers are the same
  node (`Distinct`; it does not hold otherwise, see Findings). The invariant
  `MeetInv` says that of two connected peers in one open session, one routes to
  the other over this connection, or owes the other an authentication that will
  arrive in time: it has the connection's opening still before it and greets
  then, or has the command in its queue, or has sent it and the connection's
  closing is not behind it.

Only model-checked: all liveness (`AvailableAreForwarded`, `Returns`,
`StartedIsJustified`, `ComesToEnd`, `EventuallyRouted`,
`SessionEndsAreFinalized`, `DeliveredIsFinalized`, `TasksEnd`), because
fairness and `ENABLED` are beyond the prover's temporal backend here. Every
invariant and every action property of a passing run is also a theorem.

## Findings

* `add_pending_message` (`data_io.rs:168`) counts a block that a message
  includes twice as two requirements, but the message waits for it once
  (`dependent_messages` holds a set). Such a message is never sent: not when
  the block is imported and not by the maintenance, until it is forgotten. The
  comments at `data_io.rs:98-101` say otherwise. Run `data_store_repeated`.
* No finding, but a limit of the safety argument: `NoDoubleSigning` does not
  hold when a restart and a failing runtime call meet. A node that has signed
  in a session, restarts, and then leaves that session out because the call
  fails, signs the session's blocks again from the next session's order: on the
  instance `skipped`, `n1` signs in session 1, restarts, and as the call for
  session 1 now fails, its aggregator of session 2 walks from the genesis along
  the other branch. The run `skipped`, where both happen, therefore does not
  check it, and the theorems about signing exclude one or the other.
* Nor is this one: `NoMutualStrangers` and `EventuallyRouted` do not hold when
  two peers of a session have the key of one member, as a validator that was
  moved to another machine with a new network key has while its old connection
  lives. The peer that authenticates last takes the route over, and when the other
  one leaves, `Peers::remove` takes the route away from whoever has it
  (`network.rs:207`); nobody asks the one that stays to authenticate again
  unless it sends data. The run of these two properties has a peer for each
  member; `RoutesToOwner` and `NoGhosts` are checked with shared keys.
* The same failing call is behind `LeftOut` in `JustificationHandler`: once the
  party has left a session out, the handler has no keybox for it and waits
  (`justification.rs:202`), until a restart; it finalises nothing more and takes
  nothing from its channels. `SessionEndsAreFinalized` and `DeliveredIsFinalized`
  except that state.
* Comments the code does not follow to the letter, read against it and not
  run: `data_io.rs:51-53` says that messages are passed on when all their blocks
  are imported, but a block whose claimed number is final also counts
  (`data_io.rs:189`), which is why aggregators that lag disagree on the
  extension, see `ConflictingSignaturesOnlyWhenLate`; `party.rs:451` speaks of
  2000 ms in all, but nine waits of 200 ms are 1800 ms; `party.rs:508-510` says
  that memory does not grow with the chain, but pruning is of the `SessionMap`
  only, and the `starts` of `metrics.rs` have one entry for each block.

## Plan

Done: the modules, runs and theorems above. Left, in this order:

1. Composition: the committees of `AlephFinality` from `AlephPallet` on every
   branch of the tree, instead of a constant of the block.
2. Agreement where restarts and failing calls meet, but at different nodes,
   which needs restarts counted for each node.
3. An abstract specification of the routing of `ConsensusNetwork`, from which
   the run's invariants follow.

## Not modelled

* Signatures, hashes and encodings as such: a signature is a pair of a node and
  a block.
* The content of AlephBFT and of RMC, Substrate's networking and database: they
  are modelled by what the code relies on.
* `get_data` and the chain the refresher keeps (`data_io.rs:242`): what a member
  proposes is not restricted at all, because faulty members propose anything.
* The width of block numbers and sessions: they are 32 bits, and the arithmetic
  of sessions overflows only within one session of block 2^32.
* The metrics: nothing reads them but the exporter. `create_aleph_config`:
  constants for AlephBFT.
* The reserved sets that `SyncConnected` and `SyncDisconnected` keep for
  Substrate's peer set.
* The lengths of waits in the party (200 and 1000 ms): they end at any time.
* RPC, command line, chain specification and the wiring of the node
  (`src/bin`), but for what a full node does with the handler's channel.
