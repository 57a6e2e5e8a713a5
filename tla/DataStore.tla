----------------------------- MODULE DataStore -----------------------------
(***************************************************************************)
(* The filter between the network and AlephBFT (finality-aleph/src/        *)
(* data_io.rs): a message is passed on to AlephBFT when its node's client  *)
(* has every block the message includes, and is kept until then.           *)
(*                                                                         *)
(* The client is the environment: it imports blocks, finalises, and sends  *)
(* import notifications, some of which never arrive.                       *)
(***************************************************************************)
EXTENDS Integers, FiniteSets, Sequences, SequencesExt

CONSTANTS Hashes, Number,  \* the blocks and their heights
          Messages,
          Included,        \* Included[m]: the data in m, in order, maybe twice
          CacheSize,       \* AVAILABLE_BLOCKS_CACHE_SIZE
          Boundary,        \* MESSAGE_ID_BOUNDARY
          MaxId,           \* bound: messages that have to wait
          MaxReceived      \* bound: arrivals of each message

Data == [hash : Hashes, number : Nat]
Ids == 0..MaxId
NoMessage == "no message"

ASSUME DataStoreAssumption ==
    /\ IsFiniteSet(Hashes) /\ Number \in [Hashes -> Nat]
    /\ NoMessage \notin Messages
    /\ \A m \in Messages : Included[m] \in Seq(Data)
    /\ CacheSize \in Nat \ {0} /\ Boundary \in Nat \ {0}
    /\ MaxId \in Nat /\ MaxReceived \in Nat

VARIABLES imported, finalizedNumber,  \* the client
          notifications,  \* import notifications on their way
          nextId,         \* next_message_id
          dependent,      \* dependent_messages; {} is no entry
          requirements,   \* message_requirements; 0 is no entry
          pending,        \* pending_messages
          cache,          \* available_blocks
          received, forwarded, forgotten  \* history: how often each message was

client == <<imported, finalizedNumber>>
store == <<nextId, dependent, requirements, pending, cache>>
history == <<received, forwarded, forgotten>>
vars == <<client, notifications, store, history>>

\* What can be a key of dependent_messages.
Keys == (UNION {ToSet(Included[m]) : m \in Messages})
        \cup {[hash |-> h, number |-> Number[h]] : h \in Hashes}

TypeOK ==
    /\ imported \in SUBSET Hashes
    /\ finalizedNumber \in Nat
    /\ notifications \in SUBSET Hashes
    /\ nextId \in 0..(MaxId + 1)
    /\ dependent \in [Keys -> SUBSET Ids]
    /\ requirements \in [Ids -> Nat]
    /\ pending \in [Ids -> Messages \cup {NoMessage}]
    /\ cache \in SUBSET Keys
    /\ {received, forwarded, forgotten} \subseteq [Messages -> Nat]

Init ==
    /\ imported = {} /\ finalizedNumber = 0 /\ notifications = {}
    /\ nextId = 0
    /\ dependent = [d \in Keys |-> {}]
    /\ requirements = [i \in Ids |-> 0]
    /\ pending = [i \in Ids |-> NoMessage]
    /\ cache = {}
    /\ received = [m \in Messages |-> 0]
    /\ forwarded = [m \in Messages |-> 0]
    /\ forgotten = [m \in Messages |-> 0]
----------------------------------------------------------------------------
(* The client *)

Import(h) ==
    /\ h \notin imported
    /\ imported' = imported \cup {h}
    /\ notifications' = notifications \cup {h}
    /\ UNCHANGED <<finalizedNumber, store, history>>

Finalize(h) ==
    /\ h \in imported
    /\ Number[h] > finalizedNumber
    /\ finalizedNumber' = Number[h]
    /\ UNCHANGED <<imported, notifications, store, history>>

LoseNotification(h) ==
    /\ h \in notifications
    /\ notifications' = notifications \ {h}
    /\ UNCHANGED <<client, store, history>>
----------------------------------------------------------------------------
(* The store *)

\* The block is in the client, or a block of its claimed number is final.
Available(d) == d.hash \in imported \/ finalizedNumber >= d.number

\* available_blocks.put for each of blocks: the cache then holds as many of
\* the blocks it had and got as it has room for.
Cached(blocks) ==
    {c \in SUBSET (cache \cup blocks) :
        Cardinality(c) = IF Cardinality(cache \cup blocks) =< CacheSize
                         THEN Cardinality(cache \cup blocks) ELSE CacheSize}

\* push_messages for each of blocks: the messages that waited for nothing
\* else are sent.
Satisfied(i, blocks) == Cardinality({d \in blocks : i \in dependent[d]})
\* Mutant: a message is sent one block too early.
ReleasedEarly(blocks) ==
    {i \in Ids : /\ Satisfied(i, blocks) > 0
                 /\ requirements[i] =< Satisfied(i, blocks) + 1}
Released(blocks) ==
    {i \in Ids : /\ Satisfied(i, blocks) > 0
                 /\ requirements[i] = Satisfied(i, blocks)}
Waiting(ids, m) == Cardinality({i \in ids : pending[i] = m})

\* add_block for each of blocks; sent is 1 for a message that is passed on
\* without waiting and 0 for the others.
AddBlocks(blocks, sent) ==
    /\ cache' \in Cached(blocks)
    /\ forwarded' = [m \in Messages |->
                        forwarded[m] + Waiting(Released(blocks), m) + sent[m]]

NotSent == [m \in Messages |-> 0]

\* Mutants: get instead of remove, in dependent_messages and in pending_messages.
PushedAndKept(blocks) == dependent
UnsentAndSent(blocks) == pending

Pushed(blocks) == [d \in Keys |-> IF d \in blocks THEN {} ELSE dependent[d]]
Counted(blocks) == [i \in Ids |-> requirements[i] - Satisfied(i, blocks)]
Unsent(blocks) == [i \in Ids |-> IF i \in Released(blocks) THEN NoMessage ELSE pending[i]]

\* The positions of m's data that are not available: a block that occurs
\* twice is required twice, but can be waited for only once.
Required(m) == {k \in DOMAIN Included[m] :
                   Included[m][k] \notin cache /\ ~Available(Included[m][k])}

\* The blocks of m that add_message adds: the available ones that are not in
\* the cache, or that adding the others has evicted from it.
Found(m) ==
    LET available == {d \in ToSet(Included[m]) : Available(d)}
    IN {blocks \in SUBSET available : available \ cache \subseteq blocks}

\* add_message, when every block of m is available.
PassOn(m, blocks) ==
    /\ Required(m) = {}
    /\ AddBlocks(blocks, [NotSent EXCEPT ![m] = 1])
    /\ dependent' = Pushed(blocks)
    /\ requirements' = Counted(blocks)
    /\ pending' = Unsent(blocks)
    /\ UNCHANGED <<nextId, forgotten>>

\* Mutant: forget_message leaves the message in dependent_messages.
KeepHalfForgotten(m, blocks) ==
    LET required == {Included[m][k] : k \in Required(m)}
        old == nextId - Boundary
    IN /\ Required(m) # {}
       /\ nextId \in Ids
       /\ AddBlocks(blocks, NotSent)
       /\ nextId' = nextId + 1
       /\ dependent' = [d \in Keys |->
             Pushed(blocks)[d] \cup IF d \in required THEN {nextId} ELSE {}]
       /\ requirements' = [i \in Ids |->
             IF i = nextId THEN Cardinality(Required(m))
             ELSE IF i = old THEN 0 ELSE Counted(blocks)[i]]
       /\ pending' = [i \in Ids |->
             IF i = nextId THEN m ELSE IF i = old THEN NoMessage ELSE Unsent(blocks)[i]]
       /\ forgotten' = [n \in Messages |-> forgotten[n] +
             IF old \in Ids /\ Unsent(blocks)[old] = n THEN 1 ELSE 0]

\* Mutant: no message is ever forgotten.
KeepForever(m, blocks) ==
    /\ Required(m) # {}
    /\ nextId \in Ids
    /\ AddBlocks(blocks, NotSent)
    /\ nextId' = nextId + 1
    /\ dependent' = [d \in Keys |->
          Pushed(blocks)[d] \cup
          IF \E k \in Required(m) : d = Included[m][k] THEN {nextId} ELSE {}]
    /\ requirements' = [Counted(blocks) EXCEPT ![nextId] = Cardinality(Required(m))]
    /\ pending' = [Unsent(blocks) EXCEPT ![nextId] = m]
    /\ UNCHANGED forgotten

\* add_message, add_pending_message and, for the message that came Boundary
\* waiting messages earlier, forget_message.
Keep(m, blocks) ==
    LET required == {Included[m][k] : k \in Required(m)}
        old == nextId - Boundary
    IN /\ Required(m) # {}
       /\ nextId \in Ids
       /\ AddBlocks(blocks, NotSent)
       /\ nextId' = nextId + 1
       /\ dependent' = [d \in Keys |->
             (Pushed(blocks)[d] \cup IF d \in required THEN {nextId} ELSE {}) \ {old}]
       /\ requirements' = [i \in Ids |->
             IF i = nextId THEN Cardinality(Required(m))
             ELSE IF i = old THEN 0 ELSE Counted(blocks)[i]]
       /\ pending' = [i \in Ids |->
             IF i = nextId THEN m ELSE IF i = old THEN NoMessage ELSE Unsent(blocks)[i]]
       /\ forgotten' = [n \in Messages |-> forgotten[n] +
             IF old \in Ids /\ Unsent(blocks)[old] = n THEN 1 ELSE 0]

ReceiveMessage(m) ==
    /\ received[m] < MaxReceived
    /\ received' = [received EXCEPT ![m] = @ + 1]
    /\ \E blocks \in Found(m) : PassOn(m, blocks) \/ Keep(m, blocks)
    /\ UNCHANGED <<client, notifications>>

\* add_block on its own.
Add(blocks) ==
    /\ AddBlocks(blocks, NotSent)
    /\ dependent' = Pushed(blocks)
    /\ requirements' = Counted(blocks)
    /\ pending' = Unsent(blocks)
    /\ UNCHANGED <<client, nextId, received, forgotten>>

BlockNotification(h) ==
    /\ h \in notifications
    /\ notifications' = notifications \ {h}
    /\ Add({[hash |-> h, number |-> Number[h]]})

\* Mutant: only the imported ones.
MaintenanceOfImported ==
    /\ Add({d \in Keys : dependent[d] # {} /\ d.hash \in imported})
    /\ UNCHANGED notifications

\* Every minute: the blocks waited for that have become available.
Maintenance ==
    /\ Add({d \in Keys : dependent[d] # {} /\ Available(d)})
    /\ UNCHANGED notifications

Next ==
    \/ \E h \in Hashes : Import(h) \/ Finalize(h)
                         \/ LoseNotification(h) \/ BlockNotification(h)
    \/ \E m \in Messages : ReceiveMessage(m)
    \/ Maintenance

\* The maintenance timer goes off again and again.
Spec == Init /\ [][Next]_vars /\ WF_vars(Maintenance)
----------------------------------------------------------------------------
(* Properties *)

Awaited(i) == {d \in Keys : i \in dependent[d]}

\* Neither of the two expect()s of push_messages can fail: a message somebody
\* waits for is pending, and requires no fewer blocks than it waits for.
NoPanic ==
    \A i \in Ids : Awaited(i) # {} =>
        pending[i] # NoMessage /\ requirements[i] >= Cardinality(Awaited(i))

\* A message received is passed on, pending, or was forgotten: exactly one of
\* them, once for each arrival.
Conservation ==
    \A m \in Messages : received[m] = forwarded[m] + Waiting(Ids, m) + forgotten[m]

\* Only messages younger than the boundary are remembered, and nothing
\* of the others is left in any of the three maps.
OldAreForgotten ==
    \A i \in Ids :
        \/ pending[i] # NoMessage /\ i + Boundary >= nextId /\ i < nextId
        \/ pending[i] = NoMessage /\ requirements[i] = 0 /\ Awaited(i) = {}

\* A message is passed on only when all its data are available, though the
\* store looks at each datum once, at different times.
ForwardsAvailable ==
    [][\A m \in Messages : forwarded'[m] > forwarded[m] =>
          \A k \in DOMAIN Included[m] : Available(Included[m][k])]_vars

\* A message that waits is sent or forgotten once its blocks are available,
\* whichever notifications are lost: the periodic check finds it.  This holds
\* of messages in which no block is repeated.
AvailableAreForwarded ==
    \A i \in Ids, m \in Messages :
        (/\ pending[i] = m
         /\ \A k \in DOMAIN Included[m] : Available(Included[m][k]))
        ~> pending[i] = NoMessage
=============================================================================
