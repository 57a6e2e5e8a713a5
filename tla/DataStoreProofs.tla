--------------------------- MODULE DataStoreProofs ---------------------------
(***************************************************************************)
(* The data store loses no message and never panics, for all blocks, all   *)
(* messages with any data in them, and every boundary and cache size.      *)
(***************************************************************************)
EXTENDS DataStore, FiniteSetTheorems, TLAPS

\* A block the client notifies of is imported, and only available blocks are
\* cached.
Delivered == notifications \subseteq imported
CachedAreAvailable == \A d \in cache : Available(d)

\* A pending message is younger than the boundary, requires no fewer blocks
\* than it waits for, and waits for all its data that are not available.
KeptAt(i) ==
    /\ pending[i] # NoMessage
    /\ i < nextId /\ nextId =< i + Boundary
    /\ IsFiniteSet(Awaited(i))
    /\ Cardinality(Awaited(i)) =< requirements[i]
    /\ \A k \in DOMAIN Included[pending[i]] :
          Included[pending[i]][k] \in Awaited(i) \/ Available(Included[pending[i]][k])

\* Nothing is left of a message that is not pending.
BlankAt(i) == pending[i] = NoMessage /\ requirements[i] = 0 /\ Awaited(i) = {}

StoreInv ==
    /\ Delivered
    /\ CachedAreAvailable
    /\ \A i \in Ids : KeptAt(i) \/ BlankAt(i)

\* What is available stays so.
LEMMA AvailableStays ==
    ASSUME imported \subseteq imported', finalizedNumber \in Nat, finalizedNumber' \in Nat,
           finalizedNumber =< finalizedNumber',
           NEW d \in Data, Available(d)
    PROVE  Available(d)'
BY DEF Available, Data

\* The data of a message are keys of dependent_messages.
LEMMA DataAreKeys ==
    /\ Keys \subseteq Data
    /\ \A m \in Messages : \A k \in DOMAIN Included[m] :
          Included[m][k] \in Keys /\ Included[m][k] \in ToSet(Included[m])
    /\ \A m \in Messages : ToSet(Included[m]) \subseteq Keys
    /\ \A h \in Hashes : [hash |-> h, number |-> Number[h]] \in Keys
<1>1. \A m \in Messages : Included[m] \in Seq(Data)
    BY DataStoreAssumption
<1>2. \A m \in Messages : ToSet(Included[m]) \subseteq Data
    BY <1>1 DEF ToSet
<1>3. \A h \in Hashes : [hash |-> h, number |-> Number[h]] \in Data
    BY DataStoreAssumption DEF Data
<1> DEFINE N == {[hash |-> h, number |-> Number[h]] : h \in Hashes}
           U == UNION {ToSet(Included[m]) : m \in Messages}
<1>k. Keys = U \cup N
    BY DEF Keys
<1>4. Keys \subseteq Data
    <2>1. N \subseteq Data
        BY <1>3
    <2>2. U \subseteq Data
        BY <1>2
    <2> QED
        BY <1>k, <2>1, <2>2
<1>5. \A m \in Messages : ToSet(Included[m]) \subseteq Keys
    BY DEF Keys
<1>6. \A m \in Messages : \A k \in DOMAIN Included[m] : Included[m][k] \in ToSet(Included[m])
    BY DEF ToSet
<1>7. \A h \in Hashes : [hash |-> h, number |-> Number[h]] \in Keys
    <2>1. \A h \in Hashes : [hash |-> h, number |-> Number[h]] \in N
        OBVIOUS
    <2> QED
        BY <1>k, <2>1
<1> QED
    BY <1>4, <1>5, <1>6, <1>7

\* What adding blocks does to a message: it loses the blocks it waited for,
\* and is sent when it waited for no others.
LEMMA AddedAt ==
    ASSUME TypeOK, NEW blocks \in SUBSET Keys, NEW i \in Ids, KeptAt(i) \/ BlankAt(i)
    PROVE  /\ Satisfied(i, blocks) \in Nat
           /\ Counted(blocks)[i] \in Nat
           /\ {d \in Keys : i \in Pushed(blocks)[d]} = Awaited(i) \ blocks
           /\ i \in Released(blocks) =>
                 /\ KeptAt(i) /\ Awaited(i) \subseteq blocks
                 /\ Unsent(blocks)[i] = NoMessage /\ Counted(blocks)[i] = 0
           /\ i \notin Released(blocks) =>
                 /\ Unsent(blocks)[i] = pending[i]
                 /\ IsFiniteSet(Awaited(i) \ blocks)
                 /\ Cardinality(Awaited(i) \ blocks) =< Counted(blocks)[i]
                 /\ BlankAt(i) => Counted(blocks)[i] = 0
<1> DEFINE a == Awaited(i)
           s == a \cap blocks
<1>1. {d \in blocks : i \in dependent[d]} = s
    BY DEF Awaited
<1>2. {d \in Keys : i \in Pushed(blocks)[d]} = a \ blocks
    BY DEF Pushed, Awaited
<1>3. IsFiniteSet(a) /\ Cardinality(a) =< requirements[i]
    <2>1. CASE KeptAt(i)
        BY <2>1 DEF KeptAt
    <2>2. CASE BlankAt(i)
        <3>1. a = {} /\ requirements[i] = 0
            BY <2>2 DEF BlankAt
        <3> QED
            BY <3>1, FS_EmptySet
    <2> QED
        BY <2>1, <2>2
<1>4. /\ IsFiniteSet(s) /\ IsFiniteSet(a \ s) /\ Cardinality(a) \in Nat
      /\ Cardinality(s) \in Nat /\ Cardinality(a \ s) \in Nat
    BY <1>3, FS_Subset, FS_CardinalityType
<1>5. Cardinality(a) = Cardinality(s) + Cardinality(a \ s)
    <2>1. s \cup (a \ s) = a /\ s \cap (a \ s) = {}
        OBVIOUS
    <2>2. Cardinality(s \cup (a \ s)) =
             Cardinality(s) + Cardinality(a \ s) - Cardinality(s \cap (a \ s))
        BY <1>4, FS_Union
    <2>3. Cardinality(s \cap (a \ s)) = 0
        BY <2>1, FS_EmptySet
    <2> HIDE DEF a, s
    <2> QED
        BY <1>4, <2>1, <2>2, <2>3
<1>6. Satisfied(i, blocks) = Cardinality(s)
    BY <1>1 DEF Satisfied
<1>7. requirements[i] \in Nat /\ Counted(blocks)[i] = requirements[i] - Satisfied(i, blocks)
    BY DEF TypeOK, Counted
<1>8. a \ s = a \ blocks
    OBVIOUS
<1>9. /\ Counted(blocks)[i] \in Nat /\ Cardinality(a \ blocks) =< Counted(blocks)[i]
    <2>1. Cardinality(a \ blocks) = Cardinality(a \ s)
        BY <1>8
    <2> HIDE DEF a, s
    <2> QED
        BY <1>3, <1>4, <1>5, <1>6, <1>7, <2>1
<1>10. ASSUME i \in Released(blocks)
       PROVE  /\ KeptAt(i) /\ a \subseteq blocks
              /\ Unsent(blocks)[i] = NoMessage /\ Counted(blocks)[i] = 0
    <2>1. Cardinality(s) > 0 /\ requirements[i] = Cardinality(s)
        BY <1>6, <1>10 DEF Released
    <2>2. ~BlankAt(i)
        BY <2>1 DEF BlankAt
    <2>3. Cardinality(a \ s) = 0
        BY <2>1, <1>3, <1>4, <1>5
    <2>4. a \ s = {}
        BY <2>3, <1>4, FS_EmptySet
    <2> QED
        BY <2>1, <2>2, <2>4, <1>4, <1>6, <1>7, <1>10 DEF Unsent
<1>11. ASSUME i \notin Released(blocks)
       PROVE  /\ Unsent(blocks)[i] = pending[i]
              /\ BlankAt(i) => Counted(blocks)[i] = 0
    <2>1. BlankAt(i) => s = {} /\ requirements[i] = 0
        BY DEF BlankAt
    <2> QED
        BY <1>6, <1>7, <1>11, <2>1, FS_EmptySet DEF Unsent
<1> QED
    BY <1>2, <1>4, <1>6, <1>8, <1>9, <1>10, <1>11

\* So each message stays pending as it should, or is gone, where nothing but
\* the blocks is taken from it.
LEMMA AddedInv ==
    ASSUME TypeOK, NEW blocks \in SUBSET Keys, \A d \in blocks : Available(d),
           NEW i \in Ids, KeptAt(i) \/ BlankAt(i), UNCHANGED client,
           Awaited(i)' = Awaited(i) \ blocks,
           pending'[i] = Unsent(blocks)[i], requirements'[i] = Counted(blocks)[i],
           KeptAt(i) => i < nextId' /\ nextId' =< i + Boundary
    PROVE  KeptAt(i)' \/ BlankAt(i)'
<1>1. CASE i \in Released(blocks)
    <2>1. Awaited(i) \subseteq blocks /\ pending'[i] = NoMessage /\ requirements'[i] = 0
        BY <1>1, AddedAt
    <2> QED
        BY <2>1 DEF BlankAt
<1>2. CASE i \notin Released(blocks)
    <2>1. /\ pending'[i] = pending[i]
          /\ IsFiniteSet(Awaited(i)') /\ Cardinality(Awaited(i)') =< requirements'[i]
          /\ BlankAt(i) => requirements'[i] = 0
        BY <1>2, AddedAt
    <2>2. CASE BlankAt(i)
        BY <2>1, <2>2 DEF BlankAt
    <2>3. CASE KeptAt(i)
        <3>1. PICK m : m = pending[i]
            OBVIOUS
        <3>2. ASSUME NEW k \in DOMAIN Included[m]
              PROVE  Included[m][k] \in Awaited(i)' \/ Available(Included[m][k])'
            <4>1. Included[m][k] \in Awaited(i) \/ Available(Included[m][k])
                BY <2>3, <3>1, <3>2 DEF KeptAt
            <4> QED
                BY <4>1 DEF Available, client
        <3>3. \A k \in DOMAIN Included[pending'[i]] :
                 \/ Included[pending'[i]][k] \in Awaited(i)'
                 \/ Available(Included[pending[i]][k])'
            BY <2>1, <3>1, <3>2 DEF Available
        <3> QED
            BY <2>1, <2>3, <3>3 DEF KeptAt
    <2> QED
        BY <2>2, <2>3
<1> QED
    BY <1>1, <1>2

\* The cache and the count of messages sent, when blocks are added.
LEMMA AddBlocksType ==
    ASSUME TypeOK, CachedAreAvailable, NEW blocks \in SUBSET Keys,
           \A d \in blocks : Available(d), NEW sent \in [Messages -> Nat],
           AddBlocks(blocks, sent), UNCHANGED client
    PROVE  cache' \in SUBSET Keys /\ CachedAreAvailable'
<1>1. cache' \subseteq cache \cup blocks
    BY DEF AddBlocks, Cached
<1>2. ASSUME NEW d, Available(d) PROVE Available(d)'
    BY <1>2 DEF Available, client
<1> QED
    BY <1>1, <1>2 DEF TypeOK, CachedAreAvailable

\* How many messages wait is counted by numbers, and those sent wait no more.
LEMMA WaitingAfter ==
    ASSUME TypeOK, NEW blocks \in SUBSET Keys, NEW m \in Messages
    PROVE  /\ Waiting(Ids, m) \in Nat /\ Waiting(Released(blocks), m) \in Nat
           /\ IsFiniteSet({i \in Ids : Unsent(blocks)[i] = m})
           /\ Cardinality({i \in Ids : Unsent(blocks)[i] = m}) \in Nat
           /\ Waiting(Ids, m) = Cardinality({i \in Ids : Unsent(blocks)[i] = m})
                                + Waiting(Released(blocks), m)
<1> DEFINE w == {i \in Ids : pending[i] = m}
           r == {i \in Released(blocks) : pending[i] = m}
           u == {i \in Ids : Unsent(blocks)[i] = m}
<1>1. IsFiniteSet(Ids)
    BY DataStoreAssumption, FS_Interval DEF Ids
<1>2. /\ IsFiniteSet(w) /\ IsFiniteSet(r) /\ IsFiniteSet(u)
      /\ Cardinality(w) \in Nat /\ Cardinality(r) \in Nat /\ Cardinality(u) \in Nat
    <2>1. w \in SUBSET Ids /\ r \in SUBSET Ids /\ u \in SUBSET Ids
        BY DEF Released
    <2> QED
        BY <1>1, <2>1, FS_Subset, FS_CardinalityType
<1>3. w = u \cup r /\ u \cap r = {}
    BY DataStoreAssumption DEF Unsent, Released
<1>4. Cardinality(u \cup r) = Cardinality(u) + Cardinality(r) - Cardinality(u \cap r)
    BY <1>2, FS_Union
<1>5. Cardinality(u \cap r) = 0
    BY <1>3, FS_EmptySet
<1>6. Cardinality(w) = Cardinality(u) + Cardinality(r)
    <2> HIDE DEF w, u, r
    <2> QED
        BY <1>2, <1>3, <1>4, <1>5
<1> QED
    BY <1>2, <1>6 DEF Waiting

\* A message that leaves with the blocks added has all its data.
LEMMA SentAreAvailable ==
    ASSUME TypeOK, StoreInv, NEW blocks \in SUBSET Keys, \A d \in blocks : Available(d),
           NEW m \in Messages, Waiting(Released(blocks), m) # 0
    PROVE  \A k \in DOMAIN Included[m] : Available(Included[m][k])
<1>1. {i \in Released(blocks) : pending[i] = m} # {}
    BY FS_EmptySet DEF Waiting
<1>2. PICK i \in Ids : i \in Released(blocks) /\ pending[i] = m
    BY <1>1 DEF Released
<1>3. KeptAt(i) /\ Awaited(i) \subseteq blocks
    BY <1>2, AddedAt DEF StoreInv
<1> QED
    BY <1>2, <1>3 DEF KeptAt

\* The counts when blocks are added.
LEMMA AddBlocksCounts ==
    ASSUME TypeOK, StoreInv, NEW blocks \in SUBSET Keys, \A d \in blocks : Available(d),
           NEW sent \in [Messages -> Nat], AddBlocks(blocks, sent)
    PROVE  /\ forwarded' \in [Messages -> Nat]
           /\ \A m \in Messages :
                 /\ forwarded'[m] = forwarded[m] + Waiting(Released(blocks), m) + sent[m]
                 /\ \/ forwarded'[m] = forwarded[m] \/ sent[m] > 0
                    \/ \A k \in DOMAIN Included[m] : Available(Included[m][k])
<1>1. forwarded \in [Messages -> Nat]
    BY DEF TypeOK
<1>2. forwarded' = [m \in Messages |-> forwarded[m] + Waiting(Released(blocks), m) + sent[m]]
    BY DEF AddBlocks
<1>3. \A m \in Messages : Waiting(Released(blocks), m) \in Nat
    BY WaitingAfter
<1>4. ASSUME NEW m \in Messages
      PROVE  /\ forwarded'[m] \in Nat
             /\ forwarded'[m] = forwarded[m] + Waiting(Released(blocks), m) + sent[m]
             /\ Waiting(Released(blocks), m) = 0 /\ sent[m] = 0 => forwarded'[m] = forwarded[m]
    BY <1>1, <1>2, <1>3
<1>5. ASSUME NEW m \in Messages
      PROVE  \/ forwarded'[m] = forwarded[m] \/ sent[m] > 0
             \/ \A k \in DOMAIN Included[m] : Available(Included[m][k])
    <2>1. CASE Waiting(Released(blocks), m) # 0
        BY <2>1, SentAreAvailable
    <2>2. CASE Waiting(Released(blocks), m) = 0 /\ sent[m] = 0
        BY <2>2, <1>4
    <2>3. CASE sent[m] # 0
        BY <2>3
    <2> QED
        BY <2>1, <2>2, <2>3
<1> QED
    BY <1>2, <1>4, <1>5

\* What a step that hands over sent[m] copies of m does to the balance of
\* messages.
Balanced(sent) ==
    \A m \in Messages :
        /\ forwarded'[m] + Waiting(Ids, m)' + forgotten'[m] =
              forwarded[m] + Waiting(Ids, m) + forgotten[m] + sent[m]
        /\ forwarded'[m] > forwarded[m] =>
              \A k \in DOMAIN Included[m] : Available(Included[m][k])

\* add_block, and add_message of a message that need not wait.
LEMMA Adds ==
    ASSUME TypeOK, StoreInv, NEW blocks \in SUBSET Keys, \A d \in blocks : Available(d),
           NEW sent \in [Messages -> Nat], AddBlocks(blocks, sent),
           \A m \in Messages : sent[m] > 0 =>
               \A k \in DOMAIN Included[m] : Available(Included[m][k]),
           dependent' = Pushed(blocks), requirements' = Counted(blocks),
           pending' = Unsent(blocks), UNCHANGED <<client, nextId, forgotten>>,
           notifications' \subseteq notifications, received' \in [Messages -> Nat]
    PROVE  TypeOK' /\ StoreInv' /\ Balanced(sent)
<1>1. cache' \in SUBSET Keys /\ CachedAreAvailable'
    BY AddBlocksType DEF StoreInv
<1>2. forwarded' \in [Messages -> Nat]
    BY AddBlocksCounts
<1>3. requirements' \in [Ids -> Nat]
    <2>1. \A i \in Ids : Counted(blocks)[i] \in Nat
        BY AddedAt DEF StoreInv
    <2>2. Counted(blocks) = [i \in Ids |-> Counted(blocks)[i]]
        BY DEF Counted
    <2> QED
        BY <2>1, <2>2
<1>4. dependent' \in [Keys -> SUBSET Ids]
    BY DEF Pushed, TypeOK
<1>5. pending' \in [Ids -> Messages \cup {NoMessage}]
    BY DEF Unsent, TypeOK
<1>6. TypeOK'
    BY <1>1, <1>2, <1>3, <1>4, <1>5 DEF TypeOK, client
<1>7. ASSUME NEW i \in Ids PROVE KeptAt(i)' \/ BlankAt(i)'
    <2>1. Awaited(i)' = Awaited(i) \ blocks
        <3>1. Awaited(i)' = {d \in Keys : i \in Pushed(blocks)[d]}
            BY DEF Awaited
        <3> QED
            BY <3>1, AddedAt DEF StoreInv
    <2> QED
        BY <2>1, AddedInv DEF StoreInv, KeptAt
<1>8. StoreInv'
    BY <1>1, <1>7 DEF StoreInv, Delivered, client
<1>9. ASSUME NEW m \in Messages
      PROVE  forwarded'[m] + Waiting(Ids, m)' + forgotten'[m] =
                forwarded[m] + Waiting(Ids, m) + forgotten[m] + sent[m]
    <2>1. Waiting(Ids, m)' = Cardinality({i \in Ids : Unsent(blocks)[i] = m})
        BY DEF Waiting
    <2>2. /\ Waiting(Ids, m)' \in Nat /\ Waiting(Released(blocks), m) \in Nat
          /\ Waiting(Ids, m) = Waiting(Ids, m)' + Waiting(Released(blocks), m)
        BY <2>1, WaitingAfter
    <2>3. forwarded'[m] = forwarded[m] + Waiting(Released(blocks), m) + sent[m]
        BY AddBlocksCounts
    <2>4. forwarded[m] \in Nat /\ forgotten[m] \in Nat /\ forgotten'[m] = forgotten[m]
        BY DEF TypeOK
    <2> QED
        BY <2>2, <2>3, <2>4
<1>10. ASSUME NEW m \in Messages, forwarded'[m] > forwarded[m]
       PROVE  \A k \in DOMAIN Included[m] : Available(Included[m][k])
    <2>1. forwarded[m] \in Nat
        BY DEF TypeOK
    <2>2. forwarded'[m] # forwarded[m]
        BY <1>10, <2>1
    <2> QED
        BY <2>2, AddBlocksCounts
<1> QED
    BY <1>6, <1>8, <1>9, <1>10 DEF Balanced

\* The data a message has to wait for: its positions are no fewer than they.
LEMMA RequiredData ==
    ASSUME NEW m \in Messages
    PROVE  LET required == {Included[m][k] : k \in Required(m)}
           IN /\ required \subseteq Keys /\ IsFiniteSet(required)
              /\ Cardinality(required) \in Nat /\ Cardinality(Required(m)) \in Nat
              /\ Cardinality(required) =< Cardinality(Required(m))
<1> DEFINE required == {Included[m][k] : k \in Required(m)}
           f == [k \in Required(m) |-> Included[m][k]]
<1>1. IsFiniteSet(Required(m))
    <2>1. DOMAIN Included[m] = 1..Len(Included[m]) /\ Len(Included[m]) \in Nat
        BY DataStoreAssumption
    <2>2. Required(m) \in SUBSET (1..Len(Included[m]))
        BY <2>1 DEF Required
    <2>3. IsFiniteSet(1..Len(Included[m]))
        BY <2>1, FS_Interval
    <2> QED
        BY <2>2, <2>3, FS_Subset
<1>2. f \in Surjection(Required(m), required)
    BY DEF Surjection
<1>3. IsFiniteSet(required) /\ Cardinality(required) =< Cardinality(Required(m))
    BY <1>1, <1>2, FS_Surjection
<1>4. required \subseteq Keys
    BY DataAreKeys DEF Required
<1> QED
    BY <1>1, <1>3, <1>4, FS_CardinalityType

\* add_message of a message that has to wait.
LEMMA Keeps ==
    ASSUME TypeOK, StoreInv, NEW m \in Messages, NEW blocks \in SUBSET Keys,
           \A d \in blocks : Available(d), Keep(m, blocks), UNCHANGED client,
           notifications' \subseteq notifications, received' \in [Messages -> Nat]
    PROVE  TypeOK' /\ StoreInv'
<1> DEFINE required == {Included[m][k] : k \in Required(m)}
           old == nextId - Boundary
<1>1. /\ nextId \in Ids /\ nextId \in Nat /\ nextId' = nextId + 1
      /\ Boundary \in Nat \ {0} /\ MaxId \in Nat /\ old # nextId /\ old \in Int
    BY DataStoreAssumption DEF Keep, TypeOK, Ids
<1>2. /\ required \subseteq Keys /\ IsFiniteSet(required) /\ Cardinality(required) \in Nat
      /\ Cardinality(Required(m)) \in Nat /\ Cardinality(required) =< Cardinality(Required(m))
    BY RequiredData
<1>3. /\ dependent' = [d \in Keys |->
             (Pushed(blocks)[d] \cup IF d \in required THEN {nextId} ELSE {}) \ {old}]
      /\ requirements' = [i \in Ids |->
             IF i = nextId THEN Cardinality(Required(m))
             ELSE IF i = old THEN 0 ELSE Counted(blocks)[i]]
      /\ pending' = [i \in Ids |->
             IF i = nextId THEN m ELSE IF i = old THEN NoMessage ELSE Unsent(blocks)[i]]
      /\ forgotten' = [n \in Messages |-> forgotten[n] +
             IF old \in Ids /\ Unsent(blocks)[old] = n THEN 1 ELSE 0]
    BY DEF Keep
<1>4. AddBlocks(blocks, NotSent) /\ NotSent \in [Messages -> Nat]
    BY DEF Keep, NotSent
<1>5. cache' \in SUBSET Keys /\ CachedAreAvailable'
    BY <1>4, AddBlocksType DEF StoreInv
<1>6. forwarded' \in [Messages -> Nat]
    BY <1>4, AddBlocksCounts
<1>7. ASSUME NEW i \in Ids
      PROVE  /\ Counted(blocks)[i] \in Nat
             /\ {d \in Keys : i \in Pushed(blocks)[d]} = Awaited(i) \ blocks
    BY AddedAt DEF StoreInv
<1>8. TypeOK'
    <2>1. dependent' \in [Keys -> SUBSET Ids]
        <3>1. \A d \in Keys : Pushed(blocks)[d] \in SUBSET Ids
            BY DEF Pushed, TypeOK
        <3> QED
            BY <1>1, <1>3, <3>1
    <2>2. requirements' \in [Ids -> Nat]
        BY <1>2, <1>3, <1>7
    <2>3. pending' \in [Ids -> Messages \cup {NoMessage}]
        <3>1. \A i \in Ids : Unsent(blocks)[i] \in Messages \cup {NoMessage}
            BY DEF Unsent, TypeOK
        <3> QED
            BY <1>3, <3>1
    <2>4. forgotten' \in [Messages -> Nat]
        BY <1>3 DEF TypeOK
    <2>5. nextId' \in 0..(MaxId + 1)
        BY <1>1 DEF Ids
    <2> QED
        BY <1>5, <1>6, <2>1, <2>2, <2>3, <2>4, <2>5 DEF TypeOK, client
<1>9. BlankAt(nextId)
    BY <1>1 DEF StoreInv, KeptAt
<1>10. ASSUME NEW i \in Ids, i = nextId PROVE KeptAt(i)'
    <2>1. Awaited(i) \ blocks = {}
        BY <1>9, <1>10 DEF BlankAt
    <2>2. ASSUME NEW d \in Keys PROVE i \in dependent'[d] <=> d \in required
        BY <1>1, <1>3, <1>7, <1>10, <2>1, <2>2
    <2>4. Awaited(i)' = required
        BY <1>2, <2>2 DEF Awaited
    <2>5. pending'[i] = m /\ requirements'[i] = Cardinality(Required(m)) /\ m # NoMessage
        BY <1>1, <1>3, <1>10, DataStoreAssumption
    <2>6. ASSUME NEW k \in DOMAIN Included[m]
          PROVE  Included[m][k] \in required \/ Available(Included[m][k])'
        <3>1. \/ k \in Required(m) \/ Included[m][k] \in cache \/ Available(Included[m][k])
            BY DEF Required
        <3>2. k \in Required(m) \/ Available(Included[m][k])
            BY <3>1 DEF StoreInv, CachedAreAvailable
        <3> QED
            BY <3>2 DEF Available, client
    <2>7. i < nextId' /\ nextId' =< i + Boundary
        BY <1>1, <1>10
    <2> QED
        <3>1. \A k \in DOMAIN Included[pending'[i]] :
                 \/ Included[pending'[i]][k] \in Awaited(i)'
                 \/ Available(Included[pending[i]][k])'
            BY <2>4, <2>5, <2>6 DEF Available
        <3> QED
            BY <1>2, <2>4, <2>5, <2>7, <3>1 DEF KeptAt
<1>11. ASSUME NEW i \in Ids, i # nextId, i # old
       PROVE  KeptAt(i)' \/ BlankAt(i)'
    <2>1. \A d \in Keys : i \in dependent'[d] <=> i \in Pushed(blocks)[d]
        BY <1>3, <1>11
    <2>2. Awaited(i)' = Awaited(i) \ blocks
        BY <1>7, <2>1 DEF Awaited
    <2>3. pending'[i] = Unsent(blocks)[i] /\ requirements'[i] = Counted(blocks)[i]
        BY <1>3, <1>11
    <2>4. KeptAt(i) => i < nextId' /\ nextId' =< i + Boundary
        BY <1>1, <1>11 DEF KeptAt, Ids
    <2> QED
        BY <2>2, <2>3, <2>4, AddedInv DEF StoreInv
<1>12. ASSUME NEW i \in Ids, i = old PROVE BlankAt(i)'
    BY <1>1, <1>3, <1>12 DEF BlankAt, Awaited
<1>13. ASSUME NEW i \in Ids PROVE KeptAt(i)' \/ BlankAt(i)'
    BY <1>10, <1>11, <1>12, <1>13
<1> QED
    BY <1>5, <1>8, <1>13 DEF StoreInv, Delivered, client

\* A message that is kept is pending, and the one that is forgotten for it is
\* counted as such.
LEMMA KeepsBalance ==
    ASSUME TypeOK, StoreInv, NEW m \in Messages, NEW blocks \in SUBSET Keys,
           \A d \in blocks : Available(d), Keep(m, blocks)
    PROVE  Balanced([NotSent EXCEPT ![m] = 1])
<1> DEFINE old == nextId - Boundary
<1>1. AddBlocks(blocks, NotSent) /\ NotSent \in [Messages -> Nat]
    BY DEF Keep, NotSent
<1>2. ASSUME NEW n \in Messages
      PROVE  /\ forwarded'[n] = forwarded[n] + Waiting(Released(blocks), n)
             /\ forwarded[n] \in Nat /\ forgotten[n] \in Nat /\ forwarded'[n] \in Nat
             /\ forwarded'[n] > forwarded[n] =>
                   \A k \in DOMAIN Included[n] : Available(Included[n][k])
    <2>1. forwarded[n] \in Nat /\ forgotten[n] \in Nat
        BY DEF TypeOK
    <2>2. NotSent[n] = 0
        BY DEF NotSent
    <2>3. Waiting(Released(blocks), n) \in Nat
        BY WaitingAfter
    <2> QED
        BY <1>1, <2>1, <2>2, <2>3, AddBlocksCounts
<1>3. nextId \in Ids /\ old # nextId
    BY DataStoreAssumption DEF Keep, TypeOK, Ids
<1>4. Unsent(blocks)[nextId] = NoMessage
    <2>1. BlankAt(nextId)
        BY <1>3 DEF StoreInv, KeptAt, Ids
    <2> QED
        BY <1>3, <2>1 DEF BlankAt, Unsent
<1>5. ASSUME NEW n \in Messages
      PROVE  forwarded'[n] + Waiting(Ids, n)' + forgotten'[n] =
                forwarded[n] + Waiting(Ids, n) + forgotten[n] + [NotSent EXCEPT ![m] = 1][n]
    <2> DEFINE u == {i \in Ids : Unsent(blocks)[i] = n}
               w == {i \in Ids : pending'[i] = n}
               lost == IF old \in Ids /\ Unsent(blocks)[old] = n THEN 1 ELSE 0
               new == IF n = m THEN 1 ELSE 0
    <2>1. /\ IsFiniteSet(u) /\ Cardinality(u) \in Nat /\ Waiting(Released(blocks), n) \in Nat
          /\ Waiting(Ids, n) = Cardinality(u) + Waiting(Released(blocks), n)
        BY WaitingAfter
    <2>2. w = IF n = m THEN (u \ {old}) \cup {nextId} ELSE u \ {old}
        <3>1. pending' = [i \in Ids |-> IF i = nextId THEN m
                             ELSE IF i = old THEN NoMessage ELSE Unsent(blocks)[i]]
            BY DEF Keep
        <3>2. \A i \in Ids : pending'[i] = n <=>
                  IF i = nextId THEN n = m ELSE i # old /\ Unsent(blocks)[i] = n
            BY <3>1, DataStoreAssumption
        <3>3. \A i \in Ids : i \in u => i # nextId
            BY <1>4, DataStoreAssumption
        <3> QED
            BY <1>3, <3>2, <3>3
    <2>3. nextId \notin u /\ (old \in u <=> old \in Ids /\ Unsent(blocks)[old] = n)
        BY <1>4, DataStoreAssumption
    <2>4. IsFiniteSet(u \ {old}) /\ Cardinality(u) = Cardinality(u \ {old}) + lost
          /\ Cardinality(u \ {old}) \in Nat
        <3>1. /\ IsFiniteSet(u \ {old})
              /\ Cardinality(u \ {old}) = IF old \in u THEN Cardinality(u) - 1 ELSE Cardinality(u)
            BY <2>1, FS_RemoveElement
        <3>2. Cardinality(u \ {old}) \in Nat
            BY <3>1, FS_CardinalityType
        <3> HIDE DEF u
        <3> QED
            BY <2>1, <2>3, <3>1, <3>2
    <2>5. Cardinality(w) = Cardinality(u \ {old}) + new
        <3>1. Cardinality((u \ {old}) \cup {nextId}) = Cardinality(u \ {old}) + 1
            BY <2>3, <2>4, FS_AddElement
        <3>2. CASE n = m
            BY <2>2, <3>1, <3>2
        <3>3. CASE n # m
            BY <2>2, <2>4, <3>3
        <3> QED
            BY <3>2, <3>3
    <2>6. Waiting(Ids, n)' = Cardinality(w)
        BY DEF Waiting
    <2>7. forgotten'[n] = forgotten[n] + lost /\ [NotSent EXCEPT ![m] = 1][n] = new
        BY DEF Keep, NotSent
    <2>8. lost \in Nat /\ new \in Nat
        OBVIOUS
    <2> HIDE DEF u, w, lost, new
    <2> QED
        BY <1>2, <2>1, <2>4, <2>5, <2>6, <2>7, <2>8
<1> QED
    BY <1>2, <1>5 DEF Balanced
-----------------------------------------------------------------------------
(* The theorems *)

\* Blocks that a step adds are keys, and available.
LEMMA FoundAreAvailable ==
    ASSUME NEW m \in Messages, NEW blocks \in Found(m)
    PROVE  blocks \in SUBSET Keys /\ \A d \in blocks : Available(d)
BY DataAreKeys DEF Found

LEMMA InitStore == Init => TypeOK /\ StoreInv /\ Conservation
<1> SUFFICES ASSUME Init PROVE TypeOK /\ StoreInv /\ Conservation
    OBVIOUS
<1>1. TypeOK
    BY DataStoreAssumption DEF Init, TypeOK
<1>2. StoreInv
    BY DEF Init, StoreInv, Delivered, CachedAreAvailable, BlankAt, Awaited
<1>3. ASSUME NEW m \in Messages PROVE Waiting(Ids, m) = 0
    <2>1. {i \in Ids : pending[i] = m} = {}
        BY DataStoreAssumption DEF Init
    <2> QED
        BY <2>1, FS_EmptySet DEF Waiting
<1> QED
    BY <1>1, <1>2, <1>3 DEF Init, Conservation

\* What every step does: the invariant is kept, messages stay in balance, and
\* none is passed on before its data are available.
StepKeeps ==
    /\ TypeOK' /\ StoreInv'
    /\ Conservation => Conservation'
    /\ \A m \in Messages : forwarded'[m] > forwarded[m] =>
          \A k \in DOMAIN Included[m] : Available(Included[m][k])

LEMMA BalancedStep ==
    ASSUME TypeOK, TypeOK', StoreInv', NEW sent \in [Messages -> Nat], Balanced(sent),
           \A m \in Messages : received'[m] = received[m] + sent[m]
    PROVE  StepKeeps
<1>1. ASSUME NEW m \in Messages, received[m] = forwarded[m] + Waiting(Ids, m) + forgotten[m]
      PROVE  received'[m] = forwarded'[m] + Waiting(Ids, m)' + forgotten'[m]
    <2>1. forwarded'[m] + Waiting(Ids, m)' + forgotten'[m] =
             forwarded[m] + Waiting(Ids, m) + forgotten[m] + sent[m]
        BY DEF Balanced
    <2> QED
        BY <1>1, <2>1
<1>2. Conservation => Conservation'
    BY <1>1 DEF Conservation
<1> QED
    BY <1>2 DEF StepKeeps, Balanced

\* The client's own steps, and lost notifications.
LEMMA ClientKeeps ==
    ASSUME TypeOK, StoreInv, imported' \in SUBSET Hashes, imported \subseteq imported',
           finalizedNumber' \in Nat, finalizedNumber =< finalizedNumber',
           notifications' \subseteq imported', UNCHANGED <<store, history>>
    PROVE  StepKeeps
<1>1. ASSUME NEW d \in Data, Available(d) PROVE Available(d)'
    BY <1>1, AvailableStays DEF TypeOK
<1>2. TypeOK'
    BY DEF TypeOK, store, history
<1>3. CachedAreAvailable'
    BY <1>1, DataAreKeys DEF StoreInv, CachedAreAvailable, TypeOK, store
<1>4. ASSUME NEW i \in Ids PROVE KeptAt(i)' \/ BlankAt(i)'
    <2>1. /\ pending'[i] = pending[i] /\ requirements'[i] = requirements[i]
          /\ nextId' = nextId /\ Awaited(i)' = Awaited(i)
        BY DEF store, Awaited
    <2>2. CASE BlankAt(i)
        BY <2>1, <2>2 DEF BlankAt
    <2>3. CASE KeptAt(i)
        <3>1. pending[i] \in Messages
            BY <2>3 DEF KeptAt, TypeOK
        <3>2. PICK m \in Messages : m = pending[i]
            BY <3>1
        <3>3. ASSUME NEW k \in DOMAIN Included[m]
              PROVE  Included[m][k] \in Awaited(i)' \/ Available(Included[m][k])'
            <4>1. Included[m][k] \in Data
                BY DataAreKeys
            <4> QED
                BY <1>1, <2>1, <2>3, <3>2, <4>1 DEF KeptAt
        <3>4. \A k \in DOMAIN Included[pending'[i]] :
                 \/ Included[pending'[i]][k] \in Awaited(i)'
                 \/ Available(Included[pending[i]][k])'
            BY <2>1, <3>2, <3>3 DEF Available
        <3> QED
            BY <2>1, <2>3, <3>4 DEF KeptAt
    <2> QED
        BY <2>2, <2>3 DEF StoreInv
<1>5. StoreInv'
    BY <1>3, <1>4 DEF StoreInv, Delivered
<1>6. \A m \in Messages : Waiting(Ids, m)' = Waiting(Ids, m)
    BY DEF Waiting, store
<1>7. \A m \in Messages : forwarded[m] \in Nat /\ forwarded'[m] = forwarded[m]
    BY DEF TypeOK, history
<1> QED
    BY <1>2, <1>5, <1>6, <1>7 DEF StepKeeps, Conservation, history

\* add_block on its own.
LEMMA AddKeeps ==
    ASSUME TypeOK, StoreInv, NEW blocks \in SUBSET Keys, \A d \in blocks : Available(d),
           Add(blocks), notifications' \subseteq notifications
    PROVE  StepKeeps
<1>1. /\ NotSent \in [Messages -> Nat] /\ \A m \in Messages : NotSent[m] = 0
      /\ \A m \in Messages : ~(NotSent[m] > 0)
    BY DEF NotSent
<1>2. received \in [Messages -> Nat] /\ received' = received
    BY DEF Add, TypeOK
<1>3. \A m \in Messages : received'[m] = received[m] + NotSent[m]
    BY <1>1, <1>2
<1>4. TypeOK' /\ StoreInv' /\ Balanced(NotSent)
    BY <1>1, <1>2, Adds DEF Add
<1> QED
    BY <1>1, <1>3, <1>4, BalancedStep

LEMMA NextStore == TypeOK /\ StoreInv /\ [Next]_vars => StepKeeps
<1> SUFFICES ASSUME TypeOK, StoreInv, [Next]_vars
             PROVE  StepKeeps
    OBVIOUS
<1> USE DEF TypeOK
<1>1. ASSUME NEW h \in Hashes, Import(h) PROVE StepKeeps
    <2>1. /\ imported' = imported \cup {h} /\ notifications' = notifications \cup {h}
          /\ finalizedNumber' = finalizedNumber /\ UNCHANGED <<store, history>>
        BY <1>1 DEF Import
    <2> QED
        BY <2>1, ClientKeeps DEF StoreInv, Delivered
<1>2. ASSUME NEW h \in Hashes, Finalize(h) PROVE StepKeeps
    <2>1. /\ imported' = imported /\ notifications' = notifications
          /\ finalizedNumber' \in Nat /\ finalizedNumber < finalizedNumber'
          /\ UNCHANGED <<store, history>>
        BY <1>2, DataStoreAssumption DEF Finalize
    <2> QED
        BY <2>1, ClientKeeps DEF StoreInv, Delivered
<1>3. ASSUME NEW h \in Hashes, LoseNotification(h) PROVE StepKeeps
    <2>1. /\ imported' = imported /\ notifications' = notifications \ {h}
          /\ finalizedNumber' = finalizedNumber /\ UNCHANGED <<store, history>>
        BY <1>3 DEF LoseNotification, client
    <2> QED
        BY <2>1, ClientKeeps DEF StoreInv, Delivered
<1>4. ASSUME NEW h \in Hashes, BlockNotification(h) PROVE StepKeeps
    <2> DEFINE d == [hash |-> h, number |-> Number[h]]
    <2>1. d \in Keys /\ d.hash = h
        BY DataAreKeys
    <2>2. Available(d)
        BY <1>4, <2>1 DEF BlockNotification, StoreInv, Delivered, Available
    <2>3. Add({d}) /\ notifications' \subseteq notifications
        BY <1>4 DEF BlockNotification
    <2> HIDE DEF d
    <2> QED
        BY <2>1, <2>2, <2>3, AddKeeps
<1>5. ASSUME NEW m \in Messages, ReceiveMessage(m) PROVE StepKeeps
    <2> DEFINE one == [NotSent EXCEPT ![m] = 1]
    <2>1. PICK blocks \in Found(m) : PassOn(m, blocks) \/ Keep(m, blocks)
        BY <1>5 DEF ReceiveMessage
    <2>2. blocks \in SUBSET Keys /\ \A d \in blocks : Available(d)
        BY FoundAreAvailable
    <2>3. one \in [Messages -> Nat] /\ \A n \in Messages : one[n] = IF n = m THEN 1 ELSE 0
        BY DEF NotSent
    <2>4. /\ received' \in [Messages -> Nat] /\ notifications' = notifications
          /\ UNCHANGED client /\ \A n \in Messages : received'[n] = received[n] + one[n]
        BY <1>5, <2>3 DEF ReceiveMessage
    <2> HIDE DEF one
    <2>5. CASE PassOn(m, blocks)
        <3>1. \A n \in Messages : one[n] > 0 =>
                 \A k \in DOMAIN Included[n] : Available(Included[n][k])
            BY <2>3, <2>5 DEF PassOn, Required, StoreInv, CachedAreAvailable
        <3>2. /\ AddBlocks(blocks, one) /\ dependent' = Pushed(blocks)
              /\ requirements' = Counted(blocks) /\ pending' = Unsent(blocks)
              /\ UNCHANGED <<client, nextId, forgotten>>
            BY <2>4, <2>5 DEF PassOn, one
        <3>3. TypeOK' /\ StoreInv' /\ Balanced(one)
            BY <2>2, <2>3, <2>4, <3>1, <3>2, Adds
        <3> QED
            BY <2>3, <2>4, <3>3, BalancedStep
    <2>6. CASE Keep(m, blocks)
        <3>1. TypeOK' /\ StoreInv'
            BY <2>2, <2>4, <2>6, Keeps
        <3>2. Balanced(one)
            BY <2>2, <2>6, KeepsBalance DEF one
        <3> QED
            BY <2>3, <2>4, <3>1, <3>2, BalancedStep
    <2> QED
        BY <2>1, <2>5, <2>6
<1>6. ASSUME Maintenance PROVE StepKeeps
    <2> DEFINE blocks == {d \in Keys : dependent[d] # {} /\ Available(d)}
    <2>1. blocks \in SUBSET Keys /\ \A d \in blocks : Available(d)
        OBVIOUS
    <2>2. Add(blocks) /\ notifications' = notifications
        BY <1>6 DEF Maintenance
    <2> HIDE DEF blocks
    <2> QED
        BY <2>1, <2>2, AddKeeps
<1>7. ASSUME UNCHANGED vars PROVE StepKeeps
    BY <1>7, ClientKeeps DEF vars, client, StoreInv, Delivered
<1> QED
    BY <1>1, <1>2, <1>3, <1>4, <1>5, <1>6, <1>7 DEF Next

LEMMA StoreInductive == Spec => [](TypeOK /\ StoreInv)
<1>1. TypeOK /\ StoreInv /\ [Next]_vars => TypeOK' /\ StoreInv'
    BY NextStore DEF StepKeeps
<1> QED
    BY <1>1, InitStore, PTL DEF Spec

\* The type invariant of the data store, for all blocks, messages, cache sizes
\* and boundaries: in particular no count of requirements goes below zero.
THEOREM StoreTypeCorrect == Spec => []TypeOK
BY StoreInductive, PTL

\* Neither expect() of push_messages fails: a message that some block is to
\* release is pending, and requires no fewer blocks than it waits for, also
\* when a block is in it twice and after messages were forgotten.
THEOREM NeverPanics == Spec => []NoPanic
<1>1. TypeOK /\ StoreInv => NoPanic
    BY FS_CardinalityType DEF TypeOK, StoreInv, NoPanic, KeptAt, BlankAt
<1> QED
    BY <1>1, StoreInductive, PTL

\* Only messages younger than the boundary are remembered, and nothing is
\* left of the others in any of the three maps of the store.
THEOREM NothingOldIsLeft == Spec => []OldAreForgotten
<1>1. TypeOK /\ StoreInv => OldAreForgotten
    BY DEF TypeOK, StoreInv, OldAreForgotten, KeptAt, BlankAt
<1> QED
    BY <1>1, StoreInductive, PTL

\* A message received is passed on, pending or forgotten: exactly one of them,
\* once for each arrival, whatever becomes available in whatever order.
THEOREM MessagesAreConserved == Spec => []Conservation
<1>1. TypeOK /\ StoreInv /\ Conservation /\ [Next]_vars => TypeOK' /\ StoreInv' /\ Conservation'
    BY NextStore DEF StepKeeps
<1> QED
    BY <1>1, InitStore, PTL DEF Spec

\* The store passes a message on only when all its data are available: those
\* it found available or cached when the message came still are, and those it
\* has waited for have all been added.
THEOREM OnlyAvailableIsForwarded == Spec => ForwardsAvailable
<1>1. TypeOK /\ StoreInv /\ [Next]_vars =>
        [\A m \in Messages : forwarded'[m] > forwarded[m] =>
            \A k \in DOMAIN Included[m] : Available(Included[m][k])]_vars
    BY NextStore DEF StepKeeps
<1> QED
    BY <1>1, StoreInductive, PTL DEF Spec, ForwardsAvailable
=============================================================================
