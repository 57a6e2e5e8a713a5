------------------- MODULE BlockSignatureAggregatorProofs -------------------
(***************************************************************************)
(* Proofs about BlockSignatureAggregator, for every session and whatever   *)
(* is ordered past its end.                                                *)
(***************************************************************************)
EXTENDS BlockSignatureAggregator, SequenceTheorems, TLAPS

\* The headers of a branch are a sequence of its blocks.
LEMMA HeadersType ==
    ASSUME NEW m \in Nat, NEW n \in Nat, m <= n
    PROVE  /\ Headers(m, n) \in Seq(m + 1 .. n)
           /\ Headers(m, n) \in Seq(Int)
           /\ Len(Headers(m, n)) = n - m
           /\ \A i \in 1 .. n - m : Headers(m, n)[i] = m + i
<1>1. n - m \in Nat
    OBVIOUS
<1>2. /\ Headers(m, n) \in [1 .. n - m -> m + 1 .. n]
      /\ Headers(m, n) \in [1 .. n - m -> Int]
    BY <1>1 DEF Headers
<1> QED
    BY <1>1, <1>2 DEF Headers

\* Nothing leads from a block to one that is not above it.
LEMMA HeadersEmpty ==
    ASSUME NEW m \in Nat, NEW n \in Nat, n <= m
    PROVE  Headers(m, n) = <<>>
<1>1. 1 .. n - m = {}
    OBVIOUS
<1>2. Headers(m, n) \in [{} -> Int] /\ <<>> \in [{} -> Int]
    BY <1>1 DEF Headers
<1> QED
    BY <1>2

\* The branch from m to n and that from n to k make up the branch from m to k.
LEMMA HeadersExtend ==
    ASSUME NEW m \in Nat, NEW n \in Nat, NEW k \in Nat, m <= n, n <= k
    PROVE  Headers(m, n) \o Headers(n, k) = Headers(m, k)
<1> DEFINE a == Headers(m, n)
           b == Headers(n, k)
           c == Headers(m, k)
<1>1. /\ a \in Seq(Int) /\ b \in Seq(Int) /\ c \in Seq(Int)
      /\ Len(a) = n - m /\ Len(b) = k - n /\ Len(c) = k - m
      /\ \A i \in 1 .. n - m : a[i] = m + i
      /\ \A i \in 1 .. k - n : b[i] = n + i
      /\ \A i \in 1 .. k - m : c[i] = m + i
    <2>1. m <= k
        OBVIOUS
    <2> QED
        BY <2>1, HeadersType
<1> HIDE DEF a, b, c
<1>2. /\ a \o b \in Seq(Int) /\ Len(a \o b) = Len(a) + Len(b)
      /\ \A i \in 1 .. Len(a) + Len(b) :
            (a \o b)[i] = IF i <= Len(a) THEN a[i] ELSE b[i - Len(a)]
    BY <1>1, ConcatProperties
<1>3. ASSUME NEW i \in 1 .. k - m PROVE (a \o b)[i] = c[i]
    <2>1. i \in 1 .. Len(a) + Len(b) /\ c[i] = m + i
        BY <1>1
    <2>2. CASE i <= n - m
        <3>1. i \in 1 .. n - m /\ i <= Len(a)
            BY <2>2, <1>1
        <3>2. (a \o b)[i] = a[i]
            BY <2>1, <3>1, <1>2
        <3> QED
            BY <2>1, <3>1, <3>2, <1>1
    <2>3. CASE i > n - m
        <3>1. i - (n - m) \in 1 .. k - n /\ ~(i <= Len(a))
            BY <2>3, <1>1
        <3>2. (a \o b)[i] = b[i - (n - m)]
            BY <2>1, <3>1, <1>1, <1>2
        <3>3. b[i - (n - m)] = n + (i - (n - m))
            BY <3>1, <1>1
        <3> QED
            BY <2>1, <3>2, <3>3
    <2>4. i <= n - m \/ i > n - m
        OBVIOUS
    <2> QED
        BY <2>2, <2>3, <2>4, Zenon
<1>4. a \o b = c
    <2>1. Len(a \o b) = k - m
        BY <1>1, <1>2
    <2> QED
        BY <2>1, <1>1, <1>2, <1>3, SeqEqual
<1> QED
    BY <1>4 DEF a, b, c

\* Moving the head of a queue to the end of another leaves the two together
\* as they were.
LEMMA MoveHead ==
    ASSUME NEW S, NEW e \in Seq(S), NEW q \in Seq(S), q # <<>>
    PROVE  /\ Head(q) \in S /\ Tail(q) \in Seq(S) /\ Append(e, Head(q)) \in Seq(S)
           /\ Append(e, Head(q)) \o Tail(q) = e \o q
<1>1. /\ Head(q) \in S /\ Tail(q) \in Seq(S) /\ Append(e, Head(q)) \in Seq(S)
      /\ Len(q) \in Nat /\ Len(q) > 0 /\ Len(Tail(q)) = Len(q) - 1
    OBVIOUS
<1> DEFINE l == Append(e, Head(q)) \o Tail(q)
<1>2. l \in Seq(S) /\ e \o q \in Seq(S) /\ Len(l) = Len(e \o q)
    BY <1>1
<1>3. ASSUME NEW i \in 1 .. Len(l) PROVE l[i] = (e \o q)[i]
    <2>1. CASE i <= Len(e)
        BY <2>1, <1>1, <1>2
    <2>2. CASE i = Len(e) + 1
        BY <2>2, <1>1, <1>2
    <2>3. CASE i > Len(e) + 1
        BY <2>3, <1>1, <1>2
    <2> QED
        BY <2>1, <2>2, <2>3, <1>2
<1>4. l = e \o q
    <2> HIDE DEF l
    <2> QED
        BY <1>2, <1>3, SeqEqual
<1> QED
    BY <1>1, <1>4
----------------------------------------------------------------------------
\* hash_queue is empty and complete when the stream ends.
LastIsPlaced == lastPlaced => lastFinalized >= LastBlock

IInv == TypeOK /\ InChainOrder /\ LastIsPlaced /\ EndsWithSession

LEMMA Constants ==
    /\ FirstFinalized \in Nat /\ LastBlock \in Nat
    /\ Blocks \subseteq Nat
BY AggregatorAssumption DEF Blocks

\* At the end of the session all its headers have been started that were not
\* final when the task first ran.
LEMMA SessionIsStarted ==
    ASSUME TypeOK, lastFinalized >= LastBlock
    PROVE  Headers(FirstFinalized, lastFinalized) = Headers(FirstFinalized, LastBlock)
<1>1. CASE lastFinalized \in Blocks
    <2>1. lastFinalized = LastBlock
        BY <1>1, Constants DEF Blocks
    <2> QED
        BY <2>1
<1>2. CASE lastFinalized = FirstFinalized
    <2>1. /\ Headers(FirstFinalized, FirstFinalized) = <<>>
          /\ Headers(FirstFinalized, LastBlock) = <<>>
        BY <1>2, Constants, HeadersEmpty
    <2> QED
        BY <1>2, <2>1
<1> QED
    BY <1>1, <1>2 DEF TypeOK

LEMMA InitHolds == Init => IInv
<1> SUFFICES ASSUME Init PROVE IInv
    OBVIOUS
<1>1. TypeOK
    <2>1. lastFinalized \in {FirstFinalized} \cup Blocks
        BY DEF Init
    <2>2. queue \in Seq(Blocks) /\ emitted \in Seq(Blocks)
        BY EmptySeq DEF Init
    <2> QED
        BY <2>1, <2>2, Zenon DEF Init, TypeOK, Status
<1>2. InChainOrder
    <2>1. /\ Headers(FirstFinalized, FirstFinalized) \in Seq(Int)
          /\ Len(Headers(FirstFinalized, FirstFinalized)) = 0
        BY Constants, HeadersType
    <2>2. Headers(FirstFinalized, FirstFinalized) = <<>>
        BY <2>1, EmptySeq
    <2>3. <<>> \o <<>> = <<>>
        OBVIOUS
    <2> QED
        BY <2>2, <2>3 DEF Init, InChainOrder
<1>3. LastIsPlaced /\ EndsWithSession
    BY DEF Init, LastIsPlaced, EndsWithSession
<1> QED
    BY <1>1, <1>2, <1>3 DEF IInv

LEMMA OrderedBatchHolds ==
    ASSUME IInv, NEW n \in FirstFinalized + 1 .. MaxBlock, OrderedBatch(n)
    PROVE  IInv'
<1> DEFINE last == LastStarted(n)
           new == Headers(lastFinalized, last)
<1>1. /\ st = "running" /\ st' = st
      /\ n > lastFinalized
      /\ queue' = queue \o new
      /\ lastFinalized' = last
      /\ lastPlaced' = (n >= LastBlock) /\ lastSeen' = (n >= LastBlock)
      /\ UNCHANGED <<signatures, yielded, emitted>>
    BY DEF OrderedBatch
<1>2. /\ n \in Nat /\ last \in Nat /\ lastFinalized \in Nat
      /\ FirstFinalized <= lastFinalized /\ lastFinalized <= last
      /\ last = lastFinalized \/ last <= LastBlock
      /\ n >= LastBlock => last >= LastBlock
    <2>1. n \in Nat /\ lastFinalized \in Nat /\ FirstFinalized <= lastFinalized
        BY Constants, AggregatorAssumption DEF IInv, TypeOK, Blocks
    <2> QED
        BY <1>1, <2>1, Constants DEF LastStarted
<1>3. new \in Seq(Blocks)
    <2>1. lastFinalized + 1 .. last \subseteq Blocks
        <3> HIDE DEF last
        <3> QED
            BY <1>2, Constants DEF Blocks
    <2>2. /\ new \in Seq(lastFinalized + 1 .. last)
          /\ Len(new) = last - lastFinalized
          /\ \A i \in 1 .. last - lastFinalized : new[i] = lastFinalized + i
        BY <1>2, HeadersType
    <2>3. \A i \in 1 .. last - lastFinalized : new[i] \in Blocks
        <3> HIDE DEF new, last
        <3> QED
            BY <2>1, <2>2, <1>2
    <2> HIDE DEF new, last
    <2> QED
        BY <2>2, <2>3
<1>4. queue' \in Seq(Blocks)
    <2> HIDE DEF new
    <2> QED
        BY <1>1, <1>3 DEF IInv, TypeOK
<1>5. TypeOK'
    <2>1. last \in {FirstFinalized} \cup Blocks
        <3> HIDE DEF last
        <3>1. CASE last = lastFinalized
            BY <3>1 DEF IInv, TypeOK
        <3>2. CASE last <= LastBlock /\ last # FirstFinalized
            BY <1>2, <3>2, Constants DEF Blocks
        <3> QED
            BY <1>2, <3>1, <3>2
    <2> QED
        BY <1>1, <1>4, <2>1 DEF IInv, TypeOK
<1>6. InChainOrder'
    <2>1. (emitted \o queue) \o new = Headers(FirstFinalized, last)
        <3>1. emitted \o queue = Headers(FirstFinalized, lastFinalized)
            BY DEF IInv, InChainOrder
        <3>2. Headers(FirstFinalized, lastFinalized) \o new = Headers(FirstFinalized, last)
            <4> HIDE DEF last
            <4> QED
                BY <1>2, Constants, HeadersExtend
        <3> QED
            BY <3>1, <3>2
    <2>2. (emitted \o queue) \o new = emitted \o (queue \o new)
        BY <1>3, ConcatAssociative DEF IInv, TypeOK
    <2> QED
        BY <2>1, <2>2, <1>1 DEF InChainOrder
<1>7. LastIsPlaced' /\ EndsWithSession'
    <2>2. LastIsPlaced'
        BY <1>1, <1>2, Zenon DEF LastIsPlaced
    <2> QED
        BY <2>2, <1>1 DEF EndsWithSession
<1> QED
    BY <1>5, <1>6, <1>7 DEF IInv

LEMMA EmitJustificationHolds ==
    ASSUME IInv, EmitJustification
    PROVE  IInv'
<1>1. /\ emitted \in Seq(Blocks) /\ queue \in Seq(Blocks) /\ queue # <<>>
      /\ emitted' = Append(emitted, Head(queue)) /\ queue' = Tail(queue)
      /\ signatures' = signatures \ {Head(queue)}
      /\ st = "running"
      /\ UNCHANGED <<st, lastFinalized, lastSeen, lastPlaced, yielded>>
    BY DEF IInv, TypeOK, EmitJustification, HeadIsSigned
<1>2. /\ emitted' \in Seq(Blocks) /\ queue' \in Seq(Blocks)
      /\ emitted' \o queue' = emitted \o queue
    BY <1>1, MoveHead
<1>3. TypeOK'
    BY <1>1, <1>2 DEF IInv, TypeOK
<1>4. InChainOrder'
    BY <1>1, <1>2 DEF IInv, InChainOrder
<1>5. LastIsPlaced' /\ EndsWithSession'
    BY <1>1 DEF IInv, LastIsPlaced, EndsWithSession
<1> QED
    BY <1>3, <1>4, <1>5 DEF IInv

\* The stream ends on an empty queue, so all of the branch has been sent.
LEMMA BreakHolds ==
    ASSUME IInv, NEW why \in Status, why = "stream ended" => IsDone, Break(why)
    PROVE  IInv'
<1>1. st' = why /\ UNCHANGED <<lastFinalized, lastSeen, queue, signatures, lastPlaced,
                               yielded, emitted>>
    BY DEF Break
<1>2. TypeOK' /\ InChainOrder' /\ LastIsPlaced'
    BY <1>1 DEF IInv, TypeOK, InChainOrder, LastIsPlaced
<1>3. EndsWithSession'
    <2> SUFFICES ASSUME why = "stream ended" PROVE emitted = Headers(FirstFinalized, LastBlock)
        BY <1>1 DEF EndsWithSession
    <2>1. queue = <<>> /\ lastFinalized >= LastBlock
        BY DEF IsDone, IInv, LastIsPlaced
    <2>3. Headers(FirstFinalized, lastFinalized) = Headers(FirstFinalized, LastBlock)
        BY <2>1, SessionIsStarted DEF IInv
    <2>2. emitted \o <<>> = emitted
        BY ConcatEmptySeq DEF IInv, TypeOK
    <2> QED
        BY <2>1, <2>2, <2>3 DEF IInv, InChainOrder
<1> QED
    BY <1>2, <1>3 DEF IInv

LEMMA StepHolds ==
    ASSUME IInv, [Next]_vars
    PROVE  IInv'
<1>1. CASE \E b \in Blocks : MultisignedHash(b)
    <2> PICK b \in Blocks : MultisignedHash(b)
        BY <1>1
    <2>1. /\ yielded' = yielded \cup {b} /\ signatures' = signatures \cup {b}
          /\ UNCHANGED <<st, lastFinalized, lastSeen, queue, lastPlaced, emitted>>
        BY DEF MultisignedHash
    <2>2. TypeOK'
        BY <2>1 DEF IInv, TypeOK
    <2>3. InChainOrder' /\ LastIsPlaced' /\ EndsWithSession'
        BY <2>1 DEF IInv, InChainOrder, LastIsPlaced, EndsWithSession
    <2> QED
        BY <2>2, <2>3 DEF IInv
<1>2. CASE \E n \in FirstFinalized + 1 .. MaxBlock : OrderedBatch(n)
    BY <1>2, OrderedBatchHolds
<1>3. CASE EmitJustification
    BY <1>3, EmitJustificationHolds
<1>4. CASE StreamEnds
    BY <1>4, BreakHolds DEF StreamEnds, Status
<1>5. CASE NetworkClosed
    BY <1>5, BreakHolds DEF NetworkClosed, Status
<1>6. CASE BatchesEnd
    BY <1>6, BreakHolds DEF BatchesEnd, Status
<1>7. CASE Exit
    BY <1>7 DEF Exit, Status, IInv, TypeOK, InChainOrder, LastIsPlaced, EndsWithSession
<1>8. CASE UNCHANGED vars
    BY <1>8 DEF vars, IInv, TypeOK, InChainOrder, LastIsPlaced, EndsWithSession
<1> QED
    BY <1>1, <1>2, <1>3, <1>4, <1>5, <1>6, <1>7, <1>8 DEF Next

LEMMA Inductive == Spec => []IInv
BY InitHolds, StepHolds, PTL DEF Spec

\* The task's state keeps its types; in particular no block past the session is
\* started or gets a justification.
THEOREM AggregatorTypeCorrect == Spec => []TypeOK
<1>1. IInv => TypeOK
    BY DEF IInv
<1> QED
    BY <1>1, Inductive, PTL

\* Justifications are sent in the order of the chain, without a gap or a
\* repeat, in whatever order the multisignatures come.
THEOREM JustifiedInChainOrder == Spec => []InChainOrder
<1>1. IInv => InChainOrder
    BY DEF IInv
<1> QED
    BY <1>1, Inductive, PTL

\* The stream of multisignatures ends with the last block of the session.
THEOREM EndsAtLastBlock == Spec => []EndsWithSession
<1>1. IInv => EndsWithSession
    BY DEF IInv
<1> QED
    BY <1>1, Inductive, PTL
\* The head of the queue goes from the signatures to what was emitted.
LEMMA EmitKeepsSignatures ==
    ASSUME TypeOK, NoSignatureLost, EmitJustification
    PROVE  NoSignatureLost'
<1> DEFINE h == Head(queue)
           Sent(e) == {e[i] : i \in DOMAIN e}
<1>1. /\ h \in signatures /\ h \in Blocks /\ emitted \in Seq(Blocks)
      /\ emitted' = Append(emitted, h) /\ signatures' = signatures \ {h}
      /\ yielded' = yielded
    BY DEF TypeOK, EmitJustification, HeadIsSigned
<1>2. /\ DOMAIN Append(emitted, h) = DOMAIN emitted \cup {Len(emitted) + 1}
      /\ Append(emitted, h)[Len(emitted) + 1] = h
      /\ \A i \in DOMAIN emitted : Append(emitted, h)[i] = emitted[i]
    <2> HIDE DEF h
    <2> QED
        BY <1>1
<1>3. Sent(emitted') = Sent(emitted) \cup {h}
    <2> HIDE DEF h
    <2> QED
        BY <1>1, <1>2
<1> QED
    BY <1>1, <1>3, Zenon DEF NoSignatureLost

\* No multisignature is lost: RMC yields it once, perhaps before the block is
\* started here, and it is kept until its justification is sent.
THEOREM SignaturesAreKept == Spec => []NoSignatureLost
<1>1. Init => NoSignatureLost
    BY DEF Init, NoSignatureLost
<1>2. TypeOK /\ NoSignatureLost /\ [Next]_vars => NoSignatureLost'
    <2> SUFFICES ASSUME TypeOK, NoSignatureLost, [Next]_vars PROVE NoSignatureLost'
        OBVIOUS
    <2>1. CASE \E b \in Blocks : MultisignedHash(b)
        BY <2>1, Zenon DEF MultisignedHash, NoSignatureLost
    <2>2. CASE EmitJustification
        BY <2>2, EmitKeepsSignatures
    <2>3. CASE UNCHANGED <<signatures, yielded, emitted>>
        BY <2>3 DEF NoSignatureLost
    <2>4. CASE \E n \in FirstFinalized + 1 .. MaxBlock : OrderedBatch(n)
        BY <2>4, <2>3 DEF OrderedBatch
    <2>5. CASE StreamEnds \/ NetworkClosed \/ BatchesEnd \/ Exit \/ UNCHANGED vars
        BY <2>5, <2>3 DEF StreamEnds, NetworkClosed, BatchesEnd, Exit, Break, vars
    <2> QED
        BY <2>1, <2>2, <2>4, <2>5 DEF Next
<1> QED
    BY <1>1, <1>2, AggregatorTypeCorrect, PTL DEF Spec
=============================================================================
