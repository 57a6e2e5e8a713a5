--------------------- MODULE JustificationHandlerProofs ---------------------
(***************************************************************************)
(* Proofs about JustificationHandler, for every session period, every      *)
(* block time, and chains and forks of every height.                       *)
(***************************************************************************)
EXTENDS JustificationHandler, TLAPS

\* A number is between the multiples of the period its quotient names.
LEMMA Division ==
    ASSUME NEW n \in Nat, NEW d \in Nat \ {0}
    PROVE  /\ n \div d \in Nat
           /\ n % d \in 0 .. d - 1
           /\ n = d * (n \div d) + (n % d)
BY SMT

\* A multiple of the period that is less than a period above another is no
\* higher.
LEMMA Multiples ==
    ASSUME NEW d \in Nat \ {0}, NEW a \in Nat, NEW b \in Nat, NEW k \in Nat,
           d * a <= d * b + k, k < d
    PROVE  a <= b
<1> SUFFICES ASSUME a >= b + 1 PROVE FALSE
    OBVIOUS
<1>1. d * a >= d * (b + 1)
    BY SMT
<1>2. d * (b + 1) = d * b + d
    BY SMT
<1>3. d * a \in Nat /\ d * b \in Nat /\ d * (b + 1) \in Nat
    BY SMT
<1> QED
    BY <1>1, <1>2, <1>3

\* The last block of a block's session is not below it.
LEMMA LastIsNotBelow ==
    ASSUME NEW n \in Nat
    PROVE  SessionOf(n) \in Nat /\ LastBlockOf(SessionOf(n)) >= n
<1> DEFINE d == SessionPeriod
           q == n \div d
           r == n % d
<1>1. d \in Nat \ {0}
    BY HandlerAssumption
<1>2. q \in Nat /\ r \in 0 .. d - 1 /\ n = d * q + r
    BY <1>1, Division
<1>3. LastBlockOf(q) = d * q + d - 1
    BY <1>1, <1>2, SMT DEF LastBlockOf
<1>4. SessionOf(n) = q
    BY DEF SessionOf
<1> HIDE DEF d, q, r
<1>5. d * q \in Nat
    BY <1>1, <1>2, SMT
<1> QED
    BY <1>1, <1>2, <1>3, <1>4, <1>5

\* The sessions of the blocks up to MaxBlock, and of the next one.
LEMMA SessionsOfBlocks ==
    ASSUME NEW n \in 0 .. MaxBlock + 1
    PROVE  SessionOf(n) \in Sessions
<1> DEFINE d == SessionPeriod
           q == n \div d
           r == n % d
           q1 == MaxBlock \div d
           r1 == MaxBlock % d
<1>1. d \in Nat \ {0} /\ n \in Nat /\ MaxBlock \in Nat
    BY HandlerAssumption
<1>2. q \in Nat /\ r \in 0 .. d - 1 /\ n = d * q + r
    BY <1>1, Division
<1>3. q1 \in Nat /\ r1 \in 0 .. d - 1 /\ MaxBlock = d * q1 + r1
    BY <1>1, Division
<1>4. SessionOf(n) = q /\ Sessions = 0 .. q1 + 1
    BY DEF SessionOf, Sessions, MaxSession
<1> HIDE DEF d, q, r, q1, r1
<1>5. d * q \in Nat /\ d * q1 \in Nat /\ d * (q1 + 1) \in Nat /\ d * (q1 + 1) = d * q1 + d
    BY <1>1, <1>2, <1>3, SMT
<1>6. d * q <= d * (q1 + 1) + 0
    BY <1>1, <1>2, <1>3, <1>5
<1>7. q <= q1 + 1
    BY <1>1, <1>2, <1>3, <1>6, Multiples
<1> QED
    BY <1>2, <1>3, <1>4, <1>7

\* The constants' types, as the steps need them.
LEMMA Bounds ==
    /\ MaxBlock \in Nat /\ MaxFork \in 0 .. MaxBlock /\ MaxQueue \in Nat
    /\ Cadence \in Nat
    /\ MaxSession \in Nat /\ MaxSession \in Sessions
    /\ 0 \in Sessions
<1>1. SessionPeriod \in Nat /\ MillisecsPerBlock \in Nat
    BY HandlerAssumption
<1>2. 2 * MillisecsPerBlock \in Nat /\ MillisecsPerBlock * SessionPeriod \in Nat
    BY <1>1, SMT
<1>3. (MillisecsPerBlock * SessionPeriod) \div 10 \in Nat
    BY <1>2, SMT
<1>4. Cadence \in Nat
    BY <1>2, <1>3 DEF Cadence
<1>5. MaxBlock \in Nat
    BY HandlerAssumption
<1>6. MaxSession \in Nat
    BY <1>5, LastIsNotBelow DEF MaxSession
<1> QED
    BY <1>4, <1>5, <1>6, HandlerAssumption DEF Sessions

\* While it waits, the handler knows the finalised block, which nobody else
\* changes, and the end of the session of the block after it.
KnowsFinalized ==
    pc = "waiting" => lastFinalized = finalized /\ stop = LastBlockOf(CurrentSession)

IInv == TypeOK /\ KnowsFinalized

\* The invariant holds at first.
LEMMA InitIInv == Init => IInv
<1> SUFFICES ASSUME Init PROVE IInv
    OBVIOUS
<1> USE Bounds
<1>1. imported \in 0 .. MaxBlock /\ finalized \in 0 .. imported
    BY DEF Init
<1>2. sess \in Sessions
    <2>1. finalized \in 0 .. MaxBlock + 1
        BY <1>1
    <2> QED
        BY <2>1, SessionsOfBlocks DEF Init
<1>3. queue \in [Channels -> Seq(Justifications)]
    BY DEF Init
<1>4. pc # "waiting"
    BY DEF Init, Authority, FullNode
<1>5. /\ forkHeight \in 0 .. MaxFork /\ known \subseteq Sessions /\ open \subseteq Channels
      /\ phase \in {"absent", "entering", "in", "panicked"}
      /\ pc \in {"absent", "loop", "asleep", "waiting", "returned"}
      /\ lastFinalized \in 0 .. finalized /\ stop \in {LastBlockOf(t) : t \in Sessions}
      /\ sinceFinalization \in 0 .. Cadence + 1 /\ sinceRequest \in 0 .. 2 * Cadence + 1
      /\ requested \subseteq Headers
    BY <1>1 DEF Init, Channels, Authority, FullNode
<1> QED
    BY <1>1, <1>2, <1>3, <1>4, <1>5 DEF IInv, TypeOK, KnowsFinalized

\* What Send does to the channels.
LEMMA SendType ==
    ASSUME TypeOK, NEW c \in Channels, NEW j \in Justifications, Send(c, j)
    PROVE  queue' \in [Channels -> Seq(Justifications)]
<1>1. queue \in [Channels -> Seq(Justifications)]
    BY DEF TypeOK
<1>2. Append(queue[c], j) \in Seq(Justifications)
    BY <1>1
<1> QED
    BY <1>1, <1>2 DEF Send

\* Time and the client keep the invariant.
LEMMA ClientStep ==
    ASSUME IInv,
           \/ Tick \/ ImportBlock \/ ImportFork \/ StopImport
           \/ \E header \in requested :
                 \/ \E justification \in Justifications : Answer(header, justification)
                 \/ LoseRequest(header)
    PROVE  IInv'
<1> USE Bounds
<1>1. CASE Tick
    <2>1. /\ sinceFinalization' \in 0 .. Cadence + 1
          /\ sinceRequest' \in 0 .. 2 * Cadence + 1
        BY <1>1 DEF IInv, TypeOK, Tick
    <2> QED
        BY <1>1, <2>1 DEF Tick, IInv, TypeOK, KnowsFinalized, CurrentSession, client, party
<1>2. CASE ImportBlock
    <2>1. queue' \in [Channels -> Seq(Justifications)]
        <3>1. CASE UNCHANGED queue
            BY <3>1 DEF IInv, TypeOK
        <3>2. ASSUME NEW j \in {Bad, imported + 1}, Send("import", j)
              PROVE  queue' \in [Channels -> Seq(Justifications)]
            <4>1. j \in Justifications /\ "import" \in Channels
                BY <1>2 DEF IInv, TypeOK, ImportBlock, Justifications, Bad, Channels
            <4> QED
                BY <4>1, <3>2, SendType DEF IInv
        <3> QED
            BY <1>2, <3>1, <3>2 DEF ImportBlock
    <2>2. imported' \in 0 .. MaxBlock /\ finalized' \in 0 .. imported'
        BY <1>2 DEF IInv, TypeOK, ImportBlock
    <2> QED
        BY <1>2, <2>1, <2>2
           DEF ImportBlock, IInv, TypeOK, KnowsFinalized, CurrentSession, party, handler
<1>3. CASE ImportFork
    <2>1. forkHeight' \in 0 .. MaxFork
        BY <1>3 DEF IInv, TypeOK, ImportFork
    <2> QED
        BY <1>3, <2>1 DEF ImportFork, IInv, TypeOK, KnowsFinalized, CurrentSession, party, handler
<1>4. CASE StopImport
    BY <1>4 DEF StopImport, IInv, TypeOK, KnowsFinalized, CurrentSession, client, party, handler
<1>5. ASSUME NEW header \in requested, NEW j \in Justifications, Answer(header, j)
      PROVE  IInv'
    <2>1. queue' \in [Channels -> Seq(Justifications)]
        <3>1. "import" \in Channels
            BY DEF Channels
        <3> QED
            BY <1>5, <3>1, SendType DEF IInv, Answer
    <2> QED
        BY <1>5, <2>1
           DEF Answer, IInv, TypeOK, KnowsFinalized, CurrentSession, client, party, handler
<1>6. ASSUME NEW header \in requested, LoseRequest(header) PROVE IInv'
    BY <1>6 DEF LoseRequest, IInv, TypeOK, KnowsFinalized, CurrentSession, client, party, handler
<1> QED
    BY <1>1, <1>2, <1>3, <1>4, <1>5, <1>6

\* The party and its aggregators keep the invariant.
LEMMA PartyStep ==
    ASSUME IInv,
           \/ EnterSession \/ SkipSessionOnError \/ LeaveSession \/ PartyPanics
           \/ \E num \in 1 .. MaxBlock : AuthorityJustification(num)
    PROVE  IInv'
<1> USE Bounds
<1>1. ASSUME NextSession(known), UNCHANGED <<client, open, queue, handler, requested>>
      PROVE  IInv'
    <2>1. sess' \in Sessions
        BY <1>1 DEF IInv, TypeOK, NextSession, Sessions
    <2>2. known' \subseteq Sessions
        BY <1>1 DEF IInv, TypeOK, NextSession
    <2> QED
        BY <1>1, <2>1, <2>2
           DEF NextSession, IInv, TypeOK, KnowsFinalized, CurrentSession, client, handler
<1>2. CASE EnterSession
    BY <1>2 DEF EnterSession, IInv, TypeOK, KnowsFinalized, CurrentSession, client, handler
<1>3. CASE SkipSessionOnError
    BY <1>1, <1>3 DEF SkipSessionOnError
<1>4. CASE LeaveSession
    BY <1>1, <1>4 DEF LeaveSession
<1>5. CASE PartyPanics
    BY <1>5 DEF PartyPanics, IInv, TypeOK, KnowsFinalized, CurrentSession, client, handler
<1>6. ASSUME NEW num \in 1 .. MaxBlock, AuthorityJustification(num) PROVE IInv'
    <2>1. queue' \in [Channels -> Seq(Justifications)]
        <3>1. num \in Justifications /\ "authority" \in Channels
            BY DEF Justifications, Channels
        <3> QED
            BY <1>6, <3>1, SendType DEF IInv, AuthorityJustification
    <2> QED
        BY <1>6, <2>1 DEF AuthorityJustification, IInv, TypeOK, KnowsFinalized, CurrentSession,
                          client, party, handler
<1> QED
    BY <1>2, <1>3, <1>4, <1>5, <1>6

\* What request_justification asks for, and when.
LEMMA Requests ==
    ASSUME TypeOK, NEW num, NEW age, NEW pending \in SUBSET requested,
           RequestJustification(num, age, pending)
    PROVE  /\ requested' \subseteq Headers
           /\ sinceRequest' \in 0 .. 2 * Cadence + 1
           /\ \A header \in requested' \ requested : header.number = num /\ age > Cadence
<1>1. /\ requested \subseteq Headers /\ sinceRequest \in 0 .. 2 * Cadence + 1
      /\ 0 \in 0 .. 2 * Cadence + 1
    BY Bounds DEF TypeOK
<1>2. HeadersAt(num) \subseteq Headers /\ \A h \in HeadersAt(num) : h.number = num
    BY DEF HeadersAt
<1> QED
    BY <1>1, <1>2 DEF RequestJustification

\* The block after the finalised one is of a session, whose end is above it.
LEMMA NextBlock ==
    ASSUME TypeOK
    PROVE  /\ CurrentSession \in Sessions
           /\ LastBlockOf(CurrentSession) > finalized
<1>1. finalized \in Nat /\ finalized + 1 \in 0 .. MaxBlock + 1 /\ finalized + 1 \in Nat
    BY Bounds DEF TypeOK
<1>2. SessionOf(finalized + 1) \in Nat /\ LastBlockOf(SessionOf(finalized + 1)) >= finalized + 1
    BY <1>1, LastIsNotBelow
<1>3. LastBlockOf(SessionOf(finalized + 1)) \in Int
    BY <1>2, HandlerAssumption, SMT DEF LastBlockOf
<1> QED
    BY <1>1, <1>2, <1>3, SessionsOfBlocks DEF CurrentSession

\* A notification is one of the justifications, and the rest stays.
LEMMA TakeType ==
    ASSUME TypeOK, NEW c \in Channels, TakeNotification(c)
    PROVE  /\ queue' \in [Channels -> Seq(Justifications)]
           /\ Head(queue[c]) \in Justifications
<1>1. queue[c] \in Seq(Justifications) /\ queue[c] # <<>>
    BY DEF TypeOK, TakeNotification
<1>2. Head(queue[c]) \in Justifications /\ Tail(queue[c]) \in Seq(Justifications)
    BY <1>1
<1> QED
    BY <1>2 DEF TypeOK, TakeNotification

\* The handler's steps keep the invariant.
LEMMA HandlerStep ==
    ASSUME IInv,
           \/ ReadSession \/ Wake \/ TimeOut \/ Return
           \/ \E c \in Channels : TakeNotification(c)
    PROVE  IInv'
<1> USE Bounds
<1>1. CASE ReadSession
    <2>1. stop' \in {LastBlockOf(t) : t \in Sessions}
        BY <1>1, NextBlock DEF IInv, ReadSession
    <2>2. /\ lastFinalized' = finalized /\ finalized' = finalized /\ imported' = imported
          /\ lastFinalized' \in 0 .. finalized'
          /\ stop' = LastBlockOf(CurrentSession)'
        BY <1>1 DEF IInv, TypeOK, ReadSession, CurrentSession, client
    <2>3. pc' \in {"absent", "loop", "asleep", "waiting", "returned"}
        BY <1>1 DEF ReadSession
    <2> QED
        BY <1>1, <2>1, <2>2, <2>3 DEF ReadSession, IInv, TypeOK, KnowsFinalized, client, party
<1>2. CASE Wake
    BY <1>2 DEF Wake, IInv, TypeOK, KnowsFinalized, client, party
<1>3. CASE Return
    BY <1>3 DEF Return, IInv, TypeOK, KnowsFinalized, client, party
<1>4. CASE TimeOut
    <2>1. requested' \subseteq Headers /\ sinceRequest' \in 0 .. 2 * Cadence + 1
        BY <1>4, Requests DEF IInv, TimeOut
    <2> QED
        BY <1>4, <2>1 DEF TimeOut, IInv, TypeOK, KnowsFinalized, client, party
<1>5. ASSUME NEW c \in Channels, TakeNotification(c) PROVE IInv'
    <2> DEFINE num == Head(queue[c])
    <2>1. queue' \in [Channels -> Seq(Justifications)] /\ num \in 0 .. MaxBlock
        BY <1>5, TakeType DEF IInv, Justifications
    <2>2. pc' = "loop" /\ UNCHANGED <<party, open, lastFinalized, stop>>
        BY <1>5 DEF TakeNotification
    <2>3. /\ requested' \subseteq Headers /\ sinceRequest' \in 0 .. 2 * Cadence + 1
          /\ imported' = imported /\ finalized' \in 0 .. imported
          /\ lastFinalized \in 0 .. finalized'
          /\ forkHeight' \in 0 .. MaxFork
          /\ sinceFinalization' \in 0 .. Cadence + 1
        <3>1. CASE Finalizes(num)
            <4>1. /\ FinalizeBlock(num) /\ sinceFinalization' = 0
                  /\ RequestJustification(stop, 0, {h \in requested : h.number > num})
                BY <1>5, <3>1 DEF TakeNotification
            <4>2. requested' \subseteq Headers /\ sinceRequest' \in 0 .. 2 * Cadence + 1
                BY <4>1, Requests DEF IInv
            <4> QED
                BY <2>1, <3>1, <4>1, <4>2 DEF IInv, TypeOK, Finalizes, FinalizeBlock
        <3>2. CASE ~Finalizes(num)
            <4>1. /\ RequestJustification(stop, sinceFinalization, requested)
                  /\ UNCHANGED <<client, sinceFinalization>>
                BY <1>5, <3>2 DEF TakeNotification
            <4>2. requested' \subseteq Headers /\ sinceRequest' \in 0 .. 2 * Cadence + 1
                BY <4>1, Requests DEF IInv
            <4> QED
                BY <4>1, <4>2 DEF IInv, TypeOK, client
        <3> QED
            BY <3>1, <3>2
    <2> HIDE DEF num
    <2> QED
        BY <2>1, <2>2, <2>3 DEF IInv, TypeOK, KnowsFinalized, party
<1> QED
    BY <1>1, <1>2, <1>3, <1>4, <1>5

\* Every step keeps the invariant.
LEMMA NextIInv == IInv /\ [Next]_vars => IInv'
<1> SUFFICES ASSUME IInv, [Next]_vars PROVE IInv'
    OBVIOUS
<1>1. CASE UNCHANGED vars
    BY <1>1 DEF vars, client, party, handler, IInv, TypeOK, KnowsFinalized, CurrentSession
<1> QED
    BY <1>1, ClientStep, PartyStep, HandlerStep DEF Next

\* The handler, the client, the party and the channels keep to their types, and
\* what the handler has read is never ahead of the client.
THEOREM TypeCorrect == Spec => []TypeOK
<1>1. IInv => TypeOK
    BY DEF IInv
<1> QED
    BY <1>1, InitIInv, NextIInv, PTL DEF Spec

\* In a state of the invariant, a step that asks for a justification asks for
\* one of a block that is not final after the step either.
LEMMA StepRequests ==
    ASSUME IInv, Next
    PROVE  \A header \in requested' \ requested : header.number > finalized'
<1> USE Bounds
<1>1. CASE TimeOut
    <2>1. \A header \in requested' \ requested : header.number = stop
        BY <1>1, Requests DEF IInv, TimeOut
    <2>2. stop > finalized /\ finalized' = finalized
        BY <1>1, NextBlock DEF IInv, KnowsFinalized, TimeOut, client
    <2> QED
        BY <2>1, <2>2
<1>2. ASSUME NEW c \in Channels, TakeNotification(c)
      PROVE  \A header \in requested' \ requested : header.number > finalized'
    <2> DEFINE num == Head(queue[c])
    <2>1. CASE Finalizes(num)
        <3>1. RequestJustification(stop, 0, {h \in requested : h.number > num})
            BY <1>2, <2>1 DEF TakeNotification
        <3>2. requested' \ requested = {}
            <4>1. \A header \in requested' \ requested : 0 > Cadence
                BY <3>1, Requests DEF IInv
            <4> QED
                BY <4>1
        <3> QED
            BY <3>2
    <2>2. CASE ~Finalizes(num)
        <3>1. /\ RequestJustification(stop, sinceFinalization, requested)
              /\ finalized' = finalized
            BY <1>2, <2>2 DEF TakeNotification, client
        <3>2. \A header \in requested' \ requested : header.number = stop
            BY <3>1, Requests DEF IInv
        <3>3. stop > finalized
            BY <1>2, NextBlock DEF IInv, KnowsFinalized, TakeNotification
        <3> QED
            BY <3>1, <3>2, <3>3
    <2> QED
        BY <2>1, <2>2
<1>3. CASE Tick \/ ImportBlock \/ ImportFork \/ StopImport
    BY <1>3 DEF Tick, ImportBlock, ImportFork, StopImport
<1>4. ASSUME NEW header \in requested,
             \/ \E justification \in Justifications : Answer(header, justification)
             \/ LoseRequest(header)
      PROVE  requested' \subseteq requested
    BY <1>4 DEF Answer, LoseRequest
<1>5. CASE EnterSession \/ SkipSessionOnError \/ LeaveSession \/ PartyPanics
    BY <1>5 DEF EnterSession, SkipSessionOnError, LeaveSession, PartyPanics
<1>6. ASSUME NEW num \in 1 .. MaxBlock, AuthorityJustification(num)
      PROVE  requested' = requested
    BY <1>6 DEF AuthorityJustification
<1>7. CASE ReadSession \/ Wake \/ Return
    BY <1>7 DEF ReadSession, Wake, Return
<1> QED
    BY <1>1, <1>2, <1>3, <1>4, <1>5, <1>6, <1>7 DEF Next

\* No justification is requested of a block that is final, whatever the handler
\* has finalised since it read the end of its session.
THEOREM OnlyNeededRequests == Spec => RequestsAreNeeded
<1>1. IInv /\ [Next]_vars => [\A header \in requested' \ requested : header.number > finalized']_vars
    BY StepRequests DEF vars
<1> QED
    BY <1>1, InitIInv, NextIInv, PTL DEF Spec, RequestsAreNeeded
=============================================================================
