------------------------- MODULE AlephPalletProofs -------------------------
(***************************************************************************)
(* Proofs about AlephPallet, for every session period, every set of        *)
(* accounts and keys, and every list of validators.                        *)
(***************************************************************************)
EXTENDS AlephPallet, TLAPS

\* A number is between the multiples of the period its quotient names.
LEMMA Division ==
    ASSUME NEW n \in Nat, NEW d \in Nat \ {0}
    PROVE  /\ n \div d \in Nat
           /\ n % d \in 0 .. d - 1
           /\ n = d * (n \div d) + (n % d)
BY SMT

\* Multiples of the period that are less than a period apart are equal.
LEMMA Multiples ==
    ASSUME NEW d \in Nat \ {0}, NEW a \in Nat, NEW b \in Nat, NEW k \in Nat,
           d * a <= d * b + k, k < d
    PROVE  a <= b
<1> SUFFICES ASSUME a >= b + 1 PROVE FALSE
    OBVIOUS
<1>1. d * a >= d * (b + 1)
    BY SMT
<1>2. d * (b + 1) = d * b + d
    BY SMT
<1>3. d * a \in Nat /\ d * b \in Nat /\ d * (b + 1) \in Nat
    BY SMT
<1> QED
    BY <1>1, <1>2, <1>3

\* The session goes up by one at the multiples of the period, and only there.
LEMMA SessionSteps ==
    ASSUME NEW n \in Nat
    PROVE  /\ SessionOf(n) \in Nat
           /\ SessionOf(n + 1) = IF (n + 1) % SessionPeriod = 0
                                 THEN SessionOf(n) + 1 ELSE SessionOf(n)
<1> DEFINE d == SessionPeriod
           q == n \div d
           r == n % d
           q1 == (n + 1) \div d
           r1 == (n + 1) % d
<1>1. d \in Nat \ {0}
    BY PalletAssumption
<1>2. q \in Nat /\ r \in 0 .. d - 1 /\ n = d * q + r
    BY <1>1, Division
<1>3. q1 \in Nat /\ r1 \in 0 .. d - 1 /\ n + 1 = d * q1 + r1
    <2>1. n + 1 \in Nat
        OBVIOUS
    <2> QED
        BY <2>1, <1>1, Division
<1> HIDE DEF d, q, r, q1, r1
<1>4. d * q \in Nat /\ d * q1 \in Nat /\ d * (q + 1) \in Nat /\ d * (q + 1) = d * q + d
    BY <1>1, <1>2, <1>3, SMT
<1>5. q <= q1
    BY <1>1, <1>2, <1>3, <1>4, Multiples
<1>6. q1 <= q + 1
    <2>1. d * q1 <= d * (q + 1) + 0
        BY <1>1, <1>2, <1>3, <1>4
    <2> QED
        BY <2>1, <1>1, <1>2, <1>3, Multiples
<1>7. CASE r1 = 0
    <2>1. q1 # q
        BY <1>1, <1>2, <1>3, <1>4, <1>7
    <2> QED
        BY <2>1, <1>2, <1>3, <1>5, <1>6, <1>7 DEF d, q, r1, q1, SessionOf
<1>8. CASE r1 # 0
    <2>1. q1 # q + 1
        BY <1>1, <1>2, <1>3, <1>4, <1>8
    <2> QED
        BY <2>1, <1>2, <1>3, <1>5, <1>6, <1>8 DEF d, q, r1, q1, SessionOf
<1> QED
    BY <1>7, <1>8

LEMMA SessionOfType == ASSUME NEW n \in Nat PROVE SessionOf(n) \in Nat
BY SessionSteps
----------------------------------------------------------------------------
\* pallet_session's index is the session the gadget reckons with, and the last
\* call of change_validators is not later than that.
IndexFollows ==
    /\ currentIndex = SessionOf(number)
    /\ request.at <= currentIndex

IInv == TypeOK /\ IndexFollows /\ ChangeOnTime

LEMMA InitHolds == Init => IInv
<1> SUFFICES ASSUME Init PROVE IInv
    OBVIOUS
<1>1. 0 \in 0 .. MaxBlock /\ SessionOf(0) = 0
    BY PalletAssumption DEF SessionOf
<1>2. queuedKeys \in KeyLists /\ DOMAIN queuedKeys = GenesisValidators
    <2>1. queuedKeys \in [GenesisValidators -> Keys]
        BY PalletAssumption DEF Init
    <2> QED
        BY <2>1, PalletAssumption DEF KeyLists
<1>3. TypeOK
    BY <1>1, <1>2, PalletAssumption DEF Init, TypeOK
<1>4. IndexFollows
    BY <1>1 DEF Init, IndexFollows
<1>5. ChangeOnTime
    BY <1>2 DEF Init, ChangeOnTime
<1> QED
    BY <1>3, <1>4, <1>5 DEF IInv

LEMMA ChangeHolds ==
    ASSUME IInv, NEW list \in Lists, NEW s \in 0 .. SessionOf(MaxBlock),
           ChangeValidators(list, s)
    PROVE  IInv'
<1>1. list \in SUBSET Accounts /\ s \in Nat
    BY PalletAssumption, SessionOfType
<1>2. TypeOK'
    BY <1>1 DEF IInv, TypeOK, ChangeValidators, sessionVars
<1>3. IndexFollows'
    BY DEF IInv, TypeOK, IndexFollows, ChangeValidators, sessionVars
<1>4. ChangeOnTime'
    BY <1>1 DEF IInv, TypeOK, ChangeOnTime, ChangeValidators, sessionVars
<1> QED
    BY <1>2, <1>3, <1>4 DEF IInv

LEMMA SetKeysHolds ==
    ASSUME IInv, NEW a \in Accounts, NEW k \in Keys, SetKeys(a, k)
    PROVE  IInv'
<1>1. TypeOK'
    BY DEF IInv, TypeOK, SetKeys, palletVars
<1>2. IndexFollows' /\ ChangeOnTime'
    BY DEF IInv, IndexFollows, ChangeOnTime, SetKeys, palletVars
<1> QED
    BY <1>1, <1>2 DEF IInv

\* A rotation keeps the types, and what ChangeOnTime says is so after it: the
\* session it plans is the first for which the change is due, or the change has
\* been taken before, or it is still waiting.
LEMMA RotateHolds ==
    ASSUME IInv, Rotate, request' = request
    PROVE  /\ validators' \in {None} \cup {Some(V) : V \in SUBSET Accounts}
           /\ sessionForChange' \in {None} \cup {Some(s) : s \in 0 .. SessionOf(MaxBlock)}
           /\ authorities' \in KeyLists /\ queuedKeys' \in KeyLists
           /\ ChangeOnTime'
<1> DEFINE planned == currentIndex + 2
           next == IF TakesChange(planned) THEN UNION validators ELSE DOMAIN queuedKeys
           due == IF request.for > request.at + 2 THEN request.for ELSE request.at + 2
<1>1. /\ currentIndex' = currentIndex + 1
      /\ IF TakesChange(planned)
         THEN validators' = None /\ sessionForChange' = None
         ELSE UNCHANGED <<validators, sessionForChange>>
      /\ queuedKeys' = [a \in next |-> nextKeys[a]]
      /\ authorities' = queuedKeys
    BY DEF Rotate, OnNewSession
<1>2. next \in SUBSET Accounts
    BY DEF IInv, TypeOK, KeyLists, None, Some
<1>3. queuedKeys' \in [next -> Keys]
    BY <1>1, <1>2 DEF IInv, TypeOK
<1>4. queuedKeys' \in KeyLists /\ authorities' \in KeyLists
    BY <1>1, <1>2, <1>3 DEF KeyLists, IInv, TypeOK
<1>5. /\ request.for \in Nat /\ request.at \in Int /\ currentIndex \in Nat
      /\ request.at <= currentIndex
    BY DEF IInv, TypeOK, IndexFollows
<1>6. ChangeOnTime'
    <2>1. CASE currentIndex + 1 < due
        <3>1. validators = Some(request.list) /\ sessionForChange = Some(request.for)
            BY <2>1 DEF IInv, ChangeOnTime
        <3>2. TakesChange(planned) <=> request.for <= currentIndex + 2
            BY <3>1, <1>5 DEF TakesChange, Some
        <3>3. CASE request.for <= currentIndex + 2
            <4>1. next = request.list
                BY <3>1, <3>2, <3>3 DEF Some
            <4>2. ~(currentIndex' + 1 < due)
                BY <1>1, <1>5, <3>3
            <4> QED
                BY <4>1, <4>2, <1>1, <1>3, <3>2, <3>3 DEF ChangeOnTime
        <3>4. CASE ~(request.for <= currentIndex + 2)
            <4>1. currentIndex' + 1 < due
                BY <1>1, <1>5, <3>4
            <4> QED
                BY <4>1, <1>1, <3>1, <3>2, <3>4 DEF ChangeOnTime
        <3> QED
            BY <3>3, <3>4
    <2>2. CASE ~(currentIndex + 1 < due)
        <3>1. /\ validators = None /\ sessionForChange = None
              /\ DOMAIN queuedKeys = request.list
            BY <2>2 DEF IInv, ChangeOnTime
        <3>2. ~TakesChange(planned)
            BY <3>1 DEF TakesChange, None
        <3>3. ~(currentIndex' + 1 < due)
            BY <2>2, <1>1, <1>5
        <3> QED
            BY <3>1, <3>2, <3>3, <1>1, <1>3 DEF ChangeOnTime
    <2> QED
        BY <2>1, <2>2
<1> QED
    BY <1>1, <1>4, <1>6 DEF IInv, TypeOK

LEMMA NewBlockHolds ==
    ASSUME IInv, NewBlock
    PROVE  IInv'
<1>1. number \in Nat /\ number' = number + 1 /\ number' \in 0 .. MaxBlock
    BY PalletAssumption DEF IInv, TypeOK, NewBlock
<1>2. CASE (number + 1) % SessionPeriod = 0
    <2>1. Rotate /\ request' = request /\ nextKeys' = nextKeys
        BY <1>2 DEF NewBlock
    <2>2. currentIndex' = currentIndex + 1
        BY <2>1 DEF Rotate
    <2>3. TypeOK'
        BY <1>1, <2>1, <2>2, RotateHolds DEF IInv, TypeOK
    <2>4. IndexFollows'
        BY <1>1, <1>2, <2>1, <2>2, SessionSteps DEF IInv, TypeOK, IndexFollows
    <2> QED
        BY <2>1, <2>3, <2>4, RotateHolds DEF IInv
<1>3. CASE (number + 1) % SessionPeriod # 0
    <2>1. UNCHANGED <<palletVars, sessionVars, request>>
        BY <1>3 DEF NewBlock, sessionVars
    <2>2. TypeOK'
        BY <1>1, <2>1 DEF IInv, TypeOK, palletVars, sessionVars
    <2>3. IndexFollows'
        BY <1>1, <1>3, <2>1, SessionSteps DEF IInv, IndexFollows, sessionVars
    <2>4. ChangeOnTime'
        BY <2>1 DEF IInv, ChangeOnTime, palletVars, sessionVars
    <2> QED
        BY <2>2, <2>3, <2>4 DEF IInv
<1> QED
    BY <1>2, <1>3

LEMMA Inductive == Spec => []IInv
<1>1. Init => IInv
    BY InitHolds
<1>2. IInv /\ [Next]_vars => IInv'
    <2> SUFFICES ASSUME IInv, [Next]_vars PROVE IInv'
        OBVIOUS
    <2>1. CASE NewBlock
        BY <2>1, NewBlockHolds
    <2>2. CASE \E list \in Lists, s \in 0 .. SessionOf(MaxBlock) : ChangeValidators(list, s)
        BY <2>2, ChangeHolds
    <2>3. CASE \E a \in Accounts, k \in Keys : SetKeys(a, k)
        BY <2>3, SetKeysHolds
    <2>4. CASE UNCHANGED vars
        BY <2>4 DEF vars, palletVars, sessionVars, IInv, TypeOK, IndexFollows, ChangeOnTime
    <2> QED
        BY <2>1, <2>2, <2>3, <2>4 DEF Next
<1> QED
    BY <1>1, <1>2, PTL DEF Spec

\* The storage of the pallet and of pallet_session keeps its types.
THEOREM PalletTypeCorrect == Spec => []TypeOK
<1>1. IInv => TypeOK
    BY DEF IInv
<1> QED
    BY <1>1, Inductive, PTL

\* A change of validators is neither lost nor early: it waits until the session
\* it was asked for is planned, and its list is then the next one.
THEOREM ChangesAreOnTime == Spec => []ChangeOnTime
<1>1. IInv => ChangeOnTime
    BY DEF IInv
<1> QED
    BY <1>1, Inductive, PTL

\* The authorities of a session are those the runtime API announced at the last
\* block before it, and they stay for the whole session.
THEOREM AnnouncedAuthorities == Spec => AuthoritiesAsAnnounced
<1> DEFINE A == authorities' = IF SessionOf(number') = SessionOf(number)
                               THEN authorities ELSE NextSessionAuthorities
<1>1. IInv /\ [Next]_vars => [A]_vars
    <2> SUFFICES ASSUME IInv, Next PROVE A
        OBVIOUS
    <2>1. CASE NewBlock
        <3>1. number \in Nat /\ number' = number + 1
            BY <2>1 DEF IInv, TypeOK, NewBlock
        <3>2. CASE (number + 1) % SessionPeriod = 0
            <4>1. SessionOf(number') # SessionOf(number)
                BY <3>1, <3>2, SessionSteps
            <4> QED
                BY <4>1, <2>1, <3>2 DEF NewBlock, Rotate, OnNewSession, NextSessionAuthorities
        <3>3. CASE (number + 1) % SessionPeriod # 0
            <4>1. SessionOf(number') = SessionOf(number)
                BY <3>1, <3>3, SessionSteps
            <4> QED
                BY <4>1, <2>1, <3>3 DEF NewBlock, palletVars
        <3> QED
            BY <3>2, <3>3
    <2>2. CASE \E list \in Lists, s \in 0 .. SessionOf(MaxBlock) : ChangeValidators(list, s)
        BY <2>2 DEF ChangeValidators
    <2>3. CASE \E a \in Accounts, k \in Keys : SetKeys(a, k)
        BY <2>3 DEF SetKeys, palletVars
    <2> QED
        BY <2>1, <2>2, <2>3 DEF Next
<1> QED
    BY <1>1, Inductive, PTL DEF Spec, AuthoritiesAsAnnounced
=============================================================================
