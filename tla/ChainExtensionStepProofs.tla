---------------------- MODULE ChainExtensionStepProofs ----------------------
(***************************************************************************)
(* The walk of chain_extension_step computes ChainExtension in every block *)
(* tree, for every client and every datum.                                 *)
(***************************************************************************)
EXTENDS ChainExtensionStep, SequenceTheorems, TLAPS

\* What the walk has established when it is at hash.
WalkInv ==
    /\ {lastFinalized, data.hash} \subseteq known
    /\ Number[data.hash] = data.number
    /\ hash \in Ancestors[data.hash]
    /\ lastFinalized \in Ancestors[data.hash] => Number[hash] >= Number[lastFinalized]
    /\ extension = Path(hash, data.hash)

Closed == \A b \in known : Ancestors[b] \subseteq known

IInv ==
    /\ TypeOK
    /\ Closed
    /\ pc = "start" => hash = data.hash /\ extension = <<>>
    /\ pc = "walk" => WalkInv
    /\ ReturnsPath

\* A chain is closed under ancestors.
LEMMA ChainsAreClosed ==
    \A b \in Blocks : /\ b \in Ancestors[b]
                      /\ Ancestors[b] \subseteq Blocks
                      /\ \A a \in Ancestors[b] : Ancestors[a] \subseteq Ancestors[b]
BY ChainAssumption

\* AncestorAt(b, h) is the one block of height h on the chain of b.
LEMMA OneBlockOfEachHeight ==
    \A b \in Blocks : \A h \in 0..Number[b] :
        /\ AncestorAt(b, h) \in Ancestors[b]
        /\ AncestorAt(b, h) \in Blocks
        /\ Number[AncestorAt(b, h)] = h
        /\ \A a \in Ancestors[b] : Number[a] = h => a = AncestorAt(b, h)
BY ChainAssumption DEF AncestorAt

\* Every block of a chain lies at one of its heights.
LEMMA HeightOnChain ==
    \A b \in Blocks : \A a \in Ancestors[b] : Number[a] \in 0..Number[b]
BY ChainAssumption, GenesisAssumption

\* The parent is the block one below on the chain.
LEMMA ParentIsBelow ==
    \A b \in Blocks : Number[b] > 0 =>
        Parent(b) \in Ancestors[b] /\ Number[Parent(b)] = Number[b] - 1
BY OneBlockOfEachHeight, GenesisAssumption DEF Parent

\* A path is a sequence of blocks.
LEMMA PathType ==
    ASSUME NEW c \in Blocks, NEW b \in Ancestors[c]
    PROVE  Path(b, c) \in Seq(Blocks)
<1>1. b \in Blocks /\ Number[b] \in Nat /\ Number[c] \in Nat /\ Number[b] =< Number[c]
    BY ChainAssumption, GenesisAssumption
<1>2. \A i \in 1..(Number[c] - Number[b]) : AncestorAt(c, Number[b] + i) \in Blocks
    BY <1>1, OneBlockOfEachHeight
<1>3. Number[c] - Number[b] \in Nat
    BY <1>1
<1> QED
    BY <1>2, <1>3, IsASeq DEF Path

\* There is nothing on the path from a block to itself.
LEMMA EmptyPath ==
    ASSUME NEW c \in Blocks
    PROVE  Path(c, c) = <<>>
<1>1. Number[c] \in Nat
    BY GenesisAssumption
<1>2. Path(c, c) \in Seq(Blocks)
    BY PathType, ChainsAreClosed
<1>3. DOMAIN Path(c, c) = 1..0
    BY <1>1 DEF Path
<1>4. Len(Path(c, c)) = 0
    BY <1>2, <1>3
<1> QED
    BY <1>2, <1>4, EmptySeq

\* The path from the parent starts with the block itself.
LEMMA LongerPath ==
    ASSUME NEW c \in Blocks, NEW b \in Ancestors[c], Number[b] > 0
    PROVE  Path(Parent(b), c) = <<b>> \o Path(b, c)
<1> DEFINE p == Path(b, c)
           q == Path(Parent(b), c)
           r == <<b>> \o p
<1>1. b \in Blocks /\ Number[b] \in Nat /\ Number[c] \in Nat /\ Number[b] =< Number[c]
    BY ChainAssumption, GenesisAssumption
<1>2. Parent(b) \in Ancestors[b] /\ Parent(b) \in Ancestors[c] /\ Number[Parent(b)] = Number[b] - 1
    BY <1>1, ParentIsBelow, ChainsAreClosed
<1>3. p \in Seq(Blocks) /\ q \in Seq(Blocks) /\ <<b>> \in Seq(Blocks)
    BY <1>1, <1>2, PathType
<1>4. Len(p) = Number[c] - Number[b] /\ Len(q) = Number[c] - Number[b] + 1
    BY <1>1, <1>2, <1>3 DEF Path
<1>5. r \in Seq(Blocks) /\ Len(r) = Len(p) + 1
    BY <1>3, ConcatProperties
<1>6. ASSUME NEW i \in 1..Len(q)
      PROVE  q[i] = r[i]
    <2>1. q[i] = AncestorAt(c, Number[b] - 1 + i)
        BY <1>1, <1>2, <1>4 DEF Path
    <2>2. CASE i = 1
        <3>1. q[i] = b
            BY <1>1, <2>1, <2>2, OneBlockOfEachHeight, HeightOnChain
        <3>2. r[i] = b
            BY <1>3, <2>2, ConcatProperties
        <3> QED
            BY <3>1, <3>2
    <2>3. CASE i # 1
        <3>1. i - 1 \in 1..Len(p)
            BY <1>4, <1>1, <2>3
        <3>2. r[i] = p[i - 1]
            BY <1>3, <1>4, <1>1, <2>3, ConcatProperties
        <3>3. p[i - 1] = AncestorAt(c, Number[b] + (i - 1))
            BY <1>4, <1>1, <3>1 DEF Path
        <3>4. Number[b] + (i - 1) = Number[b] - 1 + i
            BY <1>1
        <3> QED
            BY <2>1, <3>2, <3>3, <3>4
    <2> QED
        BY <2>2, <2>3
<1>7. Len(q) = Len(r)
    BY <1>4, <1>5, <1>1
<1> HIDE DEF p, q, r
<1>8. q = r
    BY <1>3, <1>5, <1>6, <1>7, SeqEqual
<1> QED
    BY <1>8 DEF p, q, r

LEMMA InitIInv == Init => IInv
BY DataAssumption DEF Init, IInv, TypeOK, Closed, ReturnsPath

LEMMA NextIInv == IInv /\ [Next]_vars => IInv'
<1> SUFFICES ASSUME IInv, [Next]_vars
             PROVE  IInv'
    OBVIOUS
<1> USE DEF IInv
<1>t. /\ data.hash \in Blocks /\ data.number \in Nat
      /\ Number[data.hash] \in Nat /\ Number[lastFinalized] \in Nat /\ Number[hash] \in Nat
    BY DataAssumption, GenesisAssumption DEF TypeOK
<1>1. CASE Refuse
    <2>1. pc' = "done" /\ extension' = <<>> /\ UNCHANGED <<args, hash>>
        BY <1>1 DEF Refuse, Return
    <2>2. TypeOK' /\ Closed'
        BY <2>1 DEF TypeOK, Closed, args
    <2>3. ReturnsPath'
        <3>1. CASE data.hash = lastFinalized
            BY <3>1, <1>t, <2>1, EmptyPath DEF ReturnsPath, args
        <3>2. CASE data.hash # lastFinalized
            BY <3>2, <1>1, <2>1 DEF ReturnsPath, args, Refuse
        <3> QED
            BY <3>1, <3>2
    <2> QED
        BY <2>1, <2>2, <2>3
<1>2. CASE Begin
    <2>1. pc' = "walk" /\ UNCHANGED <<args, hash, extension>>
        BY <1>2 DEF Begin
    <2>2. TypeOK' /\ Closed' /\ ReturnsPath'
        BY <2>1 DEF TypeOK, Closed, args, ReturnsPath
    <2>3. hash = data.hash /\ extension = <<>>
        BY <1>2 DEF Begin
    <2>4. lastFinalized \in Ancestors[data.hash] => Number[hash] >= Number[lastFinalized]
        BY <2>3, <1>t, ChainAssumption
    <2>5. WalkInv
        BY <1>2, <1>t, <2>3, <2>4, ChainsAreClosed, EmptyPath DEF WalkInv, Begin
    <2>6. WalkInv'
        BY <2>1, <2>5 DEF WalkInv, args, Path
    <2> QED
        BY <2>1, <2>2, <2>6
<1>3. CASE Walk
    <2>1. /\ pc = "walk" /\ pc' = "walk"
          /\ hash' = Parent(hash) /\ extension' = <<hash>> \o extension
          /\ UNCHANGED args
          /\ Number[hash] > Number[lastFinalized]
        BY <1>3 DEF Walk
    <2>2. WalkInv /\ hash \in Blocks
        BY <2>1 DEF TypeOK
    <2>3. hash \in Ancestors[data.hash] /\ Number[hash] > 0
        BY <1>t, <2>1, <2>2 DEF WalkInv
    <2>4. /\ Parent(hash) \in Blocks
          /\ Parent(hash) \in Ancestors[data.hash]
          /\ Number[Parent(hash)] = Number[hash] - 1
        BY <1>t, <2>2, <2>3, ParentIsBelow, ChainsAreClosed
    <2>5. extension' = Path(hash', data.hash)
        BY <1>t, <2>1, <2>2, <2>3, LongerPath DEF WalkInv
    <2>6. WalkInv'
        <3>1. lastFinalized \in Ancestors[data.hash] => Number[hash'] >= Number[lastFinalized]
            BY <1>t, <2>1, <2>4
        <3> QED
            BY <2>1, <2>2, <2>4, <2>5, <3>1 DEF WalkInv, args, Path
    <2>7. TypeOK'
        <3>1. extension' \in Seq(Blocks)
            BY <1>t, <2>1, <2>4, <2>5, PathType
        <3> QED
            BY <2>1, <2>4, <3>1 DEF TypeOK, args
    <2>8. Closed' /\ ReturnsPath'
        BY <2>1 DEF Closed, args, ReturnsPath
    <2> QED
        BY <2>1, <2>6, <2>7, <2>8
<1>4. CASE Stop
    <2>1. /\ pc = "walk" /\ pc' = "done"
          /\ extension' = IF hash \in known /\ hash = lastFinalized THEN extension ELSE <<>>
          /\ UNCHANGED <<args, hash>>
          /\ ~ (hash \in known /\ Number[hash] > Number[lastFinalized])
        BY <1>4 DEF Stop, Return
    <2>2. WalkInv
        BY <2>1
    <2>3. hash \in known /\ Number[hash] =< Number[lastFinalized]
        BY <1>t, <2>1, <2>2 DEF WalkInv, Closed
    <2>4. lastFinalized \in Ancestors[data.hash] <=> hash = lastFinalized
        BY <1>t, <2>2, <2>3, ChainAssumption DEF WalkInv
    <2>5. ReturnsPath'
        BY <2>1, <2>2, <2>3, <2>4 DEF ReturnsPath, WalkInv, args, Path
    <2>6. TypeOK' /\ Closed'
        BY <2>1 DEF TypeOK, Closed, args
    <2> QED
        BY <2>1, <2>5, <2>6
<1>5. CASE UNCHANGED vars
    BY <1>5 DEF vars, args, TypeOK, Closed, WalkInv, ReturnsPath, Path
<1> QED
    BY <1>1, <1>2, <1>3, <1>4, <1>5 DEF Next

\* The walk keeps to the types, whatever the arguments.
THEOREM TypeCorrect == Spec => []TypeOK
<1>1. IInv => TypeOK
    BY DEF IInv
<1> QED
    BY InitIInv, NextIInv, <1>1, PTL DEF Spec

\* The call returns the path from the last finalised block to the ordered one,
\* lowest block first, or nothing if there is none.
THEOREM Correctness == Spec => []ReturnsPath
<1>1. IInv => ReturnsPath
    BY DEF IInv
<1> QED
    BY InitIInv, NextIInv, <1>1, PTL DEF Spec

\* The loop's error path, a missing header, is never taken.
THEOREM NoHeaderIsMissing == Spec => []NeverLost
<1>1. IInv => NeverLost
    BY DEF IInv, NeverLost, WalkInv, Closed
<1> QED
    BY InitIInv, NextIInv, <1>1, PTL DEF Spec

\* ChainExtension, the operator the aggregator is modelled with, is the set of
\* blocks the walk returns.
THEOREM OperatorIsCorrect == Spec => []ReturnsChainExtension
<1>1. IInv => ReturnsChainExtension
    <2> SUFFICES ASSUME IInv, pc = "done"
                 PROVE  {extension[i] : i \in DOMAIN extension}
                            = ChainExtension(known, lastFinalized, data)
        BY DEF ReturnsChainExtension
    <2> DEFINE e == ChainExtension(known, lastFinalized, data)
               found == /\ {lastFinalized, data.hash} \subseteq known
                        /\ Number[data.hash] = data.number
                        /\ lastFinalized \in Ancestors[data.hash]
    <2>t. /\ data.hash \in Blocks /\ lastFinalized \in Blocks
          /\ Number[data.hash] \in Nat /\ Number[lastFinalized] \in Nat
        BY DataAssumption, GenesisAssumption DEF IInv, TypeOK
    <2>1. CASE ~found
        <3>1. extension = <<>> /\ e = {}
            BY <2>1 DEF IInv, ReturnsPath, ChainExtension
        <3>2. DOMAIN extension = {}
            BY <3>1
        <3> QED
            BY <3>1, <3>2
    <2>2. CASE found
        <3>1. extension = Path(lastFinalized, data.hash)
            BY <2>2 DEF IInv, ReturnsPath
        <3>2. e = {b \in Ancestors[data.hash] : Number[b] > Number[lastFinalized]}
            BY <2>2 DEF ChainExtension
        <3>3. ASSUME NEW i \in DOMAIN extension
              PROVE  extension[i] \in e
            <4>1. /\ i \in 1..(Number[data.hash] - Number[lastFinalized])
                  /\ extension[i] = AncestorAt(data.hash, Number[lastFinalized] + i)
                BY <3>1 DEF Path
            <4>2. Number[lastFinalized] + i \in 0..Number[data.hash]
                BY <4>1, <2>t
            <4>3. /\ extension[i] \in Ancestors[data.hash]
                  /\ Number[extension[i]] = Number[lastFinalized] + i
                BY <4>1, <4>2, <2>t, OneBlockOfEachHeight
            <4> QED
                BY <3>2, <4>1, <4>3, <2>t
        <3>4. ASSUME NEW b \in e
              PROVE  \E i \in DOMAIN extension : b = extension[i]
            <4>1. b \in Ancestors[data.hash] /\ Number[b] > Number[lastFinalized]
                BY <3>2
            <4>2. b \in Blocks /\ Number[b] \in Nat /\ Number[b] =< Number[data.hash]
                BY <4>1, <2>t, ChainAssumption, GenesisAssumption
            <4> DEFINE i == Number[b] - Number[lastFinalized]
            <4>3. i \in 1..(Number[data.hash] - Number[lastFinalized])
                BY <4>1, <4>2, <2>t
            <4>4. i \in DOMAIN extension
                  /\ extension[i] = AncestorAt(data.hash, Number[lastFinalized] + i)
                BY <3>1, <4>3 DEF Path
            <4>5. Number[lastFinalized] + i = Number[b]
                BY <4>2, <2>t
            <4>6. extension[i] = b
                BY <4>1, <4>4, <4>5, <2>t, OneBlockOfEachHeight, HeightOnChain
            <4> QED
                BY <4>4, <4>6
        <3> QED
            BY <3>3, <3>4
    <2> QED
        BY <2>1, <2>2
<1> QED
    BY InitIInv, NextIInv, <1>1, PTL DEF Spec
=============================================================================
