------------------------ MODULE AlephFinalityProofs ------------------------
(***************************************************************************)
(* The gadget keeps its promise for every block tree, every committee and  *)
(* every output of AlephBFT: types, keyboxes, and, where no node restarts  *)
(* or no runtime call fails, that nobody signs two conflicting blocks of a *)
(* session and no two nodes finalise conflicting blocks.                   *)
(***************************************************************************)
EXTENDS AlephFinality, FiniteSetTheorems, TLAPS

(* Block trees and sessions *)

\* Ancestors of ancestors are ancestors.
LEMMA AncestorsTransitive ==
    \A b \in Blocks : \A a \in Ancestors[b] : Ancestors[a] \subseteq Ancestors[b]
BY ChainAssumption

\* Ancestors are blocks.
LEMMA AncestorsType ==
    \A b \in Blocks : Ancestors[b] \subseteq Blocks /\ b \in Ancestors[b]
BY ChainAssumption

\* A lower block of a chain is an ancestor of a higher one.
LEMMA OnOneChain ==
    \A b \in Blocks : \A a, c \in Ancestors[b] :
        Number[a] =< Number[c] => a \in Ancestors[c]
BY ChainAssumption

\* Two blocks of one chain are comparable.
LEMMA ChainComparable ==
    \A b \in Blocks : \A a, c \in Ancestors[b] : Comparable(a, c)
<1> SUFFICES ASSUME NEW b \in Blocks, NEW a \in Ancestors[b], NEW c \in Ancestors[b]
             PROVE  Comparable(a, c)
    OBVIOUS
<1>1. a \in Blocks /\ c \in Blocks
    BY AncestorsType
<1>2. Number[a] \in Nat /\ Number[c] \in Nat
    BY <1>1, GenesisAssumption
<1>3. CASE Number[a] =< Number[c]
    BY <1>3, OnOneChain DEF Comparable
<1>4. CASE Number[c] =< Number[a]
    BY <1>4, OnOneChain DEF Comparable
<1> QED
    BY <1>2, <1>3, <1>4

\* AncestorAt(b, h) is the one block of height h on the chain of b.
LEMMA AncestorAtIsOnChain ==
    \A b \in Blocks : \A h \in 0..Number[b] :
        /\ AncestorAt(b, h) \in Ancestors[b]
        /\ AncestorAt(b, h) \in Blocks
        /\ Number[AncestorAt(b, h)] = h
BY ChainAssumption DEF AncestorAt

\* A block of a chain is what AncestorAt gives at its height.
LEMMA AncestorAtNumber ==
    \A b \in Blocks : \A a \in Ancestors[b] : AncestorAt(b, Number[a]) = a
<1> SUFFICES ASSUME NEW b \in Blocks, NEW a \in Ancestors[b]
             PROVE  AncestorAt(b, Number[a]) = a
    OBVIOUS
<1>1. a \in Blocks /\ Number[a] \in Nat /\ Number[b] \in Nat /\ Number[a] =< Number[b]
    BY ChainAssumption, GenesisAssumption
<1>2. AncestorAt(b, Number[a]) \in Ancestors[b] /\ Number[AncestorAt(b, Number[a])] = Number[a]
    BY <1>1, AncestorAtIsOnChain
<1> QED
    BY <1>2, ChainAssumption

\* A chain and the chain of one of its blocks have the same lower blocks.
LEMMA AncestorAtBelow ==
    \A b \in Blocks : \A a \in Ancestors[b] : \A h \in 0..Number[a] :
        AncestorAt(a, h) = AncestorAt(b, h)
<1> SUFFICES ASSUME NEW b \in Blocks, NEW a \in Ancestors[b], NEW h \in 0..Number[a]
             PROVE  AncestorAt(a, h) = AncestorAt(b, h)
    OBVIOUS
<1>1. a \in Blocks
    BY AncestorsType
<1>2. AncestorAt(a, h) \in Ancestors[a] /\ Number[AncestorAt(a, h)] = h
    BY <1>1, AncestorAtIsOnChain
<1>3. AncestorAt(a, h) \in Ancestors[b]
    BY <1>2, AncestorsTransitive
<1> QED
    BY <1>2, <1>3, AncestorAtNumber

\* The parent is the block one below on the chain.
LEMMA ParentIsBelow ==
    \A b \in Blocks : Number[b] > 0 =>
        Parent(b) \in Ancestors[b] /\ Parent(b) \in Blocks
        /\ Number[Parent(b)] = Number[b] - 1
BY AncestorAtIsOnChain, GenesisAssumption DEF Parent

\* A session's last block is a block number, and sessions follow each other.
LEMMA LastBlockMonotone ==
    \A s, t \in Nat : /\ LastBlockOf(s) \in Nat
                      /\ s =< t => LastBlockOf(s) =< LastBlockOf(t)
                      /\ s < t => LastBlockOf(s) < LastBlockOf(t)
<1> SUFFICES ASSUME NEW s \in Nat, NEW t \in Nat
             PROVE  /\ LastBlockOf(s) \in Nat
                    /\ s =< t => LastBlockOf(s) =< LastBlockOf(t)
                    /\ s < t => LastBlockOf(s) < LastBlockOf(t)
    OBVIOUS
<1> QED
    BY SMT, GenesisAssumption DEF LastBlockOf

\* The session of a block is the one session it lies in.
LEMMA SessionBounds ==
    \A n \in Nat : /\ SessionOf(n) \in Nat
                   /\ n =< LastBlockOf(SessionOf(n))
                   /\ SessionOf(n) * SessionPeriod =< n
BY SMT, GenesisAssumption DEF SessionOf, LastBlockOf

\* A block lies in session s or before it when it is not higher than the
\* last block of s.
LEMMA SessionOrder ==
    \A n, s \in Nat : SessionOf(n) =< s <=> n =< LastBlockOf(s)
<1> SUFFICES ASSUME NEW n \in Nat, NEW s \in Nat
             PROVE  SessionOf(n) =< s <=> n =< LastBlockOf(s)
    OBVIOUS
<1>1. CASE SessionOf(n) =< s
    BY <1>1, SessionBounds, LastBlockMonotone
<1>2. CASE SessionOf(n) >= s + 1
    <2> DEFINE q == SessionOf(n) - 1
    <2>1. q \in Nat /\ s =< q /\ q + 1 = SessionOf(n)
        BY <1>2, SessionBounds
    <2>2. LastBlockOf(s) =< LastBlockOf(q) /\ LastBlockOf(s) \in Nat /\ LastBlockOf(q) \in Nat
        BY <2>1, LastBlockMonotone
    <2>3. LastBlockOf(q) = SessionOf(n) * SessionPeriod - 1
        BY <2>1 DEF LastBlockOf
    <2>4. LastBlockOf(q) < n
        BY <2>2, <2>3, SessionBounds, GenesisAssumption
    <2> QED
        BY <1>2, <2>2, <2>4, SessionBounds
<1> QED
    BY <1>1, <1>2, SessionBounds
----------------------------------------------------------------------------
\* What is assumed of the constants, as far as the types need it.
LEMMA Constants ==
    /\ Genesis \in Blocks /\ Number \in [Blocks -> Nat]
    /\ Data \in [Sessions -> SUBSET Datum]
    /\ GenesisCommittee \in SUBSET Nodes
    /\ NextAuthorities \in [Blocks -> SUBSET Nodes]
    /\ InitiallyImported \in SUBSET Blocks /\ Genesis \in InitiallyImported
    /\ MaxSession \in Nat /\ MaxCrashes \in Nat
    /\ MaxOrdered \in [Sessions -> Nat]
    /\ Sessions \subseteq Nat /\ 0 \in Sessions
    /\ PruneWindow \in Nat
BY GenesisAssumption, ParameterAssumption DEF Sessions

LEMMA NoAggregatorType == NoAggregator \in Aggregator
BY Constants DEF NoAggregator, Aggregator

\* The committees are sets of nodes.
LEMMA AuthoritiesType ==
    ASSUME TypeOK, NEW n \in Honest, NEW s \in Sessions
    PROVE  AuthoritiesFor(n, s) \subseteq SUBSET Nodes
<1>1. CASE s = 0
    BY <1>1, Constants DEF AuthoritiesFor
<1>2. CASE s # 0
    <2> SUFFICES ASSUME NEW b \in imported[n], Number[b] >= LastBlockOf(s - 1)
                 PROVE  NextAuthorities[AncestorAt(b, LastBlockOf(s - 1))] \in SUBSET Nodes
        BY <1>2 DEF AuthoritiesFor, BestBlocks
    <2>1. b \in Blocks /\ Number[b] \in Nat
        BY Constants DEF TypeOK
    <2>2. LastBlockOf(s - 1) \in Nat
        BY <1>2, Constants, LastBlockMonotone
    <2>3. AncestorAt(b, LastBlockOf(s - 1)) \in Blocks
        BY <2>1, <2>2, AncestorAtIsOnChain
    <2> QED
        BY <2>3, Constants
<1> QED
    BY <1>1, <1>2

\* Going to the next session keeps the party's types.
LEMMA NextSessionType ==
    ASSUME TypeOK, NEW n \in Honest, NextSession(n, known[n])
    PROVE  /\ sess' \in [Honest -> Sessions]
           /\ phase' \in [Honest -> {"entering", "loaded", "running"}]
           /\ known' \in [Honest -> [Sessions -> SUBSET Nodes]]
<1>1. sess[n] \in Nat /\ sess[n] + 1 \in Sessions
    <2>1. sess[n] < MaxSession /\ sess[n] \in Sessions
        BY DEF TypeOK, NextSession
    <2> QED
        BY <2>1, Constants DEF Sessions
<1> DEFINE s == sess[n]
           pruned == [t \in Sessions |-> IF t >= s - PruneWindow THEN known[n][t] ELSE {}]
           map == IF s >= PruneWindow /\ s % PruneWindow = 0 THEN pruned ELSE known[n]
<1>2. known[n] \in [Sessions -> SUBSET Nodes]
    BY DEF TypeOK
<1>3. pruned \in [Sessions -> SUBSET Nodes]
    BY <1>2
<1>4. known' = [known EXCEPT ![n] = map]
    BY DEF NextSession
<1>5. known' \in [Honest -> [Sessions -> SUBSET Nodes]]
    BY <1>2, <1>3, <1>4 DEF TypeOK
<1> QED
    BY <1>1, <1>5 DEF TypeOK, NextSession

\* What an ordered datum does: the blocks adopted lie between the old tip and
\* the new one, on one chain, and not above the session's last block.
LEMMA OrderedDatumEffect ==
    ASSUME TypeOK, NEW n \in Honest, NEW s \in Sessions, NEW d \in Data[s],
           OrderedDatum(n, s, d)
    PROVE  \E adopted \in SUBSET Blocks, a \in Aggregator :
              /\ agg[n][s].st = "running" /\ a.st = "running"
              /\ agg' = [agg EXCEPT ![n][s] = a]
              /\ signed' = signed \cup {<<n, b>> : b \in adopted}
              /\ agg[n][s].tip \in Ancestors[a.tip]
              /\ \A b \in adopted : /\ b \in Ancestors[a.tip]
                                    /\ agg[n][s].tip \in Ancestors[b]
                                    /\ Number[b] > Number[agg[n][s].tip]
                                    /\ Number[b] =< LastBlockOf(s)
<1> DEFINE old == agg[n][s]
           extension == IF old.lastSeen THEN {} ELSE ChainExtension(imported[n], old.tip, d)
           adopted == {b \in extension : Number[b] =< LastBlockOf(s)}
           highest == {b \in adopted : \A c \in adopted : Number[c] =< Number[b]}
           seen == old.lastSeen \/ \E b \in extension : Number[b] >= LastBlockOf(s)
<1>1. old \in Aggregator /\ d.hash \in Blocks
    <2>1. d \in Datum
        BY Constants
    <2> QED
        BY <2>1 DEF TypeOK, Datum
<1>2. extension = {} \/ /\ old.tip \in Ancestors[d.hash]
                        /\ extension = {b \in Ancestors[d.hash] : Number[b] > Number[old.tip]}
    BY DEF ChainExtension
<1>3. PICK tip \in IF adopted = {} THEN {old.tip} ELSE highest, l \in BOOLEAN :
          agg' = [agg EXCEPT ![n][s] =
                    [@ EXCEPT !.tip = tip, !.pos = old.pos + 1, !.lastSeen = l]]
    <2>1. PICK tip \in IF adopted = {} THEN {old.tip} ELSE highest :
              agg' = [agg EXCEPT ![n][s] =
                        [@ EXCEPT !.tip = tip, !.pos = old.pos + 1, !.lastSeen = seen]]
        BY Zenon DEF OrderedDatum
    <2>2. seen \in BOOLEAN
        BY <1>1 DEF Aggregator
    <2> HIDE DEF seen
    <2> QED
        BY <2>1, <2>2, Zenon
<1> DEFINE a == [old EXCEPT !.tip = tip, !.pos = old.pos + 1, !.lastSeen = l]
<1>4. old.tip \in Blocks /\ old.pos \in Nat /\ old.pos + 1 \in Nat
    BY <1>1 DEF Aggregator
<1>5. adopted \subseteq Blocks
    BY <1>1, <1>2, AncestorsType
<1>6. tip \in Blocks
    BY <1>3, <1>4, <1>5
<1>7. a \in Aggregator /\ a.st = old.st /\ a.tip = tip
    <2> HIDE DEF extension, adopted, highest, seen
    <2>1. /\ old \in Aggregator /\ tip \in Blocks /\ old.pos + 1 \in Nat /\ l \in BOOLEAN
        BY <1>1, <1>4, <1>6
    <2> HIDE DEF old
    <2> QED
        BY <2>1 DEF Aggregator
<1>8. agg' = [agg EXCEPT ![n][s] = a] /\ old.st = "running"
      /\ signed' = signed \cup {<<n, b>> : b \in adopted}
    BY <1>3 DEF OrderedDatum, TypeOK
<1>9. old.tip \in Ancestors[tip]
    <2>1. CASE adopted = {}
        BY <1>3, <1>4, <2>1, AncestorsType
    <2>2. CASE adopted # {}
        <3>1. tip \in Ancestors[d.hash] /\ old.tip \in Ancestors[d.hash]
              /\ Number[tip] > Number[old.tip]
            BY <1>2, <1>3, <2>2
        <3> QED
            BY <3>1, <1>1, <1>4, <1>6, Constants, OnOneChain
    <2> QED
        BY <2>1, <2>2
<1>10. ASSUME NEW b \in adopted
       PROVE  /\ b \in Ancestors[tip] /\ old.tip \in Ancestors[b]
              /\ Number[b] > Number[old.tip] /\ Number[b] =< LastBlockOf(s)
    <2>1. /\ old.tip \in Ancestors[d.hash] /\ b \in Ancestors[d.hash]
          /\ Number[b] > Number[old.tip] /\ Number[b] =< LastBlockOf(s)
        BY <1>2
    <2>2. tip \in Ancestors[d.hash] /\ Number[b] =< Number[tip]
        BY <1>2, <1>3
    <2>3. b \in Ancestors[tip]
        BY <1>1, <2>1, <2>2, OnOneChain
    <2>4. old.tip \in Ancestors[b]
        BY <1>1, <1>4, <1>5, <2>1, OnOneChain, Constants
    <2> QED
        BY <2>1, <2>3, <2>4
<1> HIDE DEF extension, adopted, highest, seen
<1> QED
    BY <1>5, <1>7, <1>8, <1>9, <1>10
----------------------------------------------------------------------------
(* Types *)

LEMMA InitType == Init => TypeOK
<1> SUFFICES ASSUME Init
             PROVE  TypeOK
    OBVIOUS
<1>1. agg \in [Honest -> [Sessions -> Aggregator]]
    BY NoAggregatorType DEF Init
<1>2. order \in [Sessions -> Seq(Datum)] /\ \A s \in Sessions : Len(order[s]) =< MaxOrdered[s]
    BY Constants DEF Init
<1> QED
    BY <1>1, <1>2, Constants DEF Init, TypeOK

LEMMA OrderedDatumType ==
    ASSUME TypeOK, NEW n \in Honest, NEW s \in Sessions, NEW d \in Data[s],
           OrderedDatum(n, s, d)
    PROVE  TypeOK'
<1>1. PICK adopted \in SUBSET Blocks, a \in Aggregator :
          /\ agg' = [agg EXCEPT ![n][s] = a]
          /\ signed' = signed \cup {<<n, b>> : b \in adopted}
    BY OrderedDatumEffect
<1>2. agg' \in [Honest -> [Sessions -> Aggregator]] /\ signed' \in SUBSET (Honest \X Blocks)
    BY <1>1 DEF TypeOK
<1>3. order' \in [Sessions -> Seq(Datum)] /\ \A t \in Sessions : Len(order'[t]) =< MaxOrdered[t]
    <2>1. CASE agg[n][s].pos < Len(order[s])
        BY <2>1 DEF OrderedDatum, TypeOK
    <2>2. CASE ~ (agg[n][s].pos < Len(order[s]))
        <3>1. order' = [order EXCEPT ![s] = Append(@, d)]
            BY <2>2 DEF OrderedDatum
        <3>2. agg[n][s].pos < MaxOrdered[s]
            BY <2>2 DEF OrderedDatum, NextDatum
        <3>3. /\ order[s] \in Seq(Datum) /\ Len(order[s]) \in Nat
              /\ agg[n][s].pos \in Nat /\ MaxOrdered[s] \in Nat
            BY Constants DEF TypeOK, Aggregator
        <3>4. d \in Datum
            BY Constants
        <3>5. Append(order[s], d) \in Seq(Datum) /\ Len(Append(order[s], d)) =< MaxOrdered[s]
            BY <2>2, <3>2, <3>3, <3>4
        <3> QED
            BY <3>1, <3>5 DEF TypeOK
    <2> QED
        BY <2>1, <2>2
<1> QED
    BY <1>2, <1>3 DEF TypeOK, OrderedDatum, party

LEMMA NextType == TypeOK /\ [Next]_vars => TypeOK'
<1> SUFFICES ASSUME TypeOK, [Next]_vars
             PROVE  TypeOK'
    OBVIOUS
<1>1. ASSUME NEW n \in Honest, NEW b \in Blocks, ImportBlock(n, b)
      PROVE  TypeOK'
    BY <1>1 DEF TypeOK, ImportBlock, party
<1>2. ASSUME NEW n \in Honest, NEW b \in Blocks, HandleJustification(n, b)
      PROVE  TypeOK'
    BY <1>2 DEF TypeOK, HandleJustification, party
<1>3. ASSUME NEW n \in Honest, EnterSession(n)
      PROVE  TypeOK'
    <2>1. PICK C \in AuthoritiesFor(n, sess[n]) : known' = [known EXCEPT ![n][sess[n]] = C]
        BY <1>3 DEF EnterSession
    <2>2. C \in SUBSET Nodes
        BY <2>1, AuthoritiesType DEF TypeOK
    <2> QED
        BY <1>3, <2>1, <2>2 DEF TypeOK, EnterSession
<1>4. ASSUME NEW n \in Honest, SkipSessionOnError(n) \/ EarlySkip(n) \/ EndSession(n)
      PROVE  TypeOK'
    <2>1. NextSession(n, known[n]) /\ UNCHANGED <<imported, finalized, agg, signed, order, crashes>>
        BY <1>4 DEF SkipSessionOnError, EarlySkip, EndSession
    <2> QED
        BY <2>1, NextSessionType DEF TypeOK
<1>5. ASSUME NEW n \in Honest, StartSession(n)
      PROVE  TypeOK'
    <2>1. [NoAggregator EXCEPT !.st = "spawned"] \in Aggregator
        BY NoAggregatorType DEF Aggregator
    <2>2. agg' \in [Honest -> [Sessions -> Aggregator]]
        BY <1>5, <2>1 DEF StartSession, TypeOK
    <2> QED
        BY <1>5, <2>2 DEF TypeOK, StartSession
<1>6. ASSUME NEW n \in Honest, NEW s \in Sessions, StartAggregator(n, s)
      PROVE  TypeOK'
    <2>1. agg[n][s] \in Aggregator /\ finalized[n] \in Blocks
        BY DEF TypeOK
    <2>2. [agg[n][s] EXCEPT !.st = "running", !.tip = finalized[n]] \in Aggregator
        BY <2>1 DEF Aggregator
    <2> QED
        BY <1>6, <2>2 DEF TypeOK, StartAggregator, party
<1>7. ASSUME NEW n \in Honest, NEW s \in Sessions, NEW d \in Data[s], OrderedDatum(n, s, d)
      PROVE  TypeOK'
    BY <1>7, OrderedDatumType
<1>8. ASSUME NEW n \in Honest, NEW s \in Sessions, ExitAggregator(n, s)
      PROVE  TypeOK'
    BY <1>8, NoAggregatorType DEF TypeOK, ExitAggregator, party
<1>9. ASSUME NEW n \in Honest, Crash(n)
      PROVE  TypeOK'
    <2>1. crashes' \in 0..MaxCrashes
        BY <1>9, Constants DEF Crash, TypeOK
    <2> QED
        BY <1>9, <2>1, NoAggregatorType DEF TypeOK, Crash
<1>10. CASE UNCHANGED vars
    BY <1>10 DEF TypeOK, vars, party
<1> QED
    BY <1>1, <1>2, <1>3, <1>4, <1>5, <1>6, <1>7, <1>8, <1>9, <1>10 DEF Next

\* Every state the nodes reach has the declared types.
THEOREM TypeCorrect == Spec => []TypeOK
BY InitType, NextType, PTL DEF Spec
----------------------------------------------------------------------------
(* Keyboxes *)

\* What a node knows of the committees, and how its party and its handler
\* relate: the keybox of a session up to the handler's is the committee on
\* the finalised chain; the party is ahead of the handler only where a runtime
\* call failed, and then the handler has no keybox; and the party knows no
\* session it has not entered.
KeyInv ==
    \A n \in Honest :
        /\ \A s \in Sessions : s =< CurrentSession(n) /\ known[n][s] # {} =>
              known[n][s] = CommitteeOn(finalized[n], s)
        /\ sess[n] > CurrentSession(n) => known[n][CurrentSession(n)] = {}
        /\ \A s \in Sessions : s > sess[n] \/ (s = sess[n] /\ phase[n] = "entering") =>
              known[n][s] = {}

\* The session of the next block to finalise.
LEMMA CurrentSessionBounds ==
    ASSUME TypeOK, NEW n \in Honest
    PROVE  /\ finalized[n] \in Blocks /\ Number[finalized[n]] \in Nat
           /\ CurrentSession(n) \in Nat
           /\ \A s \in Nat : CurrentSession(n) =< s <=> Number[finalized[n]] < LastBlockOf(s)
           /\ \A s \in Nat : CurrentSession(n) > s <=> LastBlockOf(s) =< Number[finalized[n]]
<1>1. finalized[n] \in Blocks /\ Number[finalized[n]] \in Nat /\ Number[finalized[n]] + 1 \in Nat
    BY Constants DEF TypeOK
<1>2. CurrentSession(n) \in Nat
    BY <1>1, SessionBounds DEF CurrentSession
<1>3. ASSUME NEW s \in Nat
      PROVE  /\ CurrentSession(n) =< s <=> Number[finalized[n]] < LastBlockOf(s)
             /\ CurrentSession(n) > s <=> LastBlockOf(s) =< Number[finalized[n]]
    <2>1. CurrentSession(n) =< s <=> Number[finalized[n]] + 1 =< LastBlockOf(s)
        BY <1>1, SessionOrder DEF CurrentSession
    <2>2. LastBlockOf(s) \in Nat
        BY LastBlockMonotone
    <2> QED
        BY <1>1, <1>2, <2>1, <2>2
<1> QED
    BY <1>1, <1>2, <1>3

\* The committee of a session is the same on a chain and on its extensions.
LEMMA CommitteeOnExtension ==
    ASSUME NEW b \in Blocks, NEW a \in Ancestors[b], NEW s \in Nat,
           s = 0 \/ LastBlockOf(s - 1) =< Number[a]
    PROVE  CommitteeOn(a, s) = CommitteeOn(b, s)
<1>1. CASE s = 0
    BY <1>1 DEF CommitteeOn
<1>2. CASE s # 0
    <2>1. s - 1 \in Nat /\ LastBlockOf(s - 1) \in Nat
        BY <1>2, LastBlockMonotone
    <2>2. Number[a] \in Nat
        BY AncestorsType, Constants
    <2>3. AncestorAt(a, LastBlockOf(s - 1)) = AncestorAt(b, LastBlockOf(s - 1))
        BY <1>2, <2>1, <2>2, AncestorAtBelow
    <2> QED
        BY <1>2, <2>3 DEF CommitteeOn
<1> QED
    BY <1>1, <1>2

\* NextSession keeps KeyInv when the party stays behind the handler or leaves
\* a session it could not enter.
LEMMA NextSessionKeys ==
    ASSUME TypeOK, KeyInv, NEW n \in Honest, NextSession(n, known[n]),
           UNCHANGED finalized,
           \/ LastBlockOf(sess[n]) =< Number[finalized[n]]
           \/ phase[n] = "entering"
    PROVE  KeyInv'
<1>1. sess[n] \in Sessions /\ sess[n] \in Nat
    BY Constants DEF TypeOK
<1>2. /\ sess' = [sess EXCEPT ![n] = sess[n] + 1]
      /\ \A m \in Honest : m # n => known'[m] = known[m] /\ phase'[m] = phase[m]
      /\ \A s \in Sessions : known'[n][s] = known[n][s] \/ known'[n][s] = {}
    BY DEF NextSession, TypeOK
<1>3. \A m \in Honest : CurrentSession(m)' = CurrentSession(m)
    BY DEF CurrentSession
<1>4. \A m \in Honest, s \in Sessions : CommitteeOn(finalized[m], s)' = CommitteeOn(finalized[m], s)
    BY DEF CommitteeOn
<1>5. sess[n] + 1 > CurrentSession(n) => known'[n][CurrentSession(n)] = {}
    <2> SUFFICES ASSUME sess[n] + 1 > CurrentSession(n)
                 PROVE  known'[n][CurrentSession(n)] = {}
        OBVIOUS
    <2>1. CurrentSession(n) =< sess[n] /\ CurrentSession(n) \in Nat
        BY <1>1, CurrentSessionBounds
    <2>2. phase[n] = "entering"
        BY <2>1, <1>1, CurrentSessionBounds
    <2>3. CurrentSession(n) \in Sessions
        BY <1>1, <2>1, Constants DEF Sessions
    <2>4. known[n][CurrentSession(n)] = {}
        BY <1>1, <2>1, <2>2, <2>3 DEF KeyInv
    <2> QED
        BY <1>2, <2>3, <2>4
<1>6. ASSUME NEW m \in Honest
      PROVE  /\ \A s \in Sessions : s =< CurrentSession(m) /\ known'[m][s] # {} =>
                    known'[m][s] = CommitteeOn(finalized[m], s)
             /\ sess'[m] > CurrentSession(m) => known'[m][CurrentSession(m)] = {}
             /\ \A s \in Sessions : s > sess'[m] \/ (s = sess'[m] /\ phase'[m] = "entering") =>
                    known'[m][s] = {}
    <2>1. CASE m = n
        <3>1. sess'[n] = sess[n] + 1
            BY <1>1, <1>2 DEF TypeOK
        <3>2. \A s \in Sessions : s >= sess[n] + 1 => known[n][s] = {}
            BY <1>1, Constants DEF KeyInv
        <3>3. \A s \in Sessions : s >= sess[n] + 1 => known'[n][s] = {}
            BY <1>2, <3>2
        <3> QED
            BY <2>1, <1>1, <1>2, <1>5, <3>1, <3>3, Constants DEF KeyInv
    <2>2. CASE m # n
        BY <2>2, <1>2 DEF KeyInv, TypeOK
    <2> QED
        BY <2>1, <2>2
<1> QED
    BY <1>3, <1>4, <1>6 DEF KeyInv

\* KeyInv at a node depends on nothing but its party and its finalised block.
LEMMA KeysUnchanged ==
    ASSUME KeyInv, UNCHANGED <<finalized, sess, phase, known>>
    PROVE  KeyInv'
BY DEF KeyInv, CurrentSession, CommitteeOn

LEMMA EnterSessionKeys ==
    ASSUME TypeOK, KeyInv, NEW n \in Honest, EnterSession(n)
    PROVE  KeyInv'
<1> DEFINE s == sess[n]
<1>1. s \in Sessions /\ s \in Nat
    BY Constants DEF TypeOK
<1>2. PICK C \in AuthoritiesFor(n, s) : known' = [known EXCEPT ![n][s] = C]
    BY DEF EnterSession
<1>3. /\ phase[n] = "entering" /\ phase' = [phase EXCEPT ![n] = "loaded"]
      /\ UNCHANGED <<finalized, sess>>
    BY DEF EnterSession
<1>4. s =< CurrentSession(n) => C = CommitteeOn(finalized[n], s)
    <2>1. CASE s = 0
        BY <1>2, <2>1 DEF AuthoritiesFor, CommitteeOn
    <2>2. CASE s # 0
        <3> SUFFICES ASSUME s =< CurrentSession(n)
                     PROVE  C = CommitteeOn(finalized[n], s)
            OBVIOUS
        <3>1. PICK b \in imported[n] : /\ finalized[n] \in Ancestors[b]
                                       /\ C = NextAuthorities[AncestorAt(b, LastBlockOf(s - 1))]
            BY <1>2, <2>2 DEF AuthoritiesFor, BestBlocks
        <3>2. b \in Blocks /\ s - 1 \in Nat
            BY <1>1, <2>2 DEF TypeOK
        <3>3. CurrentSession(n) > s - 1
            BY <1>1, CurrentSessionBounds
        <3>4. LastBlockOf(s - 1) =< Number[finalized[n]]
            BY <3>2, <3>3, CurrentSessionBounds
        <3>5. CommitteeOn(finalized[n], s) = CommitteeOn(b, s)
            BY <1>1, <3>1, <3>2, <3>4, CommitteeOnExtension
        <3> QED
            BY <2>2, <3>1, <3>5 DEF CommitteeOn
    <2> QED
        BY <2>1, <2>2
<1>5. \A m \in Honest : CurrentSession(m)' = CurrentSession(m)
    BY <1>3 DEF CurrentSession
<1>6. \A m \in Honest, t \in Sessions : CommitteeOn(finalized[m], t)' = CommitteeOn(finalized[m], t)
    BY <1>3 DEF CommitteeOn
<1>7. /\ known'[n][s] = C
      /\ \A t \in Sessions : t # s => known'[n][t] = known[n][t]
      /\ \A m \in Honest : m # n => known'[m] = known[m] /\ phase'[m] = phase[m]
    BY <1>1, <1>2, <1>3 DEF TypeOK
<1>8. ASSUME NEW m \in Honest
      PROVE  /\ \A t \in Sessions : t =< CurrentSession(m) /\ known'[m][t] # {} =>
                    known'[m][t] = CommitteeOn(finalized[m], t)
             /\ sess[m] > CurrentSession(m) => known'[m][CurrentSession(m)] = {}
             /\ \A t \in Sessions : t > sess[m] \/ (t = sess[m] /\ phase'[m] = "entering") =>
                    known'[m][t] = {}
    <2>1. CASE m = n
        <3>1. \A t \in Sessions : t =< CurrentSession(n) /\ known'[n][t] # {} =>
                  known'[n][t] = CommitteeOn(finalized[n], t)
            BY <1>4, <1>7 DEF KeyInv
        <3>2. sess[n] > CurrentSession(n) => known'[n][CurrentSession(n)] = {}
            <4> SUFFICES ASSUME sess[n] > CurrentSession(n)
                         PROVE  known'[n][CurrentSession(n)] = {}
                OBVIOUS
            <4>1. CurrentSession(n) \in Nat /\ CurrentSession(n) # s
                BY <1>1, CurrentSessionBounds
            <4>2. CurrentSession(n) \in Sessions
                BY <1>1, <4>1, Constants DEF Sessions
            <4> QED
                BY <1>7, <4>1, <4>2 DEF KeyInv
        <3>3. phase'[n] # "entering"
            BY <1>3 DEF TypeOK
        <3>4. \A t \in Sessions : t > sess[n] => t # s
            BY <1>1, Constants
        <3> QED
            BY <2>1, <1>7, <3>1, <3>2, <3>3, <3>4 DEF KeyInv
    <2>2. CASE m # n
        BY <2>2, <1>7 DEF KeyInv
    <2> QED
        BY <2>1, <2>2
<1> QED
    BY <1>3, <1>5, <1>6, <1>8 DEF KeyInv

LEMMA HandleJustificationKeys ==
    ASSUME TypeOK, KeyInv, NEW n \in Honest, NEW b \in Blocks, HandleJustification(n, b)
    PROVE  /\ KeyInv'
           /\ SessionOf(Number[b]) = CurrentSession(n)
           /\ known[n][CurrentSession(n)] = CommitteeOn(b, SessionOf(Number[b]))
<1> DEFINE c == CurrentSession(n)
           f == finalized[n]
<1>1. /\ f \in Ancestors[b] /\ c \in Sessions /\ known[n][c] # {}
      /\ Number[b] > Number[f] /\ Number[b] =< LastBlockOf(c)
      /\ finalized' = [finalized EXCEPT ![n] = b]
      /\ UNCHANGED <<sess, phase, known>>
    BY DEF HandleJustification, HasKeybox, party
<1>2. /\ f \in Blocks /\ Number[f] \in Nat /\ Number[b] \in Nat
      /\ c \in Nat /\ sess[n] \in Sessions /\ sess[n] \in Nat
    BY Constants, CurrentSessionBounds DEF TypeOK
<1>3. SessionOf(Number[b]) = c
    <2>1. SessionOf(Number[b]) \in Nat
        BY <1>2, SessionBounds
    <2>2. SessionOf(Number[b]) =< c
        BY <1>1, <1>2, SessionOrder
    <2>3. CASE SessionOf(Number[b]) < c
        <3>1. c - 1 \in Nat /\ SessionOf(Number[b]) =< c - 1
            BY <1>2, <2>1, <2>3
        <3>2. Number[b] =< LastBlockOf(c - 1)
            BY <1>2, <3>1, SessionOrder
        <3>3. LastBlockOf(c - 1) =< Number[f]
            BY <1>2, <3>1, CurrentSessionBounds
        <3>4. LastBlockOf(c - 1) \in Nat
            BY <3>1, LastBlockMonotone
        <3> QED
            BY <1>1, <1>2, <3>2, <3>3, <3>4
    <2> QED
        BY <1>2, <2>1, <2>2, <2>3
<1>4. ASSUME NEW s \in Nat, s =< c
      PROVE  CommitteeOn(b, s) = CommitteeOn(f, s)
    <2>1. CASE s = 0
        BY <1>1, <1>2, <2>1, CommitteeOnExtension
    <2>2. CASE s # 0
        <3>1. s - 1 \in Nat /\ c > s - 1
            BY <1>2, <1>4, <2>2
        <3>2. LastBlockOf(s - 1) =< Number[f]
            BY <3>1, CurrentSessionBounds
        <3> QED
            BY <1>1, <1>2, <3>2, CommitteeOnExtension
    <2> QED
        BY <2>1, <2>2
<1>5. known[n][c] = CommitteeOn(b, c)
    BY <1>1, <1>2, <1>4 DEF KeyInv
<1>6. sess[n] =< c
    BY <1>1, <1>2 DEF KeyInv
<1>7. c =< CurrentSession(n)' /\ CurrentSession(n)' \in Nat
    <2>1. CurrentSession(n)' = SessionOf(Number[b] + 1)
        BY <1>1 DEF CurrentSession, TypeOK
    <2>2. SessionOf(Number[b] + 1) \in Nat
        BY <1>2, SessionBounds
    <2>3. CASE SessionOf(Number[b] + 1) < c
        <3>1. Number[b] + 1 =< LastBlockOf(SessionOf(Number[b] + 1))
            BY <1>2, <2>2, SessionBounds
        <3>2. c > SessionOf(Number[b] + 1)
            BY <2>3
        <3>3. LastBlockOf(SessionOf(Number[b] + 1)) =< Number[f]
            BY <2>2, <3>2, CurrentSessionBounds
        <3>4. LastBlockOf(SessionOf(Number[b] + 1)) \in Nat
            BY <2>2, LastBlockMonotone
        <3> QED
            BY <1>1, <1>2, <3>1, <3>3, <3>4
    <2> QED
        BY <1>2, <2>1, <2>2, <2>3
<1>8. \A m \in Honest : m # n =>
          /\ CurrentSession(m)' = CurrentSession(m)
          /\ \A s \in Sessions : CommitteeOn(finalized[m], s)' = CommitteeOn(finalized[m], s)
    BY <1>1 DEF CurrentSession, CommitteeOn, TypeOK
<1>9. ASSUME NEW s \in Sessions, known[n][s] # {}
      PROVE  known[n][s] = CommitteeOn(b, s)
    <2>1. s \in Nat /\ s =< sess[n]
        BY <1>2, <1>9, Constants DEF KeyInv
    <2>2. s =< c
        BY <1>2, <1>6, <2>1
    <2> QED
        BY <1>4, <1>9, <2>1, <2>2 DEF KeyInv
<1>10. finalized'[n] = b /\ ~ (sess[n] > CurrentSession(n)')
    BY <1>1, <1>2, <1>6, <1>7 DEF TypeOK
<1>11. ASSUME NEW m \in Honest
       PROVE  /\ \A s \in Sessions : s =< CurrentSession(m)' /\ known[m][s] # {} =>
                     known[m][s] = CommitteeOn(finalized[m], s)'
              /\ sess[m] > CurrentSession(m)' => known[m][CurrentSession(m)'] = {}
              /\ \A s \in Sessions : s > sess[m] \/ (s = sess[m] /\ phase[m] = "entering") =>
                     known[m][s] = {}
    <2>1. CASE m = n
        <3>1. \A s \in Sessions : CommitteeOn(finalized[n], s)' = CommitteeOn(b, s)
            BY <1>10 DEF CommitteeOn
        <3> QED
            BY <2>1, <1>9, <1>10, <3>1 DEF KeyInv
    <2>2. CASE m # n
        BY <2>2, <1>8 DEF KeyInv
    <2> QED
        BY <2>1, <2>2
<1>12. KeyInv'
    BY <1>1, <1>11 DEF KeyInv
<1> QED
    BY <1>3, <1>5, <1>12

LEMMA StartSessionKeys ==
    ASSUME TypeOK, KeyInv, NEW n \in Honest, StartSession(n)
    PROVE  KeyInv'
<1>1. /\ phase' = [phase EXCEPT ![n] = "running"]
      /\ UNCHANGED <<finalized, sess, known>>
    BY DEF StartSession
<1>2. \A m \in Honest : phase'[m] = "entering" => phase[m] = "entering"
    BY <1>1 DEF TypeOK
<1> QED
    BY <1>1, <1>2 DEF KeyInv, CurrentSession, CommitteeOn

LEMMA CrashKeys ==
    ASSUME TypeOK, KeyInv, NEW n \in Honest, Crash(n)
    PROVE  KeyInv'
<1>1. /\ SessionOf(Number[finalized[n]]) \in Sessions
      /\ sess' = [sess EXCEPT ![n] = SessionOf(Number[finalized[n]])]
      /\ phase' = [phase EXCEPT ![n] = "entering"]
      /\ known' = [known EXCEPT ![n] = [s \in Sessions |-> {}]]
      /\ UNCHANGED finalized
    BY DEF Crash
<1>2. \A m \in Honest : CurrentSession(m)' = CurrentSession(m)
    BY <1>1 DEF CurrentSession
<1>3. \A m \in Honest, s \in Sessions : CommitteeOn(finalized[m], s)' = CommitteeOn(finalized[m], s)
    BY <1>1 DEF CommitteeOn
<1>4. /\ sess'[n] = SessionOf(Number[finalized[n]])
      /\ \A s \in Sessions : known'[n][s] = {}
      /\ \A m \in Honest : m # n => /\ known'[m] = known[m]
                                    /\ phase'[m] = phase[m] /\ sess'[m] = sess[m]
    BY <1>1 DEF TypeOK
<1>5. sess'[n] =< CurrentSession(n) /\ sess'[n] \in Nat /\ CurrentSession(n) \in Nat
    <2> DEFINE f == Number[finalized[n]]
               q == SessionOf(f)
    <2>1. f \in Nat /\ q \in Nat /\ CurrentSession(n) \in Nat
        BY CurrentSessionBounds, SessionBounds
    <2>2. CASE CurrentSession(n) < q
        <3>1. LastBlockOf(CurrentSession(n)) < f \/ LastBlockOf(CurrentSession(n)) >= f
            BY <2>1, LastBlockMonotone
        <3>2. f < LastBlockOf(CurrentSession(n))
            BY <2>1, CurrentSessionBounds
        <3>3. q =< CurrentSession(n)
            BY <2>1, <3>2, SessionOrder, LastBlockMonotone
        <3> QED
            BY <2>1, <2>2, <3>3
    <2> QED
        BY <1>4, <2>1, <2>2
<1>6. ASSUME NEW m \in Honest
      PROVE  /\ \A s \in Sessions : s =< CurrentSession(m) /\ known'[m][s] # {} =>
                    known'[m][s] = CommitteeOn(finalized[m], s)
             /\ sess'[m] > CurrentSession(m) => known'[m][CurrentSession(m)] = {}
             /\ \A s \in Sessions : s > sess'[m] \/ (s = sess'[m] /\ phase'[m] = "entering") =>
                    known'[m][s] = {}
    <2>1. CASE m = n
        BY <1>4, <1>5, <2>1
    <2>2. CASE m # n
        BY <1>4, <2>2 DEF KeyInv
    <2> QED
        BY <2>1, <2>2
<1> QED
    BY <1>2, <1>3, <1>6 DEF KeyInv

LEMMA InitKeyInv == Init => KeyInv
<1> SUFFICES ASSUME Init, NEW n \in Honest
             PROVE  /\ \A s \in Sessions : known[n][s] = {}
                    /\ ~ (sess[n] > CurrentSession(n))
    BY DEF Init, KeyInv
<1>1. TypeOK
    BY InitType
<1>2. CurrentSession(n) \in Nat /\ sess[n] = 0
    BY <1>1, CurrentSessionBounds DEF Init
<1> QED
    BY <1>2 DEF Init

LEMMA NextKeyInv == TypeOK /\ KeyInv /\ [Next]_vars => KeyInv'
<1> SUFFICES ASSUME TypeOK, KeyInv, [Next]_vars
             PROVE  KeyInv'
    OBVIOUS
<1>1. ASSUME NEW n \in Honest, NEW b \in Blocks, ImportBlock(n, b)
      PROVE  KeyInv'
    BY <1>1, KeysUnchanged DEF ImportBlock, party
<1>2. ASSUME NEW n \in Honest, NEW b \in Blocks, HandleJustification(n, b)
      PROVE  KeyInv'
    BY <1>2, HandleJustificationKeys
<1>3. ASSUME NEW n \in Honest, EnterSession(n)
      PROVE  KeyInv'
    BY <1>3, EnterSessionKeys
<1>4. ASSUME NEW n \in Honest, SkipSessionOnError(n) \/ EarlySkip(n) \/ EndSession(n)
      PROVE  KeyInv'
    <2>1. LastBlockOf(sess[n]) \in Nat /\ Number[finalized[n]] \in Nat
        BY Constants, LastBlockMonotone DEF TypeOK
    <2>2. /\ NextSession(n, known[n]) /\ UNCHANGED finalized
          /\ LastBlockOf(sess[n]) =< Number[finalized[n]] \/ phase[n] = "entering"
        BY <1>4, <2>1 DEF SkipSessionOnError, EarlySkip, EndSession
    <2> QED
        BY <2>2, NextSessionKeys
<1>5. ASSUME NEW n \in Honest, StartSession(n)
      PROVE  KeyInv'
    BY <1>5, StartSessionKeys
<1>6. ASSUME NEW n \in Honest, NEW s \in Sessions,
             StartAggregator(n, s) \/ ExitAggregator(n, s)
      PROVE  KeyInv'
    BY <1>6, KeysUnchanged DEF StartAggregator, ExitAggregator, party
<1>7. ASSUME NEW n \in Honest, NEW s \in Sessions, NEW d \in Data[s], OrderedDatum(n, s, d)
      PROVE  KeyInv'
    BY <1>7, KeysUnchanged DEF OrderedDatum, party
<1>8. ASSUME NEW n \in Honest, Crash(n)
      PROVE  KeyInv'
    BY <1>8, CrashKeys
<1>9. CASE UNCHANGED vars
    BY <1>9, KeysUnchanged DEF vars, party
<1> QED
    BY <1>1, <1>2, <1>3, <1>4, <1>5, <1>6, <1>7, <1>8, <1>9 DEF Next

\* Only the justification handler finalises.
LEMMA OnlyHandlerFinalizes ==
    ASSUME [Next]_vars
    PROVE  UNCHANGED finalized \/ \E n \in Honest, b \in Blocks : HandleJustification(n, b)
<1>1. ASSUME NEW n \in Honest, NEW b \in Blocks, ImportBlock(n, b)
      PROVE  UNCHANGED finalized
    BY <1>1 DEF ImportBlock
<1>2. ASSUME NEW n \in Honest, EnterSession(n)
      PROVE  UNCHANGED finalized
    BY <1>2 DEF EnterSession
<1>3. ASSUME NEW n \in Honest, SkipSessionOnError(n) \/ EarlySkip(n) \/ EndSession(n)
      PROVE  UNCHANGED finalized
    BY <1>3 DEF SkipSessionOnError, EarlySkip, EndSession
<1>4. ASSUME NEW n \in Honest, StartSession(n)
      PROVE  UNCHANGED finalized
    BY <1>4 DEF StartSession
<1>5. ASSUME NEW n \in Honest, NEW s \in Sessions,
             StartAggregator(n, s) \/ ExitAggregator(n, s)
      PROVE  UNCHANGED finalized
    BY <1>5 DEF StartAggregator, ExitAggregator
<1>6. ASSUME NEW n \in Honest, NEW s \in Sessions, NEW d \in Data[s], OrderedDatum(n, s, d)
      PROVE  UNCHANGED finalized
    BY <1>6 DEF OrderedDatum
<1>7. ASSUME NEW n \in Honest, Crash(n)
      PROVE  UNCHANGED finalized
    BY <1>7 DEF Crash
<1>8. CASE UNCHANGED vars
    BY <1>8 DEF vars
<1> QED
    BY <1>1, <1>2, <1>3, <1>4, <1>5, <1>6, <1>7, <1>8 DEF Next

\* A block is finalised with the signatures of two thirds of the committee that
\* its own chain appoints for its session, in every network, whatever runtime
\* calls fail and however often nodes restart.
THEOREM OwnCommittee == Spec => FinalizedByOwnCommittee
<1>1. TypeOK /\ KeyInv /\ [Next]_vars =>
        [\A n \in Honest :
            LET b == finalized'[n]
            IN b # finalized[n] =>
               IsComplete(Signers(b), CommitteeOn(b, SessionOf(Number[b])))]_vars
    <2> SUFFICES ASSUME TypeOK, KeyInv, [Next]_vars, NEW n \in Honest,
                        finalized'[n] # finalized[n]
                 PROVE  IsComplete(Signers(finalized'[n]),
                            CommitteeOn(finalized'[n], SessionOf(Number[finalized'[n]])))
        OBVIOUS
    <2>1. PICK m \in Honest, b \in Blocks : HandleJustification(m, b)
        BY OnlyHandlerFinalizes
    <2>2. m = n /\ finalized'[n] = b
        BY <2>1 DEF HandleJustification, TypeOK
    <2>3. IsComplete(Signers(b), known[n][CurrentSession(n)])
        BY <2>1, <2>2 DEF HandleJustification
    <2>4. known[n][CurrentSession(n)] = CommitteeOn(b, SessionOf(Number[b]))
        BY <2>1, <2>2, HandleJustificationKeys
    <2> QED
        BY <2>2, <2>3, <2>4
<1> QED
    BY <1>1, InitType, NextType, InitKeyInv, NextKeyInv, PTL DEF Spec, FinalizedByOwnCommittee
----------------------------------------------------------------------------
(* The keybox the handler needs *)

\* The nodes none of whose runtime calls fail.
Reliable == {m \in Honest : \A s \in Sessions : <<m, s>> \notin ApiFails}

\* The client has its finalised block, so its best chain reaches that far.
ClientInv == \A n \in Honest : finalized[n] \in imported[n]

\* KeyboxAvailable at one node.
KeyboxAt(n) ==
    /\ sess[n] =< CurrentSession(n)
    /\ sess[n] = CurrentSession(n) /\ phase[n] # "entering" => known[n][sess[n]] # {}

KeyboxInv == \A n \in Reliable : KeyboxAt(n)

LEMMA KeyboxAtEachNode == TypeOK /\ KeyboxInv => KeyboxAvailable
<1> SUFFICES ASSUME TypeOK, NEW n \in Reliable, KeyboxAt(n),
                    sess[n] = CurrentSession(n), phase[n] # "entering"
             PROVE  HasKeybox(n, CurrentSession(n))
    BY DEF KeyboxInv, KeyboxAvailable, KeyboxAt, Reliable
<1>1. sess[n] \in Sessions
    BY DEF TypeOK, Reliable
<1> QED
    BY <1>1 DEF KeyboxAt, HasKeybox

\* A committee has a member.
LEMMA CommitteeNotEmpty ==
    ASSUME TypeOK, NEW n \in Honest, NEW s \in Sessions, NEW C \in AuthoritiesFor(n, s)
    PROVE  C # {}
<1>1. C \in {GenesisCommittee} \cup {NextAuthorities[b] : b \in Blocks}
    <2>1. CASE s = 0
        BY <2>1 DEF AuthoritiesFor
    <2>2. CASE s # 0
        <3>1. PICK b \in imported[n] : /\ Number[b] >= LastBlockOf(s - 1)
                                       /\ C = NextAuthorities[AncestorAt(b, LastBlockOf(s - 1))]
            BY <2>2 DEF AuthoritiesFor, BestBlocks
        <3>2. b \in Blocks /\ Number[b] \in Nat /\ s - 1 \in Nat /\ LastBlockOf(s - 1) \in Nat
            <4>1. b \in Blocks /\ Number[b] \in Nat
                BY Constants DEF TypeOK
            <4>2. s - 1 \in Nat
                BY <2>2, Constants
            <4> QED
                BY <4>1, <4>2, LastBlockMonotone
        <3>3. AncestorAt(b, LastBlockOf(s - 1)) \in Blocks
            BY <3>1, <3>2, AncestorAtIsOnChain
        <3> QED
            BY <3>1, <3>3
    <2> QED
        BY <2>1, <2>2
<1>2. 3 * Cardinality(C \cap Faulty) < Cardinality(C)
    BY <1>1, FaultAssumption
<1>3. CASE C = {}
    <2>1. C \cap Faulty = {} /\ Cardinality(C) = 0 /\ Cardinality(C \cap Faulty) = 0
        BY <1>3, FS_EmptySet
    <2> QED
        BY <1>2, <2>1
<1> QED
    BY <1>3

\* The best chain holds the last block of every session before the handler's,
\* so the runtime has the authorities of all sessions up to the handler's.
LEMMA AuthoritiesAreThere ==
    ASSUME TypeOK, ClientInv, NEW n \in Honest, NEW s \in Sessions, s =< CurrentSession(n)
    PROVE  AuthoritiesFor(n, s) # {}
<1>1. CASE s = 0
    BY <1>1 DEF AuthoritiesFor
<1>2. CASE s # 0
    <2>1. s \in Nat /\ s - 1 \in Nat /\ CurrentSession(n) \in Nat
        BY <1>2, Constants, CurrentSessionBounds
    <2>2. Number[finalized[n]] >= LastBlockOf(s - 1)
        BY <2>1, CurrentSessionBounds, LastBlockMonotone
    <2>3. finalized[n] \in BestBlocks(n)
        BY AncestorsType DEF ClientInv, BestBlocks, TypeOK
    <2> QED
        BY <1>2, <2>2, <2>3 DEF AuthoritiesFor
<1> QED
    BY <1>1, <1>2

\* A step that leaves n's party alone, and does not move its finalised block
\* down, keeps the keybox at n.
LEMMA KeyboxStays ==
    ASSUME TypeOK, TypeOK', NEW n \in Honest, KeyboxAt(n),
           Number[finalized[n]] =< Number[finalized'[n]],
           sess'[n] = sess[n], known'[n] = known[n],
           phase'[n] = "entering" => phase[n] = "entering",
           phase[n] = "entering" => phase'[n] = "entering"
    PROVE  KeyboxAt(n)'
<1> DEFINE f == Number[finalized[n]]
           g == Number[finalized'[n]]
<1>1. f \in Nat /\ g \in Nat /\ f + 1 \in Nat /\ g + 1 \in Nat /\ f =< g
    BY Constants DEF TypeOK
<1>2. SessionOf(f + 1) =< SessionOf(g + 1) /\ SessionOf(f + 1) \in Nat /\ SessionOf(g + 1) \in Nat
    <2>1. SessionOf(g + 1) \in Nat /\ SessionOf(f + 1) \in Nat
        BY <1>1, SessionBounds
    <2>2. g + 1 =< LastBlockOf(SessionOf(g + 1)) /\ LastBlockOf(SessionOf(g + 1)) \in Nat
        BY <1>1, <2>1, SessionBounds, LastBlockMonotone
    <2> QED
        BY <1>1, <2>1, <2>2, SessionOrder
<1>3. CurrentSession(n) = SessionOf(f + 1) /\ CurrentSession(n)' = SessionOf(g + 1)
    BY DEF CurrentSession
<1>4. sess[n] \in Nat
    BY Constants DEF TypeOK
<1> QED
    BY <1>2, <1>3, <1>4 DEF KeyboxAt

\* The party goes on to the next session only from one before the handler's.
LEMMA NextSessionKeybox ==
    ASSUME TypeOK, NEW n \in Honest, KeyboxAt(n), NextSession(n, known[n]),
           UNCHANGED finalized, sess[n] < CurrentSession(n)
    PROVE  KeyboxAt(n)'
<1>1. sess'[n] = sess[n] + 1 /\ phase'[n] = "entering"
    BY DEF NextSession, TypeOK
<1>2. CurrentSession(n)' = CurrentSession(n)
    BY DEF CurrentSession
<1>3. sess[n] \in Nat /\ CurrentSession(n) \in Nat
    BY Constants, CurrentSessionBounds DEF TypeOK
<1> QED
    BY <1>1, <1>2, <1>3 DEF KeyboxAt

LEMMA NextKeybox ==
    ASSUME TypeOK, TypeOK', ClientInv, [Next]_vars, NEW n \in Reliable, KeyboxAt(n)
    PROVE  KeyboxAt(n)'
<1> n \in Honest /\ \A s \in Sessions : <<n, s>> \notin ApiFails
    BY DEF Reliable
<1>1. /\ finalized[n] \in Blocks /\ Number[finalized[n]] \in Nat
      /\ sess[n] \in Sessions /\ sess[n] \in Nat /\ LastBlockOf(sess[n]) \in Nat
    BY Constants, LastBlockMonotone DEF TypeOK
\* Steps that leave n's party and its finalised block alone.
<1>2. ASSUME finalized'[n] = finalized[n], sess'[n] = sess[n], phase'[n] = phase[n],
             known'[n] = known[n]
      PROVE  KeyboxAt(n)'
    BY <1>1, <1>2, KeyboxStays
<1>3. ASSUME NEW m \in Honest, NEW b \in Blocks, ImportBlock(m, b)
      PROVE  KeyboxAt(n)'
    BY <1>2, <1>3 DEF ImportBlock, party
<1>4. ASSUME NEW m \in Honest, NEW b \in Blocks, HandleJustification(m, b)
      PROVE  KeyboxAt(n)'
    <2>1. /\ finalized' = [finalized EXCEPT ![m] = b] /\ Number[b] > Number[finalized[m]]
          /\ UNCHANGED <<sess, phase, known>>
        BY <1>4 DEF HandleJustification, party
    <2>2. Number[finalized[n]] =< Number[finalized'[n]]
        BY <1>1, <2>1, Constants DEF TypeOK
    <2> QED
        BY <2>1, <2>2, KeyboxStays
<1>5. ASSUME NEW m \in Honest, EnterSession(m)
      PROVE  KeyboxAt(n)'
    <2>1. PICK C \in AuthoritiesFor(m, sess[m]) : known' = [known EXCEPT ![m][sess[m]] = C]
        BY <1>5 DEF EnterSession
    <2>2. C # {}
        BY <2>1, CommitteeNotEmpty DEF TypeOK
    <2>3. CASE m = n
        <3>1. known'[n][sess[n]] # {} /\ sess'[n] = sess[n] /\ finalized'[n] = finalized[n]
            BY <1>1, <1>5, <2>1, <2>2, <2>3 DEF EnterSession, TypeOK
        <3> QED
            BY <3>1 DEF KeyboxAt, CurrentSession
    <2>4. CASE m # n
        BY <1>2, <1>5, <2>1, <2>4 DEF EnterSession, TypeOK
    <2> QED
        BY <2>3, <2>4
<1>6. ASSUME NEW m \in Honest, SkipSessionOnError(m) \/ EarlySkip(m) \/ EndSession(m)
      PROVE  KeyboxAt(n)'
    <2>1. NextSession(m, known[m]) /\ UNCHANGED finalized
        BY <1>6 DEF SkipSessionOnError, EarlySkip, EndSession
    <2>2. CASE m = n
        <3>1. CASE SkipSessionOnError(n)
            <4>1. AuthoritiesFor(n, sess[n]) = {}
                BY <1>1, <3>1 DEF SkipSessionOnError
            <4>2. ~ (sess[n] =< CurrentSession(n))
                BY <1>1, <4>1, AuthoritiesAreThere
            <4> QED
                BY <4>2 DEF KeyboxAt
        <3>2. CASE EarlySkip(n) \/ EndSession(n)
            <4>1. LastBlockOf(sess[n]) =< Number[finalized[n]]
                BY <1>1, <3>2 DEF EarlySkip, EndSession
            <4>2. CurrentSession(n) > sess[n] /\ CurrentSession(n) \in Nat
                BY <1>1, <4>1, CurrentSessionBounds
            <4> QED
                BY <1>1, <2>1, <2>2, <4>2, NextSessionKeybox
        <3> QED
            BY <1>6, <2>2, <3>1, <3>2
    <2>3. CASE m # n
        BY <1>2, <2>1, <2>3 DEF NextSession, TypeOK
    <2> QED
        BY <2>2, <2>3
<1>7. ASSUME NEW m \in Honest, StartSession(m)
      PROVE  KeyboxAt(n)'
    <2>1. /\ phase[m] = "loaded" /\ phase' = [phase EXCEPT ![m] = "running"]
          /\ UNCHANGED <<finalized, sess, known>>
        BY <1>7 DEF StartSession
    <2>2. phase'[n] = "entering" <=> phase[n] = "entering"
        BY <2>1 DEF TypeOK
    <2> QED
        BY <1>1, <2>1, <2>2, KeyboxStays
<1>8. ASSUME NEW m \in Honest, NEW s \in Sessions,
             StartAggregator(m, s) \/ ExitAggregator(m, s)
      PROVE  KeyboxAt(n)'
    BY <1>2, <1>8 DEF StartAggregator, ExitAggregator, party
<1>9. ASSUME NEW m \in Honest, NEW s \in Sessions, NEW d \in Data[s], OrderedDatum(m, s, d)
      PROVE  KeyboxAt(n)'
    BY <1>2, <1>9 DEF OrderedDatum, party
<1>10. ASSUME NEW m \in Honest, Crash(m)
       PROVE  KeyboxAt(n)'
    <2>1. /\ sess' = [sess EXCEPT ![m] = SessionOf(Number[finalized[m]])]
          /\ phase' = [phase EXCEPT ![m] = "entering"]
          /\ known' = [known EXCEPT ![m] = [s \in Sessions |-> {}]]
          /\ UNCHANGED finalized
        BY <1>10 DEF Crash
    <2>2. CASE m = n
        <3>1. /\ sess'[n] = SessionOf(Number[finalized[n]]) /\ phase'[n] = "entering"
              /\ CurrentSession(n)' = CurrentSession(n)
            BY <2>1, <2>2 DEF TypeOK, CurrentSession
        <3>2. SessionOf(Number[finalized[n]]) =< CurrentSession(n)
            <4>1. CurrentSession(n) \in Nat /\ LastBlockOf(CurrentSession(n)) \in Nat
                BY CurrentSessionBounds, LastBlockMonotone
            <4>2. Number[finalized[n]] < LastBlockOf(CurrentSession(n))
                BY <4>1, CurrentSessionBounds
            <4> QED
                BY <1>1, <4>1, <4>2, SessionOrder
        <3> QED
            BY <3>1, <3>2 DEF KeyboxAt
    <2>3. CASE m # n
        BY <1>2, <2>1, <2>3 DEF TypeOK
    <2> QED
        BY <2>2, <2>3
<1>11. CASE UNCHANGED vars
    BY <1>2, <1>11 DEF vars, party
<1> QED
    BY <1>3, <1>4, <1>5, <1>6, <1>7, <1>8, <1>9, <1>10, <1>11 DEF Next

\* Only block import adds blocks to the client.
LEMMA OnlyImportImports ==
    ASSUME [Next]_vars
    PROVE  UNCHANGED imported \/ \E n \in Honest, b \in Blocks : ImportBlock(n, b)
<1>1. ASSUME NEW n \in Honest, NEW b \in Blocks, HandleJustification(n, b)
      PROVE  UNCHANGED imported
    BY <1>1 DEF HandleJustification
<1>2. ASSUME NEW n \in Honest, EnterSession(n) \/ StartSession(n) \/ Crash(n)
      PROVE  UNCHANGED imported
    BY <1>2 DEF EnterSession, StartSession, Crash
<1>3. ASSUME NEW n \in Honest, SkipSessionOnError(n) \/ EarlySkip(n) \/ EndSession(n)
      PROVE  UNCHANGED imported
    BY <1>3 DEF SkipSessionOnError, EarlySkip, EndSession
<1>4. ASSUME NEW n \in Honest, NEW s \in Sessions,
             StartAggregator(n, s) \/ ExitAggregator(n, s)
      PROVE  UNCHANGED imported
    BY <1>4 DEF StartAggregator, ExitAggregator
<1>5. ASSUME NEW n \in Honest, NEW s \in Sessions, NEW d \in Data[s], OrderedDatum(n, s, d)
      PROVE  UNCHANGED imported
    BY <1>5 DEF OrderedDatum
<1>6. CASE UNCHANGED vars
    BY <1>6 DEF vars
<1> QED
    BY <1>1, <1>2, <1>3, <1>4, <1>5, <1>6 DEF Next

LEMMA NextClient == TypeOK /\ ClientInv /\ [Next]_vars => ClientInv'
<1> SUFFICES ASSUME TypeOK, ClientInv, [Next]_vars, NEW n \in Honest
             PROVE  finalized'[n] \in imported'[n]
    BY DEF ClientInv
<1>1. finalized[n] \in imported[n] /\ imported[n] \subseteq imported'[n]
    <2>1. CASE \E m \in Honest, b \in Blocks : ImportBlock(m, b)
        BY <2>1 DEF ImportBlock, ClientInv, TypeOK
    <2>2. CASE UNCHANGED imported
        BY <2>2 DEF ClientInv
    <2> QED
        BY <2>1, <2>2, OnlyImportImports
<1>2. ASSUME NEW m \in Honest, NEW b \in Blocks, HandleJustification(m, b)
      PROVE  finalized'[n] \in imported'[n]
    BY <1>1, <1>2 DEF HandleJustification, TypeOK
<1> QED
    BY <1>1, <1>2, OnlyHandlerFinalizes

LEMMA KeyboxInductive == Spec => []KeyboxInv
<1>1. Init => ClientInv /\ KeyboxInv
    <2> SUFFICES ASSUME Init PROVE ClientInv /\ KeyboxInv
        OBVIOUS
    <2>1. TypeOK /\ ClientInv
        BY InitType, Constants DEF Init, ClientInv
    <2>2. ASSUME NEW n \in Reliable PROVE KeyboxAt(n)
        <3>1. n \in Honest /\ sess[n] = 0 /\ phase[n] = "entering"
            BY DEF Init, Reliable
        <3>2. CurrentSession(n) \in Nat
            BY <2>1, <3>1, CurrentSessionBounds
        <3> QED
            BY <3>1, <3>2 DEF KeyboxAt
    <2> QED
        BY <2>1, <2>2 DEF KeyboxInv
<1>2. TypeOK /\ TypeOK' /\ ClientInv /\ KeyboxInv /\ [Next]_vars => KeyboxInv'
    <2> SUFFICES ASSUME TypeOK, TypeOK', ClientInv, KeyboxInv, [Next]_vars, NEW n \in Reliable
                 PROVE  KeyboxAt(n)'
        BY DEF KeyboxInv
    <2> QED
        BY NextKeybox DEF KeyboxInv
<1> QED
    BY <1>1, <1>2, InitType, NextType, NextClient, PTL DEF Spec

\* Where no runtime call fails the party is never ahead of the handler, and
\* once it is in the handler's session the handler has its keybox: with
\* restarts, early skips, pruning, and whatever the other nodes do.
THEOREM KeyboxIsThere == Spec => []KeyboxAvailable
BY KeyboxInductive, KeyboxAtEachNode, TypeCorrect, PTL
----------------------------------------------------------------------------
(* Pruning *)

LEMMA QuotientAndRest ==
    ASSUME NEW n \in Nat, NEW d \in Nat \ {0}
    PROVE  n \div d \in Nat /\ n % d \in 0 .. d - 1 /\ n = d * (n \div d) + (n % d)
BY SMT

\* A positive multiple of d lies less than d below any number from d on.
LEMMA MultipleBelow ==
    ASSUME NEW d \in Nat \ {0}, NEW n \in Nat, d =< n
    PROVE  \E r \in Nat : r % d = 0 /\ d =< r /\ r =< n /\ n < r + d
<1> DEFINE q == n \div d
           r == d * q
<1>1. /\ q \in Nat /\ n % d \in 0 .. d - 1
      /\ n = r + (n % d)
    BY QuotientAndRest
<1>8. r \in Nat
    BY <1>1, SMT
<1> DEFINE q1 == r \div d
           m == r % d
<1>2. q1 \in Nat /\ m \in 0 .. d - 1 /\ r = d * q1 + m
    <2> HIDE DEF r
    <2> QED
        BY <1>8, QuotientAndRest
<1> HIDE DEF q, q1, m
<1>3. q1 = q
    <2>1. /\ d * q \in Nat /\ d * q1 \in Nat
          /\ d * (q + 1) = d * q + d /\ d * (q1 + 1) = d * q1 + d
          /\ q < q1 => d * (q + 1) =< d * q1
          /\ q1 < q => d * (q1 + 1) =< d * q
        BY <1>1, <1>2, SMT
    <2> QED
        BY <1>1, <1>2, <2>1
<1>4. m = 0
    BY <1>1, <1>2, <1>3
<1>5. r # 0
    BY <1>1
<1>6. q # 0
    BY <1>5
<1>7. d =< r
    BY <1>1, <1>6, SMT
<1> HIDE DEF r
<1> QED
    BY <1>1, <1>4, <1>7, <1>8 DEF m

\* What a party that has left session r, a multiple of the window, has kept.
PrunedAt(n) ==
    \A t \in Sessions : known[n][t] # {} =>
        \A r \in Nat : r >= PruneWindow /\ r % PruneWindow = 0 /\ r < sess[n] => t >= r - PruneWindow

PrunedInv == \A n \in Honest : PrunedAt(n)

LEMMA PrunedIsBounded == TypeOK /\ PrunedInv => SessionMapBounded
<1> SUFFICES ASSUME TypeOK, PrunedInv, NEW n \in Honest, NEW s \in Sessions, known[n][s] # {}
             PROVE  sess[n] =< s + 2 * PruneWindow
    BY DEF SessionMapBounded
<1>4. PruneWindow \in Nat \ {0} /\ s \in Nat /\ sess[n] \in Nat
    BY Constants, ParameterAssumption DEF TypeOK
<1> SUFFICES ASSUME sess[n] > s + 2 * PruneWindow
             PROVE  FALSE
    BY <1>4
<1>1. /\ PruneWindow \in Nat \ {0} /\ sess[n] - 1 \in Nat
      /\ PruneWindow =< sess[n] - 1
    BY <1>4
<1>2. PICK r \in Nat : /\ r % PruneWindow = 0 /\ PruneWindow =< r
                       /\ r =< sess[n] - 1 /\ sess[n] - 1 < r + PruneWindow
    BY <1>1, MultipleBelow
<1>3. s >= r - PruneWindow
    BY <1>1, <1>2, <1>4 DEF PrunedInv, PrunedAt
<1> QED
    BY <1>1, <1>2, <1>3, <1>4

\* Going to the next session prunes at the multiples of the window.
LEMMA NextSessionPruned ==
    ASSUME TypeOK, NEW n \in Honest, PrunedAt(n), NextSession(n, known[n])
    PROVE  PrunedAt(n)'
<1> DEFINE s == sess[n]
           pruned == [t \in Sessions |-> IF t >= s - PruneWindow THEN known[n][t] ELSE {}]
<1>1. s \in Nat /\ sess'[n] = s + 1 /\ PruneWindow \in Nat /\ Sessions \subseteq Nat
    BY Constants DEF NextSession, TypeOK
<1>2. known'[n] = IF s >= PruneWindow /\ s % PruneWindow = 0 THEN pruned ELSE known[n]
    BY DEF NextSession, TypeOK
<1> SUFFICES ASSUME NEW t \in Sessions, known'[n][t] # {},
                    NEW r \in Nat, r >= PruneWindow, r % PruneWindow = 0, r < sess'[n]
             PROVE  t >= r - PruneWindow
    BY DEF PrunedAt
<1>3. known[n][t] # {}
    BY <1>2
<1>4. CASE r < s
    BY <1>3, <1>4 DEF PrunedAt
<1>5. CASE r = s
    BY <1>1, <1>2, <1>5
<1> QED
    BY <1>1, <1>4, <1>5

\* A step that leaves n's party, or adds the session it is in, keeps what is
\* pruned.
LEMMA PrunedStays ==
    ASSUME TypeOK, NEW n \in Honest, PrunedAt(n), sess'[n] = sess[n],
           \A t \in Sessions : t # sess[n] => known'[n][t] = known[n][t]
    PROVE  PrunedAt(n)'
<1>1. sess[n] \in Nat /\ PruneWindow \in Nat
    BY Constants DEF TypeOK
<1> SUFFICES ASSUME NEW t \in Sessions, known'[n][t] # {},
                    NEW r \in Nat, r >= PruneWindow, r % PruneWindow = 0, r < sess'[n]
             PROVE  t >= r - PruneWindow
    BY DEF PrunedAt
<1>2. CASE t = sess[n]
    BY <1>1, <1>2
<1>3. CASE t # sess[n]
    BY <1>3 DEF PrunedAt
<1> QED
    BY <1>2, <1>3

LEMMA NextPruned == TypeOK /\ PrunedInv /\ [Next]_vars => PrunedInv'
<1> SUFFICES ASSUME TypeOK, PrunedInv, [Next]_vars, NEW n \in Honest
             PROVE  PrunedAt(n)'
    BY DEF PrunedInv
<1>0. PrunedAt(n)
    BY DEF PrunedInv
<1>1. ASSUME UNCHANGED <<sess, known>> PROVE PrunedAt(n)'
    BY <1>0, <1>1, PrunedStays
<1>2. ASSUME NEW m \in Honest, EnterSession(m) PROVE PrunedAt(n)'
    <2>1. PICK C \in AuthoritiesFor(m, sess[m]) : known' = [known EXCEPT ![m][sess[m]] = C]
        BY <1>2 DEF EnterSession
    <2>2. sess' = sess
        BY <1>2 DEF EnterSession
    <2>3. \A t \in Sessions : t # sess[n] => known'[n][t] = known[n][t]
        BY <2>1 DEF TypeOK
    <2> QED
        BY <1>0, <2>2, <2>3, PrunedStays
<1>3. ASSUME NEW m \in Honest, SkipSessionOnError(m) \/ EarlySkip(m) \/ EndSession(m)
      PROVE  PrunedAt(n)'
    <2>1. NextSession(m, known[m])
        BY <1>3 DEF SkipSessionOnError, EarlySkip, EndSession
    <2>2. CASE m = n
        BY <1>0, <2>1, <2>2, NextSessionPruned
    <2>3. CASE m # n
        <3>1. sess'[n] = sess[n] /\ known'[n] = known[n]
            BY <2>1, <2>3 DEF NextSession, TypeOK
        <3> QED
            BY <1>0, <3>1, PrunedStays
    <2> QED
        BY <2>2, <2>3
<1>4. ASSUME NEW m \in Honest, Crash(m) PROVE PrunedAt(n)'
    <2>1. /\ sess' = [sess EXCEPT ![m] = SessionOf(Number[finalized[m]])]
          /\ known' = [known EXCEPT ![m] = [s \in Sessions |-> {}]]
        BY <1>4 DEF Crash
    <2>2. CASE m = n
        <3>1. \A t \in Sessions : known'[n][t] = {}
            BY <2>1, <2>2 DEF TypeOK
        <3> QED
            BY <3>1 DEF PrunedAt
    <2>3. CASE m # n
        <3>1. sess'[n] = sess[n] /\ known'[n] = known[n]
            BY <2>1, <2>3 DEF TypeOK
        <3> QED
            BY <1>0, <3>1, PrunedStays
    <2> QED
        BY <2>2, <2>3
<1>5. ASSUME NEW m \in Honest, NEW b \in Blocks, ImportBlock(m, b) \/ HandleJustification(m, b)
      PROVE  PrunedAt(n)'
    BY <1>1, <1>5 DEF ImportBlock, HandleJustification, party
<1>6. ASSUME NEW m \in Honest, StartSession(m) PROVE PrunedAt(n)'
    BY <1>1, <1>6 DEF StartSession
<1>7. ASSUME NEW m \in Honest, NEW s \in Sessions, StartAggregator(m, s) \/ ExitAggregator(m, s)
      PROVE  PrunedAt(n)'
    BY <1>1, <1>7 DEF StartAggregator, ExitAggregator, party
<1>8. ASSUME NEW m \in Honest, NEW s \in Sessions, NEW d \in Data[s], OrderedDatum(m, s, d)
      PROVE  PrunedAt(n)'
    BY <1>1, <1>8 DEF OrderedDatum, party
<1>9. CASE UNCHANGED vars
    BY <1>1, <1>9 DEF vars, party
<1> QED
    BY <1>2, <1>3, <1>4, <1>5, <1>6, <1>7, <1>8, <1>9 DEF Next

\* However long the chain, the SessionMap of a node reaches back two windows
\* of sessions at most.
THEOREM MapIsBounded == Spec => []SessionMapBounded
<1>1. Init => PrunedInv
    BY DEF Init, PrunedInv, PrunedAt
<1> QED
    BY <1>1, PrunedIsBounded, NextPruned, TypeCorrect, PTL DEF Spec
----------------------------------------------------------------------------
(* Signatures, when no node restarts *)

\* The session of b is over for n.
Over(n, b) == LastBlockOf(SessionOf(Number[b])) =< Number[finalized[n]]

\* An aggregator whose session the party has left finds the session over.
LeftIsOver(n) ==
    \A s \in Sessions : agg[n][s].st # "none" =>
        /\ s =< sess[n]
        /\ s = sess[n] => phase[n] = "running"
        /\ s < sess[n] => LastBlockOf(s) =< Number[finalized[n]]

\* Two aggregators of one node sign in different sessions.
TipsApart(n) ==
    \A r, s \in Sessions :
        s < r /\ agg[n][s].st # "none" /\ agg[n][r].st = "running" =>
            LastBlockOf(s) =< Number[agg[n][r].tip]

\* n has signed in sessions that are over, and in the one its party runs.
SignedSoFar(n) ==
    \A b \in Blocks : <<n, b>> \in signed =>
        Over(n, b) \/ (phase[n] = "running" /\ SessionOf(Number[b]) =< sess[n])

\* Nothing is signed in the session of an aggregator that has not started.
SignedBeforeStart(n) ==
    \A s \in Sessions, b \in Blocks :
        agg[n][s].st = "spawned" /\ <<n, b>> \in signed /\ SessionOf(Number[b]) =< s =>
            Over(n, b)

\* An aggregator has left behind, or builds on, whatever n has signed.
SignedBelowTip(n) ==
    \A s \in Sessions, b \in Blocks :
        agg[n][s].st = "running" /\ <<n, b>> \in signed /\ SessionOf(Number[b]) =< s =>
            \/ b \in Ancestors[agg[n][s].tip]
            \/ LastBlockOf(SessionOf(Number[b])) =< Number[agg[n][s].tip]

OneChainPerSession(n) ==
    \A b, c \in Blocks :
        /\ <<n, b>> \in signed /\ <<n, c>> \in signed
        /\ SessionOf(Number[b]) = SessionOf(Number[c])
        => Comparable(b, c)

SigningInvAt(n) ==
    /\ LeftIsOver(n) /\ TipsApart(n) /\ SignedSoFar(n)
    /\ SignedBeforeStart(n) /\ SignedBelowTip(n) /\ OneChainPerSession(n)

SigningInv == \A n \in Honest : SigningInvAt(n)

\* The block numbers and sessions the proofs compute with.
LEMMA Numbers ==
    /\ \A b \in Blocks : /\ Number[b] \in Nat
                         /\ SessionOf(Number[b]) \in Nat
                         /\ LastBlockOf(SessionOf(Number[b])) \in Nat
                         /\ Number[b] =< LastBlockOf(SessionOf(Number[b]))
    /\ \A s \in Sessions : s \in Nat /\ LastBlockOf(s) \in Nat
BY Constants, SessionBounds, LastBlockMonotone

\* A step that leaves n's party, aggregators and signatures alone, and does not
\* move its finalised block down, keeps the invariant at n.
LEMMA SigningUnchanged ==
    ASSUME TypeOK, NEW n \in Honest, SigningInvAt(n),
           finalized'[n] \in Blocks,
           Number[finalized[n]] =< Number[finalized'[n]],
           sess'[n] = sess[n], phase'[n] = phase[n], agg'[n] = agg[n],
           \A b \in Blocks : <<n, b>> \in signed' <=> <<n, b>> \in signed
    PROVE  SigningInvAt(n)'
<1>1. Number[finalized[n]] \in Nat /\ Number[finalized'[n]] \in Nat
    BY Numbers DEF TypeOK
<1>2. \A b \in Blocks : Over(n, b) => Over(n, b)'
    BY <1>1, Numbers DEF Over
<1>3. LeftIsOver(n)'
    BY <1>1, Numbers DEF SigningInvAt, LeftIsOver
<1>4. TipsApart(n)' /\ SignedBelowTip(n)' /\ OneChainPerSession(n)'
    BY DEF SigningInvAt, TipsApart, SignedBelowTip, OneChainPerSession
<1>5. SignedSoFar(n)' /\ SignedBeforeStart(n)'
    BY <1>2 DEF SigningInvAt, SignedSoFar, SignedBeforeStart
<1> QED
    BY <1>3, <1>4, <1>5 DEF SigningInvAt

\* The party goes to the next session: the one it leaves is over, or had no
\* aggregator.
LEMMA NextSessionSigning ==
    ASSUME TypeOK, NEW n \in Honest, SigningInvAt(n), NextSession(n, known[n]),
           UNCHANGED <<finalized, agg, signed>>,
           \/ LastBlockOf(sess[n]) =< Number[finalized[n]]
           \/ phase[n] # "running"
    PROVE  SigningInvAt(n)'
<1>1. /\ sess[n] \in Nat /\ sess'[n] = sess[n] + 1 /\ phase'[n] = "entering"
      /\ sess[n] \in Sessions
    BY Numbers DEF NextSession, TypeOK
<1>2. finalized[n] \in Blocks /\ Number[finalized[n]] \in Nat
    BY Numbers DEF TypeOK
<1>3. LeftIsOver(n)'
    BY <1>1, Numbers DEF SigningInvAt, LeftIsOver
<1>4. SignedSoFar(n)'
    <2> SUFFICES ASSUME NEW b \in Blocks, <<n, b>> \in signed
                 PROVE  Over(n, b)
        BY DEF SignedSoFar, Over
    <2>1. CASE phase[n] # "running"
        BY <2>1 DEF SigningInvAt, SignedSoFar
    <2>2. CASE LastBlockOf(sess[n]) =< Number[finalized[n]]
        <3>1. Over(n, b) \/ SessionOf(Number[b]) =< sess[n]
            BY DEF SigningInvAt, SignedSoFar
        <3>2. SessionOf(Number[b]) =< sess[n] =>
                  LastBlockOf(SessionOf(Number[b])) =< LastBlockOf(sess[n])
            BY <1>1, Numbers, LastBlockMonotone
        <3> QED
            BY <1>1, <1>2, <2>2, <3>1, <3>2, Numbers DEF Over
    <2> QED
        BY <2>1, <2>2
<1>5. TipsApart(n)' /\ SignedBelowTip(n)' /\ OneChainPerSession(n)'
    BY DEF SigningInvAt, TipsApart, SignedBelowTip, OneChainPerSession
<1>6. SignedBeforeStart(n)'
    BY DEF SigningInvAt, SignedBeforeStart, Over
<1> QED
    BY <1>3, <1>4, <1>5, <1>6 DEF SigningInvAt

LEMMA EnterSessionSigning ==
    ASSUME TypeOK, NEW n \in Honest, SigningInvAt(n), EnterSession(n)
    PROVE  SigningInvAt(n)'
<1>1. /\ phase[n] = "entering" /\ phase'[n] = "loaded"
      /\ UNCHANGED <<finalized, sess, agg, signed>>
    BY DEF EnterSession, TypeOK
<1>2. LeftIsOver(n)' /\ SignedSoFar(n)'
    BY <1>1 DEF SigningInvAt, LeftIsOver, SignedSoFar, Over
<1>3. TipsApart(n)' /\ SignedBelowTip(n)' /\ OneChainPerSession(n)' /\ SignedBeforeStart(n)'
    BY <1>1 DEF SigningInvAt, TipsApart, SignedBelowTip, OneChainPerSession,
                SignedBeforeStart, Over
<1> QED
    BY <1>2, <1>3 DEF SigningInvAt

LEMMA StartSessionSigning ==
    ASSUME TypeOK, NEW n \in Honest, SigningInvAt(n), StartSession(n)
    PROVE  SigningInvAt(n)'
<1>1. /\ phase[n] = "loaded" /\ phase'[n] = "running"
      /\ UNCHANGED <<finalized, sess, signed>>
      /\ sess[n] \in Sessions /\ sess[n] \in Nat
    BY Numbers DEF StartSession, TypeOK
<1>2. /\ \A s \in Sessions : s # sess[n] => agg'[n][s] = agg[n][s]
      /\ \/ agg'[n][sess[n]] = agg[n][sess[n]]
         \/ agg'[n][sess[n]].st = "spawned"
    <2>1. agg' = agg \/ agg' = [agg EXCEPT ![n][sess[n]] = [NoAggregator EXCEPT !.st = "spawned"]]
        BY DEF StartSession
    <2>2. [NoAggregator EXCEPT !.st = "spawned"].st = "spawned"
        BY DEF NoAggregator
    <2> DEFINE new == [NoAggregator EXCEPT !.st = "spawned"]
    <2>3. agg' = agg \/ agg' = [agg EXCEPT ![n][sess[n]] = new]
        BY <2>1
    <2>4. new.st = "spawned"
        BY <2>2
    <2> HIDE DEF new
    <2> QED
        BY <1>1, <2>3, <2>4 DEF TypeOK
<1>3. agg[n][sess[n]].st = "none"
    BY <1>1 DEF SigningInvAt, LeftIsOver
<1>4. \A s \in Sessions : agg'[n][s].st = "running" =>
          s # sess[n] /\ agg'[n][s] = agg[n][s]
    BY <1>2, <1>3
<1>5. LeftIsOver(n)'
    BY <1>1, <1>2 DEF SigningInvAt, LeftIsOver
<1>6. TipsApart(n)'
    <2> SUFFICES ASSUME NEW r \in Sessions, NEW s \in Sessions, s < r,
                        agg'[n][s].st # "none", agg'[n][r].st = "running"
                 PROVE  LastBlockOf(s) =< Number[agg'[n][r].tip]
        BY DEF TipsApart
    <2>1. agg'[n][r] = agg[n][r] /\ r # sess[n] /\ r =< sess[n]
        BY <1>4 DEF SigningInvAt, LeftIsOver
    <2>2. s # sess[n]
        BY <2>1, Numbers
    <2> QED
        BY <1>2, <2>1, <2>2 DEF SigningInvAt, TipsApart
<1>7. SignedSoFar(n)'
    BY <1>1 DEF SigningInvAt, SignedSoFar, Over
<1>8. SignedBeforeStart(n)'
    BY <1>1 DEF SigningInvAt, SignedSoFar, SignedBeforeStart, Over
<1>9. SignedBelowTip(n)' /\ OneChainPerSession(n)'
    BY <1>1, <1>4 DEF SigningInvAt, SignedBelowTip, OneChainPerSession
<1> QED
    BY <1>5, <1>6, <1>7, <1>8, <1>9 DEF SigningInvAt

LEMMA StartAggregatorSigning ==
    ASSUME TypeOK, NEW n \in Honest, NEW s \in Sessions, SigningInvAt(n), StartAggregator(n, s)
    PROVE  SigningInvAt(n)'
<1>1. /\ agg[n][s].st = "spawned"
      /\ UNCHANGED <<finalized, sess, phase, signed>>
    BY DEF StartAggregator, party
<1>2. /\ agg'[n][s].st = "running" /\ agg'[n][s].tip = finalized[n]
      /\ \A r \in Sessions : r # s => agg'[n][r] = agg[n][r]
    <2>1. agg[n][s] \in Aggregator
        BY DEF TypeOK
    <2>2. agg' = [agg EXCEPT ![n][s] = [agg[n][s] EXCEPT !.st = "running", !.tip = finalized[n]]]
        BY DEF StartAggregator
    <2>3. agg'[n][s] = [agg[n][s] EXCEPT !.st = "running", !.tip = finalized[n]]
        BY <2>2 DEF TypeOK
    <2>4. agg'[n][s].st = "running" /\ agg'[n][s].tip = finalized[n]
        BY <2>1, <2>3 DEF Aggregator
    <2> QED
        BY <2>2, <2>4 DEF TypeOK
<1>3. LeftIsOver(n)'
    BY <1>1, <1>2 DEF SigningInvAt, LeftIsOver
<1>4. TipsApart(n)'
    <2> SUFFICES ASSUME NEW q \in Sessions, NEW r \in Sessions, q < r,
                        agg'[n][q].st # "none", agg'[n][r].st = "running"
                 PROVE  LastBlockOf(q) =< Number[agg'[n][r].tip]
        BY DEF TipsApart
    <2>1. agg[n][q].st # "none"
        BY <1>1, <1>2
    <2>2. CASE r = s
        <3>1. s =< sess[n] /\ sess[n] \in Nat /\ q \in Nat /\ s \in Nat
            BY <1>1, Numbers DEF SigningInvAt, LeftIsOver, TypeOK
        <3>2. q < sess[n]
            BY <2>2, <3>1
        <3> QED
            BY <1>2, <2>1, <2>2, <3>2 DEF SigningInvAt, LeftIsOver
    <2>3. CASE r # s
        BY <1>2, <2>1, <2>3 DEF SigningInvAt, TipsApart
    <2> QED
        BY <2>2, <2>3
<1>5. SignedSoFar(n)' /\ OneChainPerSession(n)'
    BY <1>1 DEF SigningInvAt, SignedSoFar, OneChainPerSession, Over
<1>6. SignedBeforeStart(n)'
    BY <1>1, <1>2 DEF SigningInvAt, SignedBeforeStart, Over
<1>7. SignedBelowTip(n)'
    <2> SUFFICES ASSUME NEW r \in Sessions, NEW b \in Blocks, agg'[n][r].st = "running",
                        <<n, b>> \in signed, SessionOf(Number[b]) =< r
                 PROVE  \/ b \in Ancestors[agg'[n][r].tip]
                        \/ LastBlockOf(SessionOf(Number[b])) =< Number[agg'[n][r].tip]
        BY <1>1 DEF SignedBelowTip
    <2>1. CASE r = s
        BY <1>1, <1>2, <2>1 DEF SigningInvAt, SignedBeforeStart, Over
    <2>2. CASE r # s
        BY <1>2, <2>2 DEF SigningInvAt, SignedBelowTip
    <2> QED
        BY <2>1, <2>2
<1> QED
    BY <1>3, <1>4, <1>5, <1>6, <1>7 DEF SigningInvAt

LEMMA ExitAggregatorSigning ==
    ASSUME TypeOK, NEW n \in Honest, NEW s \in Sessions, SigningInvAt(n), ExitAggregator(n, s)
    PROVE  SigningInvAt(n)'
<1>1. UNCHANGED <<finalized, sess, phase, signed>>
    BY DEF ExitAggregator, party
<1>2. /\ agg'[n][s].st = "none"
      /\ \A r \in Sessions : r # s => agg'[n][r] = agg[n][r]
    BY DEF ExitAggregator, TypeOK, NoAggregator
<1>3. LeftIsOver(n)' /\ TipsApart(n)'
    BY <1>1, <1>2 DEF SigningInvAt, LeftIsOver, TipsApart
<1>4. SignedSoFar(n)' /\ OneChainPerSession(n)'
    BY <1>1 DEF SigningInvAt, SignedSoFar, OneChainPerSession, Over
<1>5. SignedBeforeStart(n)'
    BY <1>1, <1>2 DEF SigningInvAt, SignedBeforeStart, Over
<1>6. SignedBelowTip(n)'
    BY <1>1, <1>2 DEF SigningInvAt, SignedBelowTip
<1> QED
    BY <1>3, <1>4, <1>5, <1>6 DEF SigningInvAt

\* A block above the last block of session t lies in a later session.
LEMMA LaterSession ==
    \A b \in Blocks : \A t \in Nat :
        LastBlockOf(t) < Number[b] <=> t < SessionOf(Number[b])
<1> SUFFICES ASSUME NEW b \in Blocks, NEW t \in Nat
             PROVE  LastBlockOf(t) < Number[b] <=> t < SessionOf(Number[b])
    OBVIOUS
<1>1. Number[b] \in Nat /\ SessionOf(Number[b]) \in Nat /\ LastBlockOf(t) \in Nat
    BY Numbers, LastBlockMonotone
<1>2. SessionOf(Number[b]) =< t <=> Number[b] =< LastBlockOf(t)
    BY <1>1, SessionOrder
<1> QED
    BY <1>1, <1>2

LEMMA OrderedDatumSigning ==
    ASSUME TypeOK, NEW n \in Honest, NEW s \in Sessions, NEW d \in Data[s],
           SigningInvAt(n), OrderedDatum(n, s, d)
    PROVE  SigningInvAt(n)'
<1>1. PICK adopted \in SUBSET Blocks, a \in Aggregator :
          /\ agg[n][s].st = "running" /\ a.st = "running"
          /\ agg' = [agg EXCEPT ![n][s] = a]
          /\ signed' = signed \cup {<<n, b>> : b \in adopted}
          /\ agg[n][s].tip \in Ancestors[a.tip]
          /\ \A b \in adopted : /\ b \in Ancestors[a.tip]
                                /\ agg[n][s].tip \in Ancestors[b]
                                /\ Number[b] > Number[agg[n][s].tip]
                                /\ Number[b] =< LastBlockOf(s)
    BY OrderedDatumEffect
<1> DEFINE old == agg[n][s].tip
<1>2. UNCHANGED <<finalized, sess, phase>>
    BY DEF OrderedDatum, party
<1>3. /\ agg'[n][s] = a
      /\ \A r \in Sessions : r # s => agg'[n][r] = agg[n][r]
    BY <1>1 DEF TypeOK
<1>4. \A b \in Blocks : <<n, b>> \in signed' <=> <<n, b>> \in signed \/ b \in adopted
    BY <1>1
<1>5. /\ old \in Blocks /\ a.tip \in Blocks
      /\ Number[old] \in Nat /\ Number[a.tip] \in Nat
      /\ Number[old] =< Number[a.tip]
    <2>1. agg[n][s] \in Aggregator
        BY DEF TypeOK
    <2>2. old \in Blocks /\ a.tip \in Blocks
        BY <2>1 DEF Aggregator
    <2> QED
        BY <1>1, <2>2, Numbers, ChainAssumption
\* The new signatures are in session s or before it, but after every session
\* that the old tip had left behind.
<1>6. ASSUME NEW b \in adopted
      PROVE  /\ b \in Blocks /\ Number[b] \in Nat /\ SessionOf(Number[b]) \in Nat
             /\ SessionOf(Number[b]) =< s
             /\ LastBlockOf(SessionOf(Number[b])) =< LastBlockOf(s)
             /\ \A t \in Nat : LastBlockOf(t) =< Number[old] => t < SessionOf(Number[b])
    <2>1. b \in Blocks /\ Number[b] \in Nat /\ SessionOf(Number[b]) \in Nat
        BY Numbers
    <2>2. s \in Nat /\ Number[b] =< LastBlockOf(s) /\ Number[b] > Number[old]
        BY <1>1, Numbers
    <2>3. SessionOf(Number[b]) =< s
        BY <2>1, <2>2, SessionOrder
    <2>4. LastBlockOf(SessionOf(Number[b])) =< LastBlockOf(s)
        BY <2>1, <2>2, <2>3, LastBlockMonotone
    <2>5. ASSUME NEW t \in Nat, LastBlockOf(t) =< Number[old]
          PROVE  t < SessionOf(Number[b])
        <3>1. LastBlockOf(t) < Number[b]
            BY <1>5, <2>1, <2>2, <2>5, LastBlockMonotone
        <3> QED
            BY <2>1, <3>1, LaterSession
    <2> QED
        BY <2>1, <2>3, <2>4, <2>5
<1>7. LeftIsOver(n)'
    BY <1>1, <1>2, <1>3 DEF SigningInvAt, LeftIsOver
<1>8. TipsApart(n)'
    <2> SUFFICES ASSUME NEW q \in Sessions, NEW r \in Sessions, q < r,
                        agg'[n][q].st # "none", agg'[n][r].st = "running"
                 PROVE  LastBlockOf(q) =< Number[agg'[n][r].tip]
        BY DEF TipsApart
    <2>1. agg[n][q].st # "none" /\ agg[n][r].st = "running"
        BY <1>1, <1>3
    <2>2. LastBlockOf(q) =< Number[agg[n][r].tip]
        BY <2>1 DEF SigningInvAt, TipsApart
    <2>3. CASE r = s
        BY <1>3, <1>5, <2>2, <2>3, Numbers
    <2>4. CASE r # s
        BY <1>3, <2>2, <2>4
    <2> QED
        BY <2>3, <2>4
<1>9. SignedSoFar(n)'
    <2> SUFFICES ASSUME NEW b \in Blocks, <<n, b>> \in signed'
                 PROVE  Over(n, b) \/ (phase[n] = "running" /\ SessionOf(Number[b]) =< sess[n])
        BY <1>2 DEF SignedSoFar, Over
    <2>1. CASE <<n, b>> \in signed
        BY <2>1 DEF SigningInvAt, SignedSoFar
    <2>2. CASE b \in adopted
        <3>1. /\ SessionOf(Number[b]) =< s
              /\ LastBlockOf(SessionOf(Number[b])) =< LastBlockOf(s)
            BY <1>6, <2>2
        <3>2. s =< sess[n] /\ s \in Nat /\ sess[n] \in Nat /\ SessionOf(Number[b]) \in Nat
            BY <1>1, Numbers DEF SigningInvAt, LeftIsOver, TypeOK
        <3>3. CASE s = sess[n]
            BY <1>1, <3>1, <3>3 DEF SigningInvAt, LeftIsOver
        <3>4. CASE s < sess[n]
            <4>1. LastBlockOf(s) =< Number[finalized[n]]
                BY <1>1, <3>4 DEF SigningInvAt, LeftIsOver
            <4>2. finalized[n] \in Blocks /\ Number[finalized[n]] \in Nat
                BY Numbers DEF TypeOK
            <4> QED
                BY <3>1, <4>1, <4>2, Numbers DEF Over
        <3> QED
            BY <3>2, <3>3, <3>4
    <2> QED
        BY <1>4, <2>1, <2>2
<1>10. SignedBeforeStart(n)'
    <2> SUFFICES ASSUME NEW r \in Sessions, NEW b \in Blocks, agg'[n][r].st = "spawned",
                        <<n, b>> \in signed', SessionOf(Number[b]) =< r
                 PROVE  Over(n, b)
        BY <1>2 DEF SignedBeforeStart, Over
    <2>1. r # s /\ agg[n][r].st = "spawned"
        BY <1>1, <1>3
    <2>2. CASE <<n, b>> \in signed
        BY <2>1, <2>2 DEF SigningInvAt, SignedBeforeStart
    <2>3. CASE b \in adopted
        <3>1. r \in Nat /\ s \in Nat /\ SessionOf(Number[b]) \in Nat /\ sess[n] \in Nat
            BY Numbers DEF TypeOK
        <3>2. ~(r < s)
            <4> SUFFICES ASSUME r < s
                         PROVE  FALSE
                OBVIOUS
            <4>1. LastBlockOf(r) =< Number[old]
                BY <1>1, <2>1 DEF SigningInvAt, TipsApart
            <4>2. r < SessionOf(Number[b])
                BY <1>6, <2>3, <3>1, <4>1
            <4> QED
                BY <3>1, <4>2
        <3>3. r =< sess[n]
            BY <2>1 DEF SigningInvAt, LeftIsOver
        <3>4. s < sess[n]
            BY <2>1, <3>1, <3>2, <3>3
        <3>5. LastBlockOf(s) =< Number[finalized[n]]
            BY <1>1, <3>4 DEF SigningInvAt, LeftIsOver
        <3>6. LastBlockOf(SessionOf(Number[b])) =< LastBlockOf(s)
            BY <1>6, <2>3
        <3>7. Number[finalized[n]] \in Nat
            BY Numbers DEF TypeOK
        <3> QED
            BY <3>5, <3>6, <3>7, Numbers DEF Over
    <2> QED
        BY <1>4, <2>2, <2>3
<1>11. SignedBelowTip(n)'
    <2> SUFFICES ASSUME NEW r \in Sessions, NEW b \in Blocks, agg'[n][r].st = "running",
                        <<n, b>> \in signed', SessionOf(Number[b]) =< r
                 PROVE  \/ b \in Ancestors[agg'[n][r].tip]
                        \/ LastBlockOf(SessionOf(Number[b])) =< Number[agg'[n][r].tip]
        BY <1>2 DEF SignedBelowTip
    <2>1. agg[n][r].st = "running"
        BY <1>1, <1>3
    <2>2. CASE r = s /\ b \in adopted
        BY <1>1, <1>3, <2>2
    <2>3. CASE r = s /\ <<n, b>> \in signed
        <3>1. b \in Ancestors[old] \/ LastBlockOf(SessionOf(Number[b])) =< Number[old]
            BY <2>1, <2>3 DEF SigningInvAt, SignedBelowTip
        <3>2. b \in Ancestors[old] => b \in Ancestors[a.tip]
            BY <1>1, <1>5, AncestorsTransitive
        <3> QED
            BY <1>3, <1>5, <2>3, <3>1, <3>2, Numbers
    <2>4. CASE r # s /\ <<n, b>> \in signed
        BY <1>3, <2>1, <2>4 DEF SigningInvAt, SignedBelowTip
    <2>5. CASE r # s /\ b \in adopted
        <3>1. r \in Nat /\ s \in Nat /\ SessionOf(Number[b]) \in Nat
            BY Numbers
        <3>2. ~(r < s)
            <4> SUFFICES ASSUME r < s
                         PROVE  FALSE
                OBVIOUS
            <4>1. LastBlockOf(r) =< Number[old]
                BY <1>1, <2>1 DEF SigningInvAt, TipsApart
            <4>2. r < SessionOf(Number[b])
                BY <1>6, <2>5, <3>1, <4>1
            <4> QED
                BY <3>1, <4>2
        <3>3. LastBlockOf(s) =< Number[agg[n][r].tip]
            BY <1>1, <2>1, <2>5, <3>1, <3>2 DEF SigningInvAt, TipsApart
        <3>4. LastBlockOf(SessionOf(Number[b])) =< LastBlockOf(s)
            BY <1>6, <2>5
        <3>5. agg[n][r].tip \in Blocks /\ Number[agg[n][r].tip] \in Nat
            <4>1. agg[n][r] \in Aggregator
                BY DEF TypeOK
            <4> QED
                BY <4>1, Numbers DEF Aggregator
        <3> QED
            BY <1>3, <2>5, <3>3, <3>4, <3>5, Numbers
    <2> QED
        BY <1>4, <2>2, <2>3, <2>4, <2>5
<1>12. ASSUME NEW b \in adopted, NEW c \in Blocks, <<n, c>> \in signed,
              SessionOf(Number[b]) = SessionOf(Number[c])
       PROVE  Comparable(b, c)
    <2>1. \/ c \in Ancestors[old]
          \/ LastBlockOf(SessionOf(Number[c])) =< Number[old]
        BY <1>1, <1>6, <1>12 DEF SigningInvAt, SignedBelowTip
    <2>2. CASE c \in Ancestors[old]
        <3>1. b \in Blocks /\ old \in Ancestors[b]
            BY <1>1
        <3>2. c \in Ancestors[b]
            BY <2>2, <3>1, AncestorsTransitive
        <3> QED
            BY <3>2 DEF Comparable
    <2>3. CASE LastBlockOf(SessionOf(Number[c])) =< Number[old]
        <3>1. SessionOf(Number[c]) < SessionOf(Number[b])
            BY <1>6, <2>3, Numbers
        <3> QED
            BY <1>12, <3>1, Numbers
    <2> QED
        BY <2>1, <2>2, <2>3
<1>13. OneChainPerSession(n)'
    <2> SUFFICES ASSUME NEW b \in Blocks, NEW c \in Blocks,
                        <<n, b>> \in signed', <<n, c>> \in signed',
                        SessionOf(Number[b]) = SessionOf(Number[c])
                 PROVE  Comparable(b, c)
        BY DEF OneChainPerSession
    <2>1. CASE <<n, b>> \in signed /\ <<n, c>> \in signed
        BY <2>1 DEF SigningInvAt, OneChainPerSession
    <2>2. CASE b \in adopted /\ c \in adopted
        BY <1>1, <1>5, <2>2, ChainComparable
    <2>3. CASE b \in adopted /\ <<n, c>> \in signed
        BY <1>12, <2>3
    <2>4. CASE <<n, b>> \in signed /\ c \in adopted
        <3>1. Comparable(c, b)
            BY <1>12, <2>4
        <3> QED
            BY <3>1 DEF Comparable
    <2> QED
        BY <1>4, <2>1, <2>2, <2>3, <2>4
<1> QED
    BY <1>7, <1>8, <1>9, <1>10, <1>11, <1>13 DEF SigningInvAt

LEMMA InitSigningInv == Init => SigningInv
<1> SUFFICES ASSUME Init, NEW n \in Honest
             PROVE  SigningInvAt(n)
    BY DEF SigningInv
<1>1. /\ \A s \in Sessions : agg[n][s].st = "none"
      /\ signed = {}
    BY DEF Init, NoAggregator
<1> QED
    BY <1>1 DEF SigningInvAt, LeftIsOver, TipsApart, SignedSoFar, SignedBeforeStart,
                SignedBelowTip, OneChainPerSession

\* A node's own finalised block only rises, and only its own handler raises it.
LEMMA HandleJustificationSigning ==
    ASSUME TypeOK, NEW m \in Honest, NEW n \in Honest, NEW b \in Blocks,
           SigningInvAt(n), HandleJustification(m, b)
    PROVE  SigningInvAt(n)'
<1>1. finalized' = [finalized EXCEPT ![m] = b] /\ Number[b] > Number[finalized[m]]
      /\ UNCHANGED <<sess, phase, agg, signed>>
    BY DEF HandleJustification, party
<1>2. finalized'[n] \in Blocks /\ Number[finalized[n]] =< Number[finalized'[n]]
    <2>1. \A k \in Honest : finalized[k] \in Blocks /\ Number[finalized[k]] \in Nat
        BY Numbers DEF TypeOK
    <2> QED
        BY <1>1, <2>1, Numbers DEF TypeOK
<1> QED
    BY <1>1, <1>2, SigningUnchanged

\* A step of another node does not touch the invariant at n.
LEMMA OthersSigning ==
    ASSUME TypeOK, NEW n \in Honest, SigningInvAt(n),
           UNCHANGED finalized, sess'[n] = sess[n], phase'[n] = phase[n], agg'[n] = agg[n],
           \A b \in Blocks : <<n, b>> \in signed' <=> <<n, b>> \in signed
    PROVE  SigningInvAt(n)'
<1>1. finalized'[n] \in Blocks /\ Number[finalized[n]] =< Number[finalized'[n]]
    BY Numbers DEF TypeOK
<1> QED
    BY <1>1, SigningUnchanged

LEMMA NextSigningInv ==
    MaxCrashes = 0 /\ TypeOK /\ SigningInv /\ [Next]_vars => SigningInv'
<1> SUFFICES ASSUME MaxCrashes = 0, TypeOK, SigningInv, [Next]_vars, NEW n \in Honest
             PROVE  SigningInvAt(n)'
    BY DEF SigningInv
<1> USE DEF SigningInv
<1>1. ASSUME NEW m \in Honest, NEW b \in Blocks, ImportBlock(m, b)
      PROVE  SigningInvAt(n)'
    BY <1>1, OthersSigning DEF ImportBlock, party
<1>2. ASSUME NEW m \in Honest, NEW b \in Blocks, HandleJustification(m, b)
      PROVE  SigningInvAt(n)'
    BY <1>2, HandleJustificationSigning
<1>3. ASSUME NEW m \in Honest, EnterSession(m)
      PROVE  SigningInvAt(n)'
    <2>1. CASE m = n
        BY <1>3, <2>1, EnterSessionSigning
    <2>2. CASE m # n
        BY <1>3, <2>2, OthersSigning DEF EnterSession, TypeOK
    <2> QED
        BY <2>1, <2>2
<1>4. ASSUME NEW m \in Honest, SkipSessionOnError(m) \/ EarlySkip(m) \/ EndSession(m)
      PROVE  SigningInvAt(n)'
    <2>1. LastBlockOf(sess[m]) \in Nat /\ Number[finalized[m]] \in Nat
        BY Numbers DEF TypeOK
    <2>2. /\ NextSession(m, known[m]) /\ UNCHANGED <<finalized, agg, signed>>
          /\ LastBlockOf(sess[m]) =< Number[finalized[m]] \/ phase[m] # "running"
        BY <1>4, <2>1 DEF SkipSessionOnError, EarlySkip, EndSession
    <2>3. CASE m = n
        BY <2>2, <2>3, NextSessionSigning
    <2>4. CASE m # n
        BY <2>2, <2>4, OthersSigning DEF NextSession, TypeOK
    <2> QED
        BY <2>3, <2>4
<1>5. ASSUME NEW m \in Honest, StartSession(m)
      PROVE  SigningInvAt(n)'
    <2>1. CASE m = n
        BY <1>5, <2>1, StartSessionSigning
    <2>2. CASE m # n
        BY <1>5, <2>2, OthersSigning DEF StartSession, TypeOK
    <2> QED
        BY <2>1, <2>2
<1>6. ASSUME NEW m \in Honest, NEW s \in Sessions, StartAggregator(m, s)
      PROVE  SigningInvAt(n)'
    <2>1. CASE m = n
        BY <1>6, <2>1, StartAggregatorSigning
    <2>2. CASE m # n
        BY <1>6, <2>2, OthersSigning DEF StartAggregator, party, TypeOK
    <2> QED
        BY <2>1, <2>2
<1>7. ASSUME NEW m \in Honest, NEW s \in Sessions, ExitAggregator(m, s)
      PROVE  SigningInvAt(n)'
    <2>1. CASE m = n
        BY <1>7, <2>1, ExitAggregatorSigning
    <2>2. CASE m # n
        BY <1>7, <2>2, OthersSigning DEF ExitAggregator, party, TypeOK
    <2> QED
        BY <2>1, <2>2
<1>8. ASSUME NEW m \in Honest, NEW s \in Sessions, NEW d \in Data[s], OrderedDatum(m, s, d)
      PROVE  SigningInvAt(n)'
    <2>1. CASE m = n
        BY <1>8, <2>1, OrderedDatumSigning
    <2>2. CASE m # n
        <3>1. PICK adopted \in SUBSET Blocks, a \in Aggregator :
                  /\ agg' = [agg EXCEPT ![m][s] = a]
                  /\ signed' = signed \cup {<<m, b>> : b \in adopted}
            BY <1>8, OrderedDatumEffect
        <3>2. agg'[n] = agg[n] /\ \A b \in Blocks : <<n, b>> \in signed' <=> <<n, b>> \in signed
            BY <2>2, <3>1 DEF TypeOK
        <3>3. UNCHANGED <<finalized, sess, phase>>
            BY <1>8 DEF OrderedDatum, party
        <3> QED
            BY <3>2, <3>3, OthersSigning
    <2> QED
        BY <2>1, <2>2
<1>9. ASSUME NEW m \in Honest
      PROVE  ~Crash(m)
    BY DEF Crash, TypeOK
<1>10. CASE UNCHANGED vars
    BY <1>10, OthersSigning DEF vars, party
<1> QED
    BY <1>1, <1>2, <1>3, <1>4, <1>5, <1>6, <1>7, <1>8, <1>9, <1>10 DEF Next

----------------------------------------------------------------------------
(* Certificates *)

Committees == {GenesisCommittee} \cup {NextAuthorities[b] : b \in Blocks}

LEMMA CommitteesAreFinite ==
    \A C \in Committees : C \subseteq Nodes /\ IsFiniteSet(C) /\ Cardinality(C) \in Nat
<1> SUFFICES ASSUME NEW C \in Committees
             PROVE  C \subseteq Nodes /\ IsFiniteSet(C) /\ Cardinality(C) \in Nat
    OBVIOUS
<1>1. C \subseteq Nodes
    BY Constants DEF Committees
<1>2. IsFiniteSet(Nodes)
    BY ParameterAssumption
<1>3. IsFiniteSet(C)
    BY <1>1, <1>2, FS_Subset
<1> QED
    BY <1>1, <1>3, FS_CardinalityType

LEMMA CommitteeOnType ==
    ASSUME NEW b \in Blocks, NEW s \in Nat, s = 0 \/ LastBlockOf(s - 1) =< Number[b]
    PROVE  CommitteeOn(b, s) \in Committees
<1>1. CASE s = 0
    BY <1>1 DEF CommitteeOn, Committees
<1>2. CASE s # 0
    <2>1. s - 1 \in Nat /\ LastBlockOf(s - 1) \in Nat /\ Number[b] \in Nat
        BY <1>2, LastBlockMonotone, Constants
    <2>2. AncestorAt(b, LastBlockOf(s - 1)) \in Blocks
        BY <1>2, <2>1, AncestorAtIsOnChain
    <2> QED
        BY <1>2, <2>2 DEF CommitteeOn, Committees
<1> QED
    BY <1>1, <1>2

\* Two complete multisignatures of one committee have an honest signer in common.
LEMMA QuorumsIntersect ==
    ASSUME NEW C \in Committees, NEW x \in Blocks, NEW y \in Blocks,
           IsComplete(Signers(x), C), IsComplete(Signers(y), C)
    PROVE  \E h \in Honest : <<h, x>> \in signed /\ <<h, y>> \in signed
<1> DEFINE A == Signers(x) \cap C
           B == Signers(y) \cap C
           X == C \cap Faulty
<1>1. IsFiniteSet(C) /\ Cardinality(C) \in Nat
    BY CommitteesAreFinite
<1>2. /\ IsFiniteSet(A) /\ IsFiniteSet(B) /\ IsFiniteSet(X)
      /\ IsFiniteSet(A \cap B) /\ IsFiniteSet(A \cup B)
    <2>1. A \subseteq C /\ B \subseteq C /\ X \subseteq C /\ A \cap B \subseteq C /\ A \cup B \subseteq C
        OBVIOUS
    <2> HIDE DEF A, B, X
    <2> QED
        BY <1>1, <2>1, FS_Subset
<1>3. /\ Cardinality(A) \in Nat /\ Cardinality(B) \in Nat /\ Cardinality(X) \in Nat
      /\ Cardinality(A \cap B) \in Nat /\ Cardinality(A \cup B) \in Nat
    <2> HIDE DEF A, B, X
    <2> QED
        BY <1>2, FS_CardinalityType
<1>4. Cardinality(A \cup B) = Cardinality(A) + Cardinality(B) - Cardinality(A \cap B)
    <2> HIDE DEF A, B
    <2> QED
        BY <1>2, FS_Union
<1>5. Cardinality(A \cup B) =< Cardinality(C)
    <2>1. A \cup B \subseteq C
        OBVIOUS
    <2> HIDE DEF A, B
    <2> QED
        BY <1>1, <2>1, FS_Subset
<1>6. 3 * Cardinality(A) > 2 * Cardinality(C) /\ 3 * Cardinality(B) > 2 * Cardinality(C)
    BY DEF IsComplete
<1>7. 3 * Cardinality(X) < Cardinality(C)
    BY FaultAssumption DEF Committees
<1>8. ~(Cardinality(A \cap B) =< Cardinality(X))
    <2> HIDE DEF A, B, X
    <2> QED
        BY <1>1, <1>3, <1>4, <1>5, <1>6, <1>7
<1>9. ~(A \cap B \subseteq X)
    <2> HIDE DEF A, B, X
    <2> QED
        BY <1>2, <1>8, FS_Subset
<1>10. PICK h \in A \cap B : h \notin X
    BY <1>9
<1> QED
    BY <1>10 DEF Signers

\* A block that two thirds of its session's committee have signed.
Certified(b) ==
    b = Genesis \/ IsComplete(Signers(b), CommitteeOn(b, SessionOf(Number[b])))

\* The finalised block, and the last block of each session before it, are certified.
CertInv ==
    \A n \in Honest :
        /\ Certified(finalized[n])
        /\ \A s \in Nat : LastBlockOf(s) =< Number[finalized[n]] =>
              Certified(AncestorAt(finalized[n], LastBlockOf(s)))

\* Signatures are never taken back.
LEMMA SignaturesGrow == TypeOK /\ [Next]_vars => signed \subseteq signed'
<1> SUFFICES ASSUME TypeOK, [Next]_vars
             PROVE  signed \subseteq signed'
    OBVIOUS
<1>1. ASSUME NEW n \in Honest, NEW s \in Sessions, NEW d \in Data[s], OrderedDatum(n, s, d)
      PROVE  signed \subseteq signed'
    BY <1>1, OrderedDatumEffect
<1>2. CASE UNCHANGED vars
    BY <1>2 DEF vars
<1> QED
    BY <1>1, <1>2 DEF Next, ImportBlock, HandleJustification, EnterSession, SkipSessionOnError,
                      EarlySkip, StartSession, EndSession, StartAggregator, ExitAggregator, Crash

\* The last block of the session before that of b is not higher than b.
LEMMA SessionBefore ==
    \A b \in Blocks : /\ SessionOf(Number[b]) \in Nat
                      /\ \/ SessionOf(Number[b]) = 0
                         \/ LastBlockOf(SessionOf(Number[b]) - 1) =< Number[b]
<1> SUFFICES ASSUME NEW b \in Blocks, SessionOf(Number[b]) # 0
             PROVE  LastBlockOf(SessionOf(Number[b]) - 1) =< Number[b]
    BY Numbers
<1> DEFINE t == SessionOf(Number[b]) - 1
<1>1. t \in Nat /\ t < SessionOf(Number[b]) /\ Number[b] \in Nat
    BY Numbers
<1>2. LastBlockOf(t) \in Nat /\ LastBlockOf(t) < Number[b]
    BY <1>1, LaterSession, LastBlockMonotone
<1> QED
    BY <1>1, <1>2

LEMMA CertifiedStays ==
    ASSUME signed \subseteq signed', NEW b \in Blocks, Certified(b)
    PROVE  Certified(b)'
<1> DEFINE C == CommitteeOn(b, SessionOf(Number[b]))
           A == Signers(b) \cap C
           B == Signers(b)' \cap C
<1>1. CASE b = Genesis
    BY <1>1 DEF Certified
<1>2. CASE IsComplete(Signers(b), C)
    <2>1. C \in Committees
        BY SessionBefore, CommitteeOnType
    <2>2. IsFiniteSet(C) /\ Cardinality(C) \in Nat
        BY <2>1, CommitteesAreFinite
    <2>3. A \subseteq B /\ B \subseteq C
        BY DEF Signers
    <2>4. 3 * Cardinality(A) > 2 * Cardinality(C)
        BY <1>2 DEF IsComplete
    <2>5. 3 * Cardinality(B) > 2 * Cardinality(C)
        <3> HIDE DEF A, B, C
        <3>1. IsFiniteSet(B)
            BY <2>2, <2>3, FS_Subset
        <3>2. Cardinality(A) =< Cardinality(B) /\ IsFiniteSet(A)
            BY <2>3, <3>1, FS_Subset
        <3>3. Cardinality(A) \in Nat /\ Cardinality(B) \in Nat
            BY <3>1, <3>2, FS_CardinalityType
        <3> QED
            BY <2>2, <2>4, <3>2, <3>3
    <2>6. C' = C
        BY DEF CommitteeOn
    <2> QED
        BY <2>5, <2>6 DEF Certified, IsComplete
<1> QED
    BY <1>1, <1>2 DEF Certified

LEMMA InitCertInv == Init => CertInv
<1> SUFFICES ASSUME Init, NEW n \in Honest, NEW s \in Nat
             PROVE  /\ Certified(finalized[n])
                    /\ LastBlockOf(s) =< Number[finalized[n]] =>
                          Certified(AncestorAt(finalized[n], LastBlockOf(s)))
    BY DEF CertInv
<1>1. finalized[n] = Genesis /\ Genesis \in Blocks /\ Number[Genesis] = 0
    BY GenesisAssumption DEF Init
<1>2. LastBlockOf(s) =< 0 => AncestorAt(Genesis, LastBlockOf(s)) = Genesis
    <2>1. LastBlockOf(s) =< 0 => LastBlockOf(s) = Number[Genesis]
        BY <1>1, LastBlockMonotone
    <2> QED
        BY <1>1, <2>1, AncestorsType, AncestorAtNumber
<1> QED
    BY <1>1, <1>2 DEF Certified

\* The last block of a session is finalised in its own right: the handler
\* accepts no block beyond it.
LEMMA HandleJustificationCert ==
    ASSUME TypeOK, KeyInv, CertInv, signed \subseteq signed',
           NEW n \in Honest, NEW b \in Blocks, HandleJustification(n, b)
    PROVE  CertInv' /\ Certified(b) /\ Certified(b)'
<1> DEFINE f == finalized[n]
           c == CurrentSession(n)
<1>1. /\ finalized' = [finalized EXCEPT ![n] = b] /\ UNCHANGED signed
      /\ f \in Ancestors[b] /\ Number[b] =< LastBlockOf(c)
    BY DEF HandleJustification
<1>2. Certified(b)
    BY HandleJustificationKeys DEF HandleJustification, Certified
<1>3. Certified(b)'
    BY <1>2, CertifiedStays
<1>4. ASSUME NEW s \in Nat, LastBlockOf(s) =< Number[b]
      PROVE  Certified(AncestorAt(b, LastBlockOf(s)))
    <2>1. /\ f \in Blocks /\ Number[f] \in Nat /\ c \in Nat /\ LastBlockOf(s) \in Nat
          /\ LastBlockOf(c) \in Nat /\ Number[b] \in Nat
        BY CurrentSessionBounds, LastBlockMonotone, Constants
    <2>2. CASE LastBlockOf(s) =< Number[f]
        <3>1. AncestorAt(f, LastBlockOf(s)) = AncestorAt(b, LastBlockOf(s))
            BY <1>1, <2>1, <2>2, AncestorAtBelow
        <3> QED
            BY <2>2, <3>1 DEF CertInv
    <2>3. CASE LastBlockOf(s) > Number[f]
        <3>1. c =< s
            BY <2>3, CurrentSessionBounds
        <3>2. LastBlockOf(c) =< LastBlockOf(s)
            BY <2>1, <3>1, LastBlockMonotone
        <3>3. LastBlockOf(s) = Number[b]
            BY <1>1, <1>4, <2>1, <3>2
        <3>4. AncestorAt(b, LastBlockOf(s)) = b
            BY <3>3, AncestorsType, AncestorAtNumber
        <3> QED
            BY <1>2, <3>4
    <2> QED
        BY <2>1, <2>2, <2>3
<1>5. ASSUME NEW m \in Honest, NEW s \in Nat
      PROVE  /\ Certified(finalized[m])'
             /\ LastBlockOf(s) =< Number[finalized'[m]] =>
                   Certified(AncestorAt(finalized[m], LastBlockOf(s)))'
    <2> DEFINE g == finalized'[m]
               z == AncestorAt(g, LastBlockOf(s))
    <2>1. /\ g \in Blocks /\ Certified(g)
          /\ LastBlockOf(s) =< Number[g] => Certified(z)
        <3>1. CASE m = n
            BY <1>1, <1>2, <1>4, <3>1 DEF TypeOK
        <3>2. CASE m # n
            BY <1>1, <3>2 DEF TypeOK, CertInv
        <3> QED
            BY <3>1, <3>2
    <2>2. ASSUME NEW x, Certified(x)
          PROVE  x = Genesis \/ IsComplete(Signers(x)', CommitteeOn(x, SessionOf(Number[x])))
        BY <1>1, <2>2 DEF Certified, Signers
    <2>3. Certified(finalized[m])'
        BY <2>1, <2>2 DEF Certified, Signers
    <2>4. LastBlockOf(s) =< Number[g] => Certified(AncestorAt(finalized[m], LastBlockOf(s)))'
        BY <2>1, <2>2 DEF Certified, Signers
    <2> QED
        BY <2>3, <2>4
<1> QED
    BY <1>2, <1>3, <1>5 DEF CertInv

LEMMA NextCertInv == TypeOK /\ KeyInv /\ CertInv /\ [Next]_vars => CertInv'
<1> SUFFICES ASSUME TypeOK, KeyInv, CertInv, [Next]_vars
             PROVE  CertInv'
    OBVIOUS
<1>1. signed \subseteq signed'
    BY SignaturesGrow
<1>2. CASE UNCHANGED finalized
    <2> SUFFICES ASSUME NEW n \in Honest, NEW s \in Nat
                 PROVE  /\ Certified(finalized[n])'
                        /\ LastBlockOf(s) =< Number[finalized[n]] =>
                              Certified(AncestorAt(finalized[n], LastBlockOf(s)))'
        BY <1>2 DEF CertInv
    <2>1. finalized[n] \in Blocks /\ Number[finalized[n]] \in Nat /\ LastBlockOf(s) \in Nat
        BY Constants, LastBlockMonotone DEF TypeOK
    <2>2. Certified(finalized[n])'
        <3>1. Certified(finalized[n])
            BY DEF CertInv
        <3> QED
            BY <1>1, <1>2, <2>1, <3>1, CertifiedStays DEF Certified, Signers
    <2>3. ASSUME LastBlockOf(s) =< Number[finalized[n]]
          PROVE  Certified(AncestorAt(finalized[n], LastBlockOf(s)))'
        <3> DEFINE a == AncestorAt(finalized[n], LastBlockOf(s))
        <3>1. a \in Blocks
            BY <2>1, <2>3, AncestorAtIsOnChain
        <3>2. Certified(a)
            BY <2>3 DEF CertInv
        <3>3. a' = a
            BY <1>2
        <3> QED
            BY <1>1, <3>1, <3>2, <3>3, CertifiedStays DEF Certified, Signers
    <2> QED
        BY <2>2, <2>3
<1>3. ASSUME NEW n \in Honest, NEW b \in Blocks, HandleJustification(n, b)
      PROVE  CertInv'
    BY <1>1, <1>3, HandleJustificationCert
<1> QED
    BY <1>2, <1>3, OnlyHandlerFinalizes

\* A certified block above f, on a chain with f and in the session of the next
\* block after f, is on one chain with the block a handler finalises after f.
LEMMA HandlersAgree ==
    ASSUME TypeOK, KeyInv, CertInv, NoDoubleSigning, FinalityAgreement,
           NEW n \in Honest, NEW m \in Honest, NEW b \in Blocks, HandleJustification(n, b)
    PROVE  Comparable(finalized[m], b)
<1> DEFINE f == finalized[n]
           g == finalized[m]
           c == CurrentSession(n)
<1>1. /\ f \in Ancestors[b] /\ Number[b] > Number[f] /\ Number[b] =< LastBlockOf(c)
      /\ IsComplete(Signers(b), known[n][c])
    BY DEF HandleJustification
<1>2. known[n][c] = CommitteeOn(b, c) /\ SessionOf(Number[b]) = c
    BY HandleJustificationKeys
<1>3. /\ f \in Blocks /\ Number[f] \in Nat /\ g \in Blocks /\ Number[g] \in Nat
      /\ c \in Nat /\ LastBlockOf(c) \in Nat /\ Number[b] \in Nat
    BY CurrentSessionBounds, LastBlockMonotone, Constants
<1>4. CASE g \in Ancestors[f]
    BY <1>1, <1>4, AncestorsTransitive DEF Comparable
<1>5. CASE f \in Ancestors[g] /\ f # g
    <2>1. Number[f] < Number[g]
        BY <1>3, <1>5, ChainAssumption
    <2>2. c = 0 \/ LastBlockOf(c - 1) =< Number[f]
        <3>1. c # 0 => c - 1 \in Nat /\ c > c - 1
            BY <1>3
        <3> QED
            BY <3>1, CurrentSessionBounds
    <2>3. PICK y \in Ancestors[g] :
              /\ Certified(y) /\ Number[f] < Number[y] /\ Number[y] =< LastBlockOf(c)
              /\ y = g \/ Number[y] = LastBlockOf(c)
        <3>1. CASE Number[g] =< LastBlockOf(c)
            BY <1>3, <2>1, <3>1, AncestorsType DEF CertInv
        <3>2. CASE LastBlockOf(c) < Number[g]
            <4> DEFINE z == AncestorAt(g, LastBlockOf(c))
            <4>1. z \in Ancestors[g] /\ Number[z] = LastBlockOf(c)
                BY <1>3, <3>2, AncestorAtIsOnChain
            <4>2. Certified(z)
                BY <1>3, <3>2 DEF CertInv
            <4>3. Number[f] < LastBlockOf(c)
                BY <1>3, CurrentSessionBounds
            <4> QED
                BY <1>3, <4>1, <4>2, <4>3
        <3> QED
            BY <1>3, <3>1, <3>2
    <2>4. y \in Blocks /\ Number[y] \in Nat /\ f \in Ancestors[y] /\ y # Genesis
        <3>1. y \in Blocks /\ Number[y] \in Nat
            BY <1>3, <2>3, AncestorsType, Constants
        <3>2. f \in Ancestors[y]
            BY <1>3, <1>5, <2>3, <3>1, OnOneChain
        <3> QED
            BY <1>3, <2>3, <3>1, <3>2, GenesisAssumption
    <2>5. SessionOf(Number[y]) = c
        <3>1. SessionOf(Number[y]) =< c /\ SessionOf(Number[y]) \in Nat
            BY <1>3, <2>3, <2>4, SessionOrder, SessionBounds
        <3>2. Number[f] < LastBlockOf(SessionOf(Number[y]))
            BY <1>3, <2>3, <2>4, Numbers
        <3>3. c =< SessionOf(Number[y])
            BY <3>1, <3>2, CurrentSessionBounds
        <3> QED
            BY <1>3, <3>1, <3>3
    <2>6. CommitteeOn(y, c) = CommitteeOn(b, c)
        BY <1>1, <1>3, <2>2, <2>4, CommitteeOnExtension
    <2>7. CommitteeOn(b, c) \in Committees
        BY <1>2, SessionBefore, CommitteeOnType
    <2>8. PICK h \in Honest : <<h, b>> \in signed /\ <<h, y>> \in signed
        BY <1>1, <1>2, <2>3, <2>4, <2>5, <2>6, <2>7, QuorumsIntersect DEF Certified
    <2>9. Comparable(b, y)
        BY <1>2, <2>5, <2>8 DEF NoDoubleSigning
    <2>10. CASE b \in Ancestors[y]
        BY <1>3, <2>3, <2>10, AncestorsTransitive DEF Comparable
    <2>11. CASE y \in Ancestors[b] /\ y = g
        BY <2>11 DEF Comparable
    <2>12. CASE y \in Ancestors[b] /\ Number[y] = LastBlockOf(c)
        <3>1. Number[y] = Number[b]
            BY <1>1, <1>3, <2>12, <2>4, ChainAssumption
        <3>2. y = b
            BY <2>12, <3>1, ChainAssumption
        <3> QED
            BY <2>3, <3>2 DEF Comparable
    <2> QED
        BY <2>3, <2>9, <2>10, <2>11, <2>12 DEF Comparable
<1>6. Comparable(f, g)
    BY DEF FinalityAgreement
<1> QED
    BY <1>3, <1>4, <1>5, <1>6, AncestorsType DEF Comparable

----------------------------------------------------------------------------
(* The walk of a session *)

\* The height of the block that session s is built on.
Base(s) == IF s = 0 THEN 0 ELSE LastBlockOf(s - 1)

\* The block of the chain of b at which session s ends, or b before that.
Capped(b, s) == IF Number[b] =< LastBlockOf(s) THEN b ELSE AncestorAt(b, LastBlockOf(s))

\* Where datum d takes an aggregator of session s, with tip t, that has
\* imported every block.
IdealStep(s, t, d) ==
    IF Number[d.hash] = d.number /\ t \in Ancestors[d.hash] THEN Capped(d.hash, s) ELSE t

\* The tips of such an aggregator on the data o, from a block on which s is built.
Walks(s, o) ==
    {w \in [0..Len(o) -> Blocks] :
        /\ Number[w[0]] = Base(s)
        /\ \A k \in 1..Len(o) : w[k] = IdealStep(s, w[k - 1], o[k])
        /\ \A k \in 0..Len(o) : Number[w[k]] =< LastBlockOf(s)
        /\ \A j, k \in 0..Len(o) : j =< k => w[j] \in Ancestors[w[k]]}

\* n has the blocks that the first k steps of the walk led to.
Has(n, o, w, k) == \A j \in 1..k : w[j] # w[j - 1] => o[j].hash \in imported[n]

\* What n finalises in session s, and before the walk begins, is on the walk.
FinalOnWalk(n, s, o, w) ==
    Base(s) =< Number[finalized[n]] =>
        /\ w[0] \in Ancestors[finalized[n]]
        /\ Capped(finalized[n], s) \in Ancestors[w[Len(o)]]

\* What n has signed in session s is on the part of the walk whose blocks it has.
InStep(n, s, o, w) ==
    \A b \in Blocks : <<n, b>> \in signed /\ SessionOf(Number[b]) = s =>
        \E k \in 0..Len(o) : b \in Ancestors[w[k]] /\ Has(n, o, w, k)

\* The aggregator of session s is on the walk, or ahead of it as far as the
\* finalised block.
OnWalk(n, s, o, w) ==
    LET a == agg[n][s] IN
    /\ a.pos =< Len(o)
    /\ w[a.pos] \in Ancestors[a.tip] /\ a.tip \in Ancestors[w[Len(o)]]
    /\ a.tip = w[a.pos] \/ a.tip \in Ancestors[finalized[n]]
    /\ Has(n, o, w, a.pos)

\* n has finalised beyond session s, and its aggregator builds on what n has
\* signed in s, on the walk or not.
Late(n, s) ==
    /\ Number[finalized[n]] > LastBlockOf(s)
    /\ \A b \in Blocks : <<n, b>> \in signed /\ SessionOf(Number[b]) = s =>
          b \in Ancestors[agg[n][s].tip]

Follows(n, s, o, w) ==
    /\ FinalOnWalk(n, s, o, w)
    /\ Number[finalized[n]] =< LastBlockOf(s) \/ agg[n][s].st = "spawned" => InStep(n, s, o, w)
    /\ agg[n][s].st = "running" =>
          \/ LastBlockOf(s) =< Number[agg[n][s].tip]
          \/ OnWalk(n, s, o, w) /\ InStep(n, s, o, w)
          \/ Late(n, s)

\* Some node has finalised what session s is built on.
Settled(s) == \E n \in Honest : Base(s) =< Number[finalized[n]]

\* Without failing calls a node takes part in a session when it has finalised
\* what the session is built on.
Entered(n) ==
    /\ \A s \in Sessions :
          /\ agg[n][s].st # "none" => Base(s) =< Number[finalized[n]]
          /\ agg[n][s].st = "spawned" => agg[n][s].pos = 0 /\ ~agg[n][s].lastSeen
          /\ agg[n][s].st = "running" =>
                /\ Base(s) =< Number[agg[n][s].tip]
                /\ agg[n][s].lastSeen => LastBlockOf(s) =< Number[agg[n][s].tip]
    /\ \A b \in Blocks : <<n, b>> \in signed =>
          /\ SessionOf(Number[b]) \in Sessions
          /\ Base(SessionOf(Number[b])) =< Number[finalized[n]]

EnteredInv == \A n \in Honest : Entered(n)

OrderedInv == \A s \in Sessions : order[s] # <<>> => Settled(s)

WalkInv ==
    \A s \in Sessions, o \in Seq(Datum) : order[s] = o /\ Settled(s) =>
        \E w \in Walks(s, o) : \A n \in Honest : Follows(n, s, o, w)

\* No aggregator is ahead of AlephBFT.
PositionInv ==
    \A n \in Honest, s \in Sessions :
        agg[n][s].st = "running" => agg[n][s].pos =< Len(order[s])

\* The chain of every imported block is imported.
ImportedChains == \A n \in Honest : \A b \in imported[n] : Ancestors[b] \subseteq imported[n]

LEMMA BaseBounds ==
    \A s \in Sessions :
        /\ s \in Nat /\ Base(s) \in Nat /\ LastBlockOf(s) \in Nat /\ Base(s) =< LastBlockOf(s)
        /\ \A b \in Blocks : Base(s) < Number[b] /\ Number[b] =< LastBlockOf(s) =>
              SessionOf(Number[b]) = s
        /\ \A b \in Blocks : SessionOf(Number[b]) = s => Number[b] =< LastBlockOf(s)
<1> SUFFICES ASSUME NEW s \in Sessions
             PROVE  /\ s \in Nat /\ Base(s) \in Nat /\ LastBlockOf(s) \in Nat
                    /\ Base(s) =< LastBlockOf(s)
                    /\ \A b \in Blocks : Base(s) < Number[b] /\ Number[b] =< LastBlockOf(s) =>
                          SessionOf(Number[b]) = s
                    /\ \A b \in Blocks : SessionOf(Number[b]) = s => Number[b] =< LastBlockOf(s)
    OBVIOUS
<1>1. s \in Nat /\ LastBlockOf(s) \in Nat
    BY Numbers
<1>2. s # 0 => s - 1 \in Nat /\ s - 1 < s
    BY <1>1
<1>3. Base(s) \in Nat /\ Base(s) =< LastBlockOf(s)
    <2>1. s # 0 => LastBlockOf(s - 1) \in Nat /\ LastBlockOf(s - 1) < LastBlockOf(s)
        BY <1>1, <1>2, LastBlockMonotone
    <2> QED
        BY <1>1, <2>1 DEF Base
<1>4. ASSUME NEW b \in Blocks, Base(s) < Number[b], Number[b] =< LastBlockOf(s)
      PROVE  SessionOf(Number[b]) = s
    <2>1. Number[b] \in Nat /\ SessionOf(Number[b]) \in Nat /\ SessionOf(Number[b]) =< s
        BY <1>1, <1>4, Numbers, SessionOrder
    <2>2. s # 0 => s - 1 < SessionOf(Number[b])
        BY <1>2, <1>4, LaterSession DEF Base
    <2> QED
        BY <1>1, <2>1, <2>2
<1>5. ASSUME NEW b \in Blocks, SessionOf(Number[b]) = s
      PROVE  Number[b] =< LastBlockOf(s)
    BY <1>5, Numbers
<1> QED
    BY <1>1, <1>3, <1>4, <1>5

LEMMA CappedFacts ==
    ASSUME NEW b \in Blocks, NEW s \in Sessions
    PROVE  /\ Capped(b, s) \in Blocks /\ Capped(b, s) \in Ancestors[b]
           /\ Number[Capped(b, s)] =< LastBlockOf(s)
           /\ Number[b] =< LastBlockOf(s) => Capped(b, s) = b
           /\ Number[b] >= LastBlockOf(s) => Number[Capped(b, s)] = LastBlockOf(s)
           /\ \A a \in Ancestors[b] : Number[a] =< LastBlockOf(s) => a \in Ancestors[Capped(b, s)]
<1>1. Number[b] \in Nat /\ LastBlockOf(s) \in Nat
    BY Numbers
<1>2. CASE Number[b] =< LastBlockOf(s)
    BY <1>1, <1>2, AncestorsType DEF Capped
<1>3. CASE Number[b] > LastBlockOf(s)
    <2>1. Capped(b, s) = AncestorAt(b, LastBlockOf(s))
        BY <1>1, <1>3 DEF Capped
    <2>2. /\ Capped(b, s) \in Blocks /\ Capped(b, s) \in Ancestors[b]
          /\ Number[Capped(b, s)] = LastBlockOf(s)
        BY <1>1, <1>3, <2>1, AncestorAtIsOnChain
    <2>3. \A a \in Ancestors[b] : Number[a] =< LastBlockOf(s) => a \in Ancestors[Capped(b, s)]
        BY <2>2, OnOneChain
    <2> QED
        BY <1>1, <1>3, <2>2, <2>3
<1> QED
    BY <1>1, <1>2, <1>3

\* One more datum.
Longer(w, s, o, d) ==
    [k \in 0..(Len(o) + 1) |-> IF k =< Len(o) THEN w[k] ELSE IdealStep(s, w[Len(o)], d)]

LEMMA WalkIsLonger ==
    ASSUME NEW s \in Sessions, NEW o \in Seq(Datum), NEW d \in Datum, NEW w \in Walks(s, o)
    PROVE  /\ Longer(w, s, o, d) \in Walks(s, Append(o, d))
           /\ \A k \in 0..Len(o) : Longer(w, s, o, d)[k] = w[k]
<1> DEFINE v == Longer(w, s, o, d)
           p == Append(o, d)
           K == Len(o)
           t == IdealStep(s, w[K], d)
<1>1. /\ K \in Nat /\ Len(p) = K + 1 /\ p[K + 1] = d
      /\ \A k \in 1..K : p[k] = o[k]
    OBVIOUS
<1>2. /\ w \in [0..K -> Blocks] /\ Number[w[0]] = Base(s)
      /\ \A k \in 1..K : w[k] = IdealStep(s, w[k - 1], o[k])
      /\ \A k \in 0..K : Number[w[k]] =< LastBlockOf(s)
      /\ \A j, k \in 0..K : j =< k => w[j] \in Ancestors[w[k]]
    BY DEF Walks
<1>3. w[K] \in Blocks /\ Number[w[K]] =< LastBlockOf(s) /\ d.hash \in Blocks
    BY <1>1, <1>2 DEF Datum
<1>4. t \in Blocks /\ Number[t] =< LastBlockOf(s) /\ w[K] \in Ancestors[t]
    <2>1. CASE Number[d.hash] = d.number /\ w[K] \in Ancestors[d.hash]
        BY <1>3, <2>1, CappedFacts DEF IdealStep
    <2>2. CASE ~(Number[d.hash] = d.number /\ w[K] \in Ancestors[d.hash])
        BY <1>3, <2>2, AncestorsType DEF IdealStep
    <2> QED
        BY <2>1, <2>2
<1>5. v = [k \in 0..(K + 1) |-> IF k =< K THEN w[k] ELSE t]
    BY DEF Longer
<1> HIDE DEF v, t
<1>6. /\ \A k \in 0..K : v[k] = w[k]
      /\ v[K + 1] = t
      /\ v \in [0..(K + 1) -> Blocks]
    BY <1>1, <1>2, <1>4, <1>5
<1>7. ASSUME NEW k \in 1..(K + 1)
      PROVE  v[k] = IdealStep(s, v[k - 1], p[k])
    <2>1. CASE k \in 1..K
        BY <1>1, <1>2, <1>6, <2>1
    <2>2. CASE k = K + 1
        <3>1. k - 1 = K /\ v[k - 1] = w[K] /\ p[k] = d /\ v[k] = t
            BY <1>1, <1>6, <2>2
        <3> QED
            BY <3>1 DEF t
    <2> QED
        BY <1>1, <2>1, <2>2
<1>8. \A k \in 0..(K + 1) : Number[v[k]] =< LastBlockOf(s)
    BY <1>1, <1>2, <1>4, <1>6
<1>9. ASSUME NEW j \in 0..(K + 1), NEW k \in 0..(K + 1), j =< k
      PROVE  v[j] \in Ancestors[v[k]]
    <2>1. CASE k \in 0..K
        BY <1>1, <1>2, <1>6, <1>9, <2>1
    <2>2. CASE k = K + 1 /\ j \in 0..K
        <3>1. v[j] \in Ancestors[w[K]]
            BY <1>1, <1>2, <1>6, <2>2
        <3> QED
            BY <1>4, <1>6, <2>2, <3>1, AncestorsTransitive
    <2>3. CASE k = K + 1 /\ j = K + 1
        BY <1>4, <1>6, <2>3, AncestorsType
    <2> QED
        BY <1>1, <2>1, <2>2, <2>3
<1>10. Number[v[0]] = Base(s)
    BY <1>1, <1>2, <1>6
<1> QED
    BY <1>1, <1>6, <1>7, <1>8, <1>9, <1>10 DEF Walks, v

\* Whoever followed the walk follows the longer one.
LEMMA FollowsLonger ==
    ASSUME TypeOK, NEW n \in Honest, NEW s \in Sessions, NEW o \in Seq(Datum), NEW d \in Datum,
           NEW w \in Walks(s, o), Follows(n, s, o, w)
    PROVE  Follows(n, s, Append(o, d), Longer(w, s, o, d))
<1> DEFINE v == Longer(w, s, o, d)
           p == Append(o, d)
           K == Len(o)
<1>1. /\ K \in Nat /\ Len(p) = K + 1
      /\ \A k \in 1..K : p[k] = o[k]
    OBVIOUS
<1>2. v \in Walks(s, p) /\ \A k \in 0..K : v[k] = w[k]
    BY WalkIsLonger
<1> HIDE DEF v, p
<1>3. v[K + 1] \in Blocks /\ w[K] \in Ancestors[v[K + 1]]
    BY <1>1, <1>2 DEF Walks
<1>4. \A b \in Ancestors[w[K]] : b \in Ancestors[v[K + 1]]
    BY <1>3, AncestorsTransitive
<1>5. \A k \in 0..K : Has(n, o, w, k) => Has(n, p, v, k)
    BY <1>1, <1>2 DEF Has
<1>6. FinalOnWalk(n, s, p, v)
    BY <1>1, <1>2, <1>4 DEF Follows, FinalOnWalk
<1>7. InStep(n, s, o, w) => InStep(n, s, p, v)
    <2> SUFFICES ASSUME NEW b \in Blocks, NEW k \in 0..K, b \in Ancestors[w[k]], Has(n, o, w, k)
                 PROVE  \E l \in 0..(K + 1) : b \in Ancestors[v[l]] /\ Has(n, p, v, l)
        BY <1>1 DEF InStep
    <2>1. k \in 0..(K + 1) /\ b \in Ancestors[v[k]] /\ Has(n, p, v, k)
        BY <1>1, <1>2, <1>5
    <2> QED
        BY <2>1
<1>8. OnWalk(n, s, o, w) => OnWalk(n, s, p, v)
    <2>1. agg[n][s].pos \in Nat
        BY DEF TypeOK, Aggregator
    <2> SUFFICES ASSUME OnWalk(n, s, o, w)
                 PROVE  OnWalk(n, s, p, v)
        OBVIOUS
    <2>2. agg[n][s].pos \in 0..K
        BY <1>1, <2>1 DEF OnWalk
    <2> QED
        BY <1>1, <1>2, <1>4, <1>5, <2>2 DEF OnWalk
<1>9. Follows(n, s, p, v)
    BY <1>6, <1>7, <1>8 DEF Follows
<1> QED
    BY <1>9 DEF v, p

\* What an ordered datum does, exactly: where the tip goes, if it moves, and
\* that all blocks on the way there are signed.
LEMMA OrderedDatumMoves ==
    ASSUME TypeOK, ImportedChains, NEW n \in Honest, Entered(n), NEW s \in Sessions,
           NEW d \in Data[s], OrderedDatum(n, s, d)
    PROVE  \E t \in Blocks, l \in BOOLEAN :
              LET old == agg[n][s]
                  leads == /\ d.hash \in imported[n] /\ Number[d.hash] = d.number
                           /\ old.tip \in Ancestors[d.hash]
                  passed == {b \in Ancestors[t] : Number[b] > Number[old.tip]}
              IN /\ old.st = "running"
                 /\ agg' = [agg EXCEPT ![n][s] =
                              [old EXCEPT !.tip = t, !.pos = old.pos + 1, !.lastSeen = l]]
                 /\ signed' = signed \cup {<<n, b>> : b \in passed}
                 /\ t = IF leads /\ Number[old.tip] < LastBlockOf(s)
                        THEN Capped(d.hash, s) ELSE old.tip
                 /\ l => LastBlockOf(s) =< Number[t]
<1> DEFINE old == agg[n][s]
           L == LastBlockOf(s)
           leads == d.hash \in imported[n] /\ Number[d.hash] = d.number /\ old.tip \in Ancestors[d.hash]
           extension == IF old.lastSeen THEN {} ELSE ChainExtension(imported[n], old.tip, d)
           adopted == {b \in extension : Number[b] =< L}
           highest == {b \in adopted : \A c \in adopted : Number[c] =< Number[b]}
           seen == old.lastSeen \/ \E b \in extension : Number[b] >= L
           passed(t) == {b \in Ancestors[t] : Number[b] > Number[old.tip]}
           target == IF leads /\ Number[old.tip] < L THEN Capped(d.hash, s) ELSE old.tip
<1>1. /\ old \in Aggregator /\ d.hash \in Blocks /\ old.tip \in Blocks /\ old.lastSeen \in BOOLEAN
      /\ Number[old.tip] \in Nat /\ Number[d.hash] \in Nat /\ L \in Nat
    <2>1. d \in Datum /\ old \in Aggregator
        BY Constants DEF TypeOK
    <2>2. d.hash \in Blocks /\ old.tip \in Blocks /\ old.lastSeen \in BOOLEAN
        BY <2>1 DEF Datum, Aggregator
    <2> QED
        BY <2>1, <2>2, Numbers
<1>2. PICK t \in IF adopted = {} THEN {old.tip} ELSE highest :
          agg' = [agg EXCEPT ![n][s] =
                    [old EXCEPT !.tip = t, !.pos = old.pos + 1, !.lastSeen = seen]]
    <2>1. PICK t \in IF adopted = {} THEN {old.tip} ELSE highest :
              agg' = [agg EXCEPT ![n][s] =
                        [@ EXCEPT !.tip = t, !.pos = old.pos + 1, !.lastSeen = seen]]
        BY Zenon DEF OrderedDatum
    <2> HIDE DEF seen, adopted, highest
    <2>2. agg' = [agg EXCEPT ![n][s] =
                    [old EXCEPT !.tip = t, !.pos = old.pos + 1, !.lastSeen = seen]]
        BY <2>1 DEF TypeOK
    <2> QED
        BY <2>1, <2>2
<1>3. old.st = "running" /\ signed' = signed \cup {<<n, b>> : b \in adopted}
    BY DEF OrderedDatum
<1>4. old.lastSeen => L =< Number[old.tip]
    BY <1>3 DEF Entered
<1>5. leads => old.tip \in imported[n]
    BY DEF ImportedChains
<1>6. extension = IF leads /\ ~old.lastSeen
                  THEN {b \in Ancestors[d.hash] : Number[b] > Number[old.tip]} ELSE {}
    BY <1>5 DEF ChainExtension
<1> HIDE DEF extension
<1>7. t = target /\ adopted = passed(t) /\ (seen => L =< Number[t])
    <2>1. CASE leads /\ Number[old.tip] < L
        <3> DEFINE c == Capped(d.hash, s)
        <3>1. ~old.lastSeen
            BY <1>1, <1>4, <2>1
        <3>2. extension = {b \in Ancestors[d.hash] : Number[b] > Number[old.tip]}
            BY <1>6, <2>1, <3>1
        <3>3. /\ c \in Blocks /\ c \in Ancestors[d.hash] /\ Number[c] =< L /\ Number[c] \in Nat
              /\ Number[d.hash] >= L => Number[c] = L
              /\ Number[d.hash] =< L => c = d.hash
              /\ \A a \in Ancestors[d.hash] : Number[a] =< L => a \in Ancestors[c]
            BY <1>1, CappedFacts, Numbers
        <3> HIDE DEF c
        <3>4. /\ old.tip \in Ancestors[c] /\ Number[old.tip] =< Number[c]
              /\ \A a \in Ancestors[c] : a \in Ancestors[d.hash] /\ Number[a] =< Number[c]
              /\ \A a \in Ancestors[c] : a \in Blocks /\ Number[a] \in Nat
            BY <1>1, <2>1, <3>3, ChainAssumption, Numbers
        <3>5. adopted = passed(c)
            BY <1>1, <3>2, <3>3, <3>4
        <3>6. t = c
            <4>1. CASE adopted = {}
                <5>1. ~(Number[c] > Number[old.tip])
                    BY <3>3, <3>5, <4>1, AncestorsType
                <5>2. c = old.tip
                    BY <1>1, <2>1, <3>3, <3>4, <5>1, ChainAssumption
                <5> QED
                    BY <1>2, <4>1, <5>2
            <4>2. CASE adopted # {}
                <5>1. t \in adopted /\ \A a \in adopted : Number[a] =< Number[t]
                    BY <1>2, <4>2
                <5>2. t \in Ancestors[c] /\ Number[t] > Number[old.tip]
                    BY <3>5, <5>1
                <5>3. Number[t] =< Number[c] /\ Number[t] \in Nat
                    BY <3>4, <5>2
                <5>4. c \in adopted
                    BY <1>1, <3>3, <3>5, <5>2, <5>3, AncestorsType
                <5>5. Number[t] = Number[c]
                    BY <3>3, <5>1, <5>3, <5>4
                <5> QED
                    BY <3>3, <5>2, <5>5, ChainAssumption
            <4> QED
                BY <4>1, <4>2
        <3>7. seen => L =< Number[t]
            <4> SUFFICES ASSUME NEW b \in Ancestors[d.hash], Number[b] >= L
                         PROVE  L =< Number[t]
                BY <3>1, <3>2
            <4>1. Number[d.hash] >= L
                BY <1>1, ChainAssumption, Numbers
            <4> QED
                BY <1>1, <3>3, <3>6, <4>1
        <3>8. target = c
            BY <2>1 DEF c
        <3> QED
            BY <3>5, <3>6, <3>7, <3>8
    <2>2. CASE ~(leads /\ Number[old.tip] < L)
        <3>1. target = old.tip
            BY <2>2
        <3>2. adopted = {}
            <4> SUFFICES ASSUME NEW b \in extension, Number[b] =< L
                         PROVE  FALSE
                OBVIOUS
            <4>1. leads /\ b \in Ancestors[d.hash] /\ Number[b] > Number[old.tip]
                BY <1>6
            <4>2. b \in Blocks /\ Number[b] \in Nat
                BY <1>1, <4>1, AncestorsType, Numbers
            <4> QED
                BY <1>1, <2>2, <4>1, <4>2
        <3>3. t = old.tip
            BY <1>2, <3>2
        <3>4. passed(t) = {}
            <4> SUFFICES ASSUME NEW b \in Ancestors[old.tip], Number[b] > Number[old.tip]
                         PROVE  FALSE
                BY <3>3
            <4>1. b \in Blocks /\ Number[b] \in Nat /\ Number[b] =< Number[old.tip]
                BY <1>1, ChainAssumption, Numbers
            <4> QED
                BY <1>1, <4>1
        <3>5. seen => L =< Number[t]
            <4>1. CASE old.lastSeen
                BY <1>4, <3>3, <4>1
            <4>2. CASE ~old.lastSeen
                <5> SUFFICES ASSUME NEW b \in extension, Number[b] >= L
                             PROVE  L =< Number[old.tip]
                    BY <3>3, <4>2
                <5>1. leads
                    BY <1>6
                <5> QED
                    BY <1>1, <2>2, <5>1
            <4> QED
                BY <4>1, <4>2
        <3> QED
            BY <3>1, <3>2, <3>3, <3>4, <3>5
    <2> QED
        BY <2>1, <2>2
<1>8. seen \in BOOLEAN /\ t \in Blocks
    <2>1. target \in Blocks
        BY <1>1, CappedFacts
    <2> QED
        BY <1>1, <1>7, <2>1
<1> HIDE DEF seen, adopted, highest, target, leads
<1>9. /\ old.st = "running"
      /\ agg' = [agg EXCEPT ![n][s] =
                   [old EXCEPT !.tip = t, !.pos = old.pos + 1, !.lastSeen = seen]]
      /\ signed' = signed \cup {<<n, b>> : b \in passed(t)}
      /\ t = target
      /\ seen => L =< Number[t]
    BY <1>2, <1>3, <1>7
<1> QED
    BY <1>8, <1>9, Zenon DEF target, leads

\* The signatures an ordered datum adds are n's, in session s.
LEMMA PassedInSession ==
    ASSUME TypeOK, NEW n \in Honest, Entered(n), NEW s \in Sessions, agg[n][s].st = "running",
           NEW t \in Blocks, Number[t] =< LastBlockOf(s) \/ t = agg[n][s].tip,
           NEW b \in Ancestors[t], Number[b] > Number[agg[n][s].tip]
    PROVE  b \in Blocks /\ SessionOf(Number[b]) = s
<1> DEFINE tip == agg[n][s].tip
<1>1. tip \in Blocks /\ Number[tip] \in Nat
    <2>1. tip \in Blocks
        BY DEF TypeOK, Aggregator
    <2> QED
        BY <2>1, Numbers
<1>2. b \in Blocks /\ Number[b] \in Nat /\ Number[t] \in Nat /\ Number[b] =< Number[t]
    BY ChainAssumption, Numbers
<1>3. Base(s) =< Number[tip] /\ Base(s) \in Nat /\ LastBlockOf(s) \in Nat
    BY BaseBounds DEF Entered
<1>4. Base(s) < Number[b] /\ Number[b] =< LastBlockOf(s)
    BY <1>1, <1>2, <1>3
<1> QED
    BY <1>2, <1>4, BaseBounds

\* A datum that n has not imported and is let through, because its number is
\* final, can only be one on which the walk moves beyond the session.
LEMMA UnknownDatum ==
    ASSUME TypeOK, ClientInv, ImportedChains, NEW n \in Honest, NEW s \in Sessions,
           NEW o \in Seq(Datum), NEW w \in Walks(s, o), FinalOnWalk(n, s, o, w),
           Base(s) =< Number[finalized[n]],
           NEW k \in 1..Len(o), w[k] # w[k - 1],
           o[k].hash \notin imported[n], Number[finalized[n]] >= o[k].number
    PROVE  Number[finalized[n]] > LastBlockOf(s)
<1> DEFINE f == finalized[n]
           h == o[k].hash
           L == LastBlockOf(s)
           c == Capped(f, s)
           K == Len(o)
<1>1. /\ o[k] \in Datum /\ k - 1 \in 0..K /\ k \in 0..K /\ K \in 0..K
      /\ k =< K /\ h \in Blocks
    <2>1. K \in Nat /\ o[k] \in Datum
        OBVIOUS
    <2>2. h \in Blocks
        BY <2>1 DEF Datum
    <2> QED
        BY <2>1, <2>2
<1>2. /\ w[k] = IdealStep(s, w[k - 1], o[k]) /\ w[K] \in Blocks /\ w[k] \in Ancestors[w[K]]
    BY <1>1 DEF Walks
<1>3. Number[h] = o[k].number /\ w[k] = Capped(h, s)
    BY <1>2 DEF IdealStep
<1>4. /\ f \in Blocks /\ f \in imported[n] /\ Number[f] \in Nat /\ Number[h] \in Nat /\ L \in Nat
    BY <1>1, Numbers DEF TypeOK, ClientInv
<1>5. CASE Number[h] > L
    BY <1>3, <1>4, <1>5
<1>6. CASE Number[h] =< L /\ Number[f] =< L
    <2>1. h \in Ancestors[w[K]] /\ f \in Ancestors[w[K]]
        BY <1>1, <1>2, <1>3, <1>4, <1>6, CappedFacts DEF FinalOnWalk
    <2>2. h \in Ancestors[f]
        BY <1>2, <1>3, <2>1, OnOneChain
    <2> QED
        BY <1>4, <2>2 DEF ImportedChains
<1> QED
    BY <1>4, <1>5, <1>6

LEMMA OrderedDatumFollows ==
    ASSUME TypeOK, ClientInv, ImportedChains, NoDoubleSigning,
           NEW n \in Honest, Entered(n), NEW s \in Sessions, NEW d \in Data[s],
           OrderedDatum(n, s, d),
           NEW o \in Seq(Datum), NEW w \in Walks(s, o), Follows(n, s, o, w),
           agg[n][s].pos =< Len(o) => agg[n][s].pos + 1 =< Len(o) /\ o[agg[n][s].pos + 1] = d
    PROVE  /\ Follows(n, s, o, w)'
           /\ \A b, c \in Blocks :
                 /\ <<n, b>> \in signed' /\ <<n, c>> \in signed'
                 /\ SessionOf(Number[b]) = s /\ SessionOf(Number[c]) = s
                 => Comparable(b, c)
<1> DEFINE a == agg[n][s]
           L == LastBlockOf(s)
           f == finalized[n]
           K == Len(o)
           leads == /\ d.hash \in imported[n] /\ Number[d.hash] = d.number
                    /\ a.tip \in Ancestors[d.hash]
           target == IF leads /\ Number[a.tip] < L THEN Capped(d.hash, s) ELSE a.tip
           passed(t) == {b \in Ancestors[t] : Number[b] > Number[a.tip]}
           Agree == \A b, c \in Blocks :
                       /\ <<n, b>> \in signed' /\ <<n, c>> \in signed'
                       /\ SessionOf(Number[b]) = s /\ SessionOf(Number[c]) = s
                       => Comparable(b, c)
<1>1. PICK t \in Blocks, l \in BOOLEAN :
          /\ a.st = "running"
          /\ agg' = [agg EXCEPT ![n][s] =
                       [a EXCEPT !.tip = t, !.pos = a.pos + 1, !.lastSeen = l]]
          /\ signed' = signed \cup {<<n, b>> : b \in passed(t)}
          /\ t = target
          /\ l => L =< Number[t]
    BY OrderedDatumMoves, Zenon
<1>2. /\ a \in Aggregator /\ a.tip \in Blocks /\ a.pos \in Nat /\ d \in Datum /\ d.hash \in Blocks
      /\ f \in Blocks /\ f \in imported[n] /\ Number[f] \in Nat /\ L \in Nat
      /\ Number[a.tip] \in Nat /\ Number[d.hash] \in Nat /\ Number[t] \in Nat /\ K \in Nat
    <2>1. d \in Datum /\ a \in Aggregator /\ f \in Blocks /\ f \in imported[n]
        BY Constants DEF TypeOK, ClientInv
    <2>2. d.hash \in Blocks /\ a.tip \in Blocks /\ a.pos \in Nat
        BY <2>1 DEF Datum, Aggregator
    <2> QED
        BY <2>1, <2>2, Numbers
<1>3. agg'[n][s].st = "running" /\ agg'[n][s].tip = t /\ agg'[n][s].pos = a.pos + 1
    <2> DEFINE new == [a EXCEPT !.tip = t, !.pos = a.pos + 1, !.lastSeen = l]
    <2>1. new.st = "running" /\ new.tip = t /\ new.pos = a.pos + 1
        BY <1>1, <1>2 DEF Aggregator
    <2>2. agg' = [agg EXCEPT ![n][s] = new]
        BY <1>1
    <2> HIDE DEF new
    <2>3. agg'[n][s] = new
        BY <2>2 DEF TypeOK
    <2> QED
        BY <2>1, <2>3
<1>4. UNCHANGED <<finalized, imported>> /\ Available(n, d)
    BY DEF OrderedDatum
<1>5. \A b \in Blocks : <<n, b>> \in signed' <=> <<n, b>> \in signed \/ b \in passed(t)
    BY <1>1
<1>6. Base(s) =< Number[f] /\ FinalOnWalk(n, s, o, w) /\ FinalOnWalk(n, s, o, w)'
    BY <1>1, <1>4 DEF Entered, Follows, FinalOnWalk
<1>7. \A b \in Ancestors[a.tip] : b \in Blocks /\ Number[b] \in Nat /\ Number[b] =< Number[a.tip]
    <2>1. \A b \in Ancestors[a.tip] : b \in Blocks /\ Number[b] =< Number[a.tip]
        BY <1>2, ChainAssumption
    <2> QED
        BY <2>1, Numbers
<1>8. t = a.tip => \A b \in Blocks : <<n, b>> \in signed' <=> <<n, b>> \in signed
    BY <1>2, <1>5, <1>7
<1> HIDE DEF target
<1>9. CASE L =< Number[a.tip]
    <2>1. t = a.tip
        BY <1>1, <1>2, <1>9 DEF target
    <2>2. Number[f] =< L => InStep(n, s, o, w)'
        BY <1>4, <1>8, <2>1 DEF Follows, InStep, Has
    <2>3. Follows(n, s, o, w)'
        BY <1>3, <1>4, <1>6, <1>9, <2>1, <2>2 DEF Follows
    <2>4. Agree
        BY <1>8, <2>1 DEF NoDoubleSigning
    <2> QED
        BY <2>3, <2>4
<1>10. CASE Number[a.tip] < L /\ OnWalk(n, s, o, w) /\ InStep(n, s, o, w)
    <2> DEFINE k == a.pos
    <2>1. /\ k + 1 =< K /\ o[k + 1] = d /\ k \in 0..K /\ k + 1 \in 1..K /\ k + 1 \in 0..K /\ K \in 0..K
          /\ (k + 1) - 1 = k
        BY <1>2, <1>10 DEF OnWalk
    <2>2. /\ w[k] \in Ancestors[a.tip] /\ a.tip \in Ancestors[w[K]]
          /\ a.tip = w[k] \/ a.tip \in Ancestors[f]
          /\ Has(n, o, w, k)
        BY <1>10 DEF OnWalk
    <2>3. /\ w[k] \in Blocks /\ w[k + 1] \in Blocks /\ w[K] \in Blocks
          /\ w[k + 1] = IdealStep(s, w[k], d)
          /\ w[k] \in Ancestors[w[k + 1]] /\ w[k + 1] \in Ancestors[w[K]]
          /\ \A j \in 0..k : w[j] \in Ancestors[w[k]]
        <3>1. /\ w \in [0..K -> Blocks]
              /\ \A j \in 1..K : w[j] = IdealStep(s, w[j - 1], o[j])
              /\ \A i, j \in 0..K : i =< j => w[i] \in Ancestors[w[j]]
            BY DEF Walks
        <3>2. w[k + 1] = IdealStep(s, w[k], d)
            BY <2>1, <3>1
        <3>3. k =< k + 1 /\ k + 1 =< K /\ \A j \in 0..k : j \in 0..K /\ j =< k
            BY <1>2, <2>1
        <3> HIDE DEF k, K
        <3> QED
            BY <2>1, <3>1, <3>2, <3>3
    <2>4. d.hash \in imported[n] \/ w[k + 1] = w[k] => Has(n, o, w, k + 1)
        BY <1>2, <2>1, <2>2 DEF Has
\* Whoever signs on the walk has signed on one chain.
    <2>5. InStep(n, s, o, w)' => Agree
        <3> SUFFICES ASSUME InStep(n, s, o, w)', NEW b \in Blocks, NEW c \in Blocks,
                            <<n, b>> \in signed', <<n, c>> \in signed',
                            SessionOf(Number[b]) = s, SessionOf(Number[c]) = s
                     PROVE  Comparable(b, c)
            OBVIOUS
        <3>1. PICK i, j \in 0..K : b \in Ancestors[w[i]] /\ c \in Ancestors[w[j]]
            BY DEF InStep
        <3>2. w[i] \in Ancestors[w[K]] /\ w[j] \in Ancestors[w[K]]
            BY <1>2, <2>1 DEF Walks
        <3>3. b \in Ancestors[w[K]] /\ c \in Ancestors[w[K]]
            BY <2>3, <3>1, <3>2, AncestorsTransitive
        <3> QED
            BY <2>3, <3>3, ChainComparable
    <2>6. CASE leads
        <3>1. w[k] \in Ancestors[d.hash]
            BY <1>2, <2>2, <2>6, AncestorsTransitive
        <3>2. t = w[k + 1]
            BY <1>1, <1>10, <2>3, <2>6, <3>1 DEF target, IdealStep
        <3>3. Has(n, o, w, k + 1)
            BY <2>4, <2>6
        <3>4. OnWalk(n, s, o, w)'
            BY <1>3, <1>4, <2>1, <2>3, <3>2, <3>3, AncestorsType DEF OnWalk, Has
        <3>5. InStep(n, s, o, w)'
            <4> SUFFICES ASSUME NEW b \in Blocks, <<n, b>> \in signed', SessionOf(Number[b]) = s
                         PROVE  \E j \in 0..K : b \in Ancestors[w[j]] /\ Has(n, o, w, j)
                BY <1>4 DEF InStep, Has
            <4>1. CASE <<n, b>> \in signed
                BY <1>10, <4>1 DEF InStep
            <4>2. CASE b \in passed(t)
                BY <2>1, <3>2, <3>3, <4>2
            <4> QED
                BY <1>5, <4>1, <4>2
        <3> QED
            BY <1>3, <1>6, <2>5, <3>4, <3>5 DEF Follows
    <2>7. CASE ~leads
        <3>1. t = a.tip
            BY <1>1, <2>7 DEF target
        <3>2. InStep(n, s, o, w)'
            BY <1>4, <1>8, <1>10, <3>1 DEF InStep, Has
        <3>3. CASE w[k + 1] = w[k]
            <4>1. OnWalk(n, s, o, w)'
                BY <1>3, <1>4, <2>1, <2>2, <2>4, <3>1, <3>3 DEF OnWalk, Has
            <4> QED
                BY <1>3, <1>6, <2>5, <3>2, <4>1 DEF Follows
        <3>4. CASE w[k + 1] # w[k] /\ d.hash \in imported[n]
            <4>1. Number[d.hash] = d.number /\ w[k] \in Ancestors[d.hash] /\ w[k + 1] = Capped(d.hash, s)
                BY <2>3, <3>4 DEF IdealStep
            <4>2. a.tip \notin Ancestors[d.hash]
                BY <2>7, <3>4, <4>1
            <4>3. a.tip \in Ancestors[f]
                BY <2>2, <4>1, <4>2
            <4>4. a.tip \notin Ancestors[w[k + 1]]
                BY <1>2, <4>1, <4>2, CappedFacts, AncestorsTransitive
            <4>5. w[k + 1] \in Ancestors[a.tip]
                BY <2>2, <2>3, <4>4, ChainComparable DEF Comparable
            <4>6. OnWalk(n, s, o, w)'
                BY <1>3, <1>4, <2>1, <2>2, <2>4, <3>1, <3>4, <4>3, <4>5 DEF OnWalk, Has
            <4> QED
                BY <1>3, <1>6, <2>5, <3>2, <4>6 DEF Follows
        <3>5. CASE w[k + 1] # w[k] /\ d.hash \notin imported[n]
            <4>1. Number[f] >= d.number
                BY <1>4, <3>5 DEF Available
            <4>2. Number[f] > L
                BY <1>6, <2>1, <3>5, <4>1, UnknownDatum
            <4>3. \A j \in 0..K : Has(n, o, w, j) => j =< k
                <5> SUFFICES ASSUME NEW j \in 0..K, Has(n, o, w, j), k < j
                             PROVE  FALSE
                    BY <1>2
                <5>1. k + 1 \in 1..j
                    BY <1>2
                <5>2. w[k + 1] # w[(k + 1) - 1] => o[k + 1].hash \in imported[n]
                    BY <5>1 DEF Has
                <5> QED
                    BY <2>1, <3>5, <5>2
            <4>4. Late(n, s)'
                <5> SUFFICES ASSUME NEW b \in Blocks, <<n, b>> \in signed, SessionOf(Number[b]) = s
                             PROVE  b \in Ancestors[a.tip]
                    BY <1>3, <1>4, <1>8, <3>1, <4>2 DEF Late
                <5>1. PICK j \in 0..K : b \in Ancestors[w[j]] /\ Has(n, o, w, j)
                    BY <1>10 DEF InStep
                <5>2. w[j] \in Ancestors[w[k]]
                    BY <1>2, <2>1, <2>3, <4>3, <5>1
                <5>3. b \in Ancestors[w[k]]
                    BY <2>3, <5>1, <5>2, AncestorsTransitive
                <5> QED
                    BY <1>2, <2>2, <5>3, AncestorsTransitive
            <4> QED
                BY <1>3, <1>6, <2>5, <3>2, <4>4 DEF Follows
        <3> QED
            BY <3>3, <3>4, <3>5
    <2> QED
        BY <2>6, <2>7
<1>11. CASE Number[a.tip] < L /\ Late(n, s)
    <2>1. a.tip \in Ancestors[t]
        <3>1. CASE leads
            BY <1>1, <1>2, <1>11, <3>1, CappedFacts DEF target
        <3>2. CASE ~leads
            BY <1>1, <1>2, <3>2, AncestorsType DEF target
        <3> QED
            BY <3>1, <3>2
    <2>2. ASSUME NEW b \in Blocks, <<n, b>> \in signed', SessionOf(Number[b]) = s
          PROVE  b \in Ancestors[t]
        <3>1. CASE <<n, b>> \in signed
            <4>1. b \in Ancestors[a.tip]
                BY <1>11, <2>2, <3>1 DEF Late
            <4> QED
                BY <2>1, <4>1, AncestorsTransitive
        <3>2. CASE b \in passed(t)
            BY <3>2
        <3> QED
            BY <1>5, <2>2, <3>1, <3>2
    <2>3. Late(n, s)'
        BY <1>3, <1>4, <1>11, <2>2 DEF Late
    <2>4. Agree
        BY <2>2, ChainComparable
    <2>5. ~(Number[f] =< L)
        BY <1>2, <1>11 DEF Late
    <2> QED
        BY <1>3, <1>4, <1>6, <2>3, <2>4, <2>5 DEF Follows
<1> QED
    BY <1>1, <1>2, <1>9, <1>10, <1>11 DEF Follows

\* A step that touches neither n's finalised block nor its signatures of session
\* s, and at most stops n's aggregator of s, keeps n on the walk.
LEMMA FollowsKept ==
    ASSUME TypeOK, NEW n \in Honest, NEW s \in Sessions, NEW o \in Seq(Datum), NEW w \in Walks(s, o),
           Follows(n, s, o, w),
           finalized'[n] = finalized[n], imported[n] \subseteq imported'[n],
           agg'[n][s] = agg[n][s] \/ agg'[n][s].st = "none",
           \A b \in Blocks : <<n, b>> \in signed' /\ SessionOf(Number[b]) = s => <<n, b>> \in signed
    PROVE  Follows(n, s, o, w)'
<1>1. FinalOnWalk(n, s, o, w)'
    BY DEF Follows, FinalOnWalk
<1>2. \A k \in 0..Len(o) : Has(n, o, w, k) => Has(n, o, w, k)'
    BY DEF Has
<1>3. InStep(n, s, o, w) => InStep(n, s, o, w)'
    <2> SUFFICES ASSUME InStep(n, s, o, w), NEW b \in Blocks, <<n, b>> \in signed',
                        SessionOf(Number[b]) = s
                 PROVE  \E k \in 0..Len(o) : b \in Ancestors[w[k]] /\ Has(n, o, w, k)'
        BY DEF InStep
    <2>1. PICK k \in 0..Len(o) : b \in Ancestors[w[k]] /\ Has(n, o, w, k)
        BY DEF InStep
    <2> QED
        BY <1>2, <2>1
<1>4. ASSUME agg'[n][s] = agg[n][s], agg[n][s].st = "running"
      PROVE  \/ LastBlockOf(s) =< Number[agg'[n][s].tip]
             \/ OnWalk(n, s, o, w)' /\ InStep(n, s, o, w)'
             \/ Late(n, s)'
    <2>1. CASE LastBlockOf(s) =< Number[agg[n][s].tip]
        BY <1>4, <2>1
    <2>2. CASE OnWalk(n, s, o, w) /\ InStep(n, s, o, w)
        <3>1. agg[n][s].pos \in 0..Len(o)
            <4>1. agg[n][s].pos \in Nat /\ Len(o) \in Nat
                BY DEF TypeOK, Aggregator
            <4> QED
                BY <2>2, <4>1 DEF OnWalk
        <3>2. Has(n, o, w, agg[n][s].pos)'
            BY <1>2, <1>4, <2>2, <3>1 DEF OnWalk, Has
        <3>3. OnWalk(n, s, o, w)'
            BY <1>4, <2>2, <3>2 DEF OnWalk
        <3> QED
            BY <1>3, <2>2, <3>3
    <2>3. CASE Late(n, s)
        BY <1>4, <2>3 DEF Late
    <2> QED
        BY <1>4, <2>1, <2>2, <2>3 DEF Follows
<1>5. agg'[n][s].st \in {"spawned", "running"} => agg'[n][s] = agg[n][s]
    OBVIOUS
<1> QED
    BY <1>1, <1>3, <1>4, <1>5 DEF Follows

LEMMA StartSessionFollows ==
    ASSUME TypeOK, NEW n \in Honest, StartSession(n), NEW s \in Sessions,
           NEW o \in Seq(Datum), NEW w \in Walks(s, o), Follows(n, s, o, w)
    PROVE  Follows(n, s, o, w)'
<1>1. /\ Number[finalized[n]] < LastBlockOf(sess[n])
      /\ UNCHANGED <<imported, finalized, signed>>
      /\ finalized[n] \in Blocks /\ Number[finalized[n]] \in Nat /\ LastBlockOf(s) \in Nat
    BY Numbers DEF StartSession, TypeOK
<1>2. agg'[n][s] = agg[n][s] \/ (s = sess[n] /\ agg'[n][s].st = "spawned")
    <2> DEFINE new == [NoAggregator EXCEPT !.st = "spawned"]
    <2>1. agg' = agg \/ agg' = [agg EXCEPT ![n][sess[n]] = new]
        BY DEF StartSession
    <2>2. new.st = "spawned"
        BY DEF NoAggregator
    <2> HIDE DEF new
    <2> QED
        BY <2>1, <2>2 DEF TypeOK
<1>3. CASE agg'[n][s] = agg[n][s]
    BY <1>1, <1>3, FollowsKept
<1>4. CASE s = sess[n] /\ agg'[n][s].st = "spawned"
    <2>1. InStep(n, s, o, w)'
        BY <1>1, <1>4 DEF Follows, InStep, Has
    <2>2. FinalOnWalk(n, s, o, w)'
        BY <1>1 DEF Follows, FinalOnWalk
    <2> QED
        BY <1>4, <2>1, <2>2 DEF Follows
<1> QED
    BY <1>2, <1>3, <1>4

LEMMA StartAggregatorFollows ==
    ASSUME TypeOK, NEW n \in Honest, Entered(n), NEW r \in Sessions, StartAggregator(n, r),
           NEW s \in Sessions, NEW o \in Seq(Datum), NEW w \in Walks(s, o), Follows(n, s, o, w)
    PROVE  Follows(n, s, o, w)'
<1> DEFINE f == finalized[n]
           a == agg[n][r]
<1>1. /\ a.st = "spawned" /\ a.pos = 0 /\ Base(r) =< Number[f]
      /\ UNCHANGED <<imported, finalized, signed>>
      /\ f \in Blocks /\ Number[f] \in Nat /\ LastBlockOf(s) \in Nat /\ Len(o) \in Nat
    BY Numbers DEF StartAggregator, TypeOK, Entered
<1>2. /\ agg'[n][r].st = "running" /\ agg'[n][r].tip = f /\ agg'[n][r].pos = 0
      /\ r # s => agg'[n][s] = agg[n][s]
    <2> DEFINE new == [a EXCEPT !.st = "running", !.tip = f]
    <2>1. new.st = "running" /\ new.tip = f /\ new.pos = 0
        <3>1. a \in Aggregator
            BY DEF TypeOK
        <3> QED
            BY <1>1, <3>1 DEF Aggregator
    <2>2. agg' = [agg EXCEPT ![n][r] = new]
        BY DEF StartAggregator
    <2> HIDE DEF new
    <2> QED
        BY <2>1, <2>2 DEF TypeOK
<1>3. CASE r # s
    BY <1>1, <1>2, <1>3, FollowsKept
<1>4. CASE r = s
    <2>1. FinalOnWalk(n, s, o, w) /\ InStep(n, s, o, w)
        BY <1>1, <1>4 DEF Follows
    <2>2. FinalOnWalk(n, s, o, w)' /\ InStep(n, s, o, w)'
        BY <1>1, <2>1 DEF FinalOnWalk, InStep, Has
    <2>3. CASE LastBlockOf(s) =< Number[f]
        BY <1>2, <1>4, <2>2, <2>3 DEF Follows
    <2>4. CASE Number[f] < LastBlockOf(s)
        <3>1. w[0] \in Ancestors[f] /\ f \in Ancestors[w[Len(o)]]
            BY <1>1, <1>4, <2>1, <2>4, CappedFacts DEF FinalOnWalk
        <3>2. Has(n, o, w, 0)'
            BY DEF Has
        <3>3. OnWalk(n, s, o, w)'
            BY <1>1, <1>2, <1>4, <3>1, <3>2, AncestorsType DEF OnWalk, Has
        <3> QED
            BY <1>2, <1>4, <2>2, <3>3 DEF Follows
    <2> QED
        BY <1>1, <2>3, <2>4
<1> QED
    BY <1>3, <1>4

\* A block that n finalises lies on the walk: it is on one chain with what
\* another node has finalised beyond the session, or an honest node that has
\* not left the walk has signed it.
LEMMA JustifiedOnWalk ==
    ASSUME TypeOK, KeyInv, CertInv, NoDoubleSigning, FinalityAgreement,
           NEW n \in Honest, NEW b \in Blocks, HandleJustification(n, b),
           NEW s \in Sessions, Settled(s), NEW o \in Seq(Datum), NEW w \in Walks(s, o),
           \A m \in Honest : Follows(m, s, o, w),
           Base(s) =< Number[b]
    PROVE  w[0] \in Ancestors[b] /\ Capped(b, s) \in Ancestors[w[Len(o)]]
<1> DEFINE f == finalized[n]
           c == CurrentSession(n)
           L == LastBlockOf(s)
           K == Len(o)
<1>1. /\ f \in Ancestors[b] /\ Number[b] > Number[f] /\ Number[b] =< LastBlockOf(c)
      /\ IsComplete(Signers(b), known[n][c])
    BY DEF HandleJustification
<1>2. known[n][c] = CommitteeOn(b, c) /\ SessionOf(Number[b]) = c
    BY HandleJustificationKeys
<1>3. /\ f \in Blocks /\ Number[f] \in Nat /\ c \in Nat /\ L \in Nat /\ LastBlockOf(c) \in Nat
      /\ s \in Nat /\ Number[b] \in Nat /\ K \in Nat /\ Base(s) \in Nat /\ Base(s) =< L
    BY CurrentSessionBounds, LastBlockMonotone, Numbers, BaseBounds
<1>4. /\ w[0] \in Blocks /\ w[K] \in Blocks /\ w[0] \in Ancestors[w[K]] /\ Number[w[0]] = Base(s)
      /\ \A k \in 0..K : w[k] \in Blocks /\ w[k] \in Ancestors[w[K]]
    <2>1. 0 \in 0..K /\ K \in 0..K /\ \A k \in 0..K : k =< K
        BY <1>3
    <2> QED
        BY <2>1 DEF Walks
<1>5. CASE s < c
    <2>1. L =< Number[f]
        BY <1>3, <1>5, CurrentSessionBounds
    <2>2. w[0] \in Ancestors[f] /\ Capped(f, s) \in Ancestors[w[K]]
        BY <1>3, <2>1 DEF Follows, FinalOnWalk
    <2>3. AncestorAt(b, L) = Capped(f, s)
        <3>1. AncestorAt(f, L) = AncestorAt(b, L)
            BY <1>1, <1>3, <2>1, AncestorAtBelow
        <3>2. Number[f] = L => AncestorAt(f, L) = f
            BY <1>3, AncestorsType, AncestorAtNumber
        <3> QED
            BY <1>3, <2>1, <3>1, <3>2 DEF Capped
    <2>4. Capped(b, s) = Capped(f, s)
        BY <1>1, <1>3, <2>1, <2>3 DEF Capped
    <2> QED
        BY <1>1, <2>2, <2>4, AncestorsTransitive
<1>6. CASE s = c
    <2>1. Base(s) =< Number[f]
        <3>1. s # 0 => s - 1 \in Nat /\ c > s - 1
            BY <1>3, <1>6
        <3> QED
            BY <1>3, <3>1, CurrentSessionBounds DEF Base
    <2>2. w[0] \in Ancestors[b]
        BY <1>1, <2>1, AncestorsTransitive DEF Follows, FinalOnWalk
    <2>3. Capped(b, s) = b
        BY <1>1, <1>6, CappedFacts
    <2>4. CASE \E h \in Honest : Number[finalized[h]] > L
        <3>1. PICK h \in Honest : Number[finalized[h]] > L
            BY <2>4
        <3> DEFINE g == finalized[h]
        <3>2. g \in Blocks /\ Number[g] \in Nat /\ Number[b] < Number[g] /\ Base(s) =< Number[g]
            BY <1>1, <1>3, <1>6, <3>1, Numbers DEF TypeOK
        <3>3. Comparable(g, b)
            BY HandlersAgree
        <3>4. b \in Ancestors[g]
            <4>1. g \in Ancestors[b] => Number[g] =< Number[b]
                BY ChainAssumption
            <4> QED
                BY <1>3, <3>2, <3>3, <4>1 DEF Comparable
        <3>5. b \in Ancestors[Capped(g, s)]
            BY <1>1, <1>6, <3>2, <3>4, CappedFacts
        <3>6. Capped(g, s) \in Ancestors[w[K]]
            BY <3>2 DEF Follows, FinalOnWalk
        <3> QED
            BY <1>4, <2>2, <2>3, <3>5, <3>6, AncestorsTransitive
    <2>5. CASE \A h \in Honest : ~(Number[finalized[h]] > L)
        <3>1. CommitteeOn(b, c) \in Committees
            BY <1>2, SessionBefore, CommitteeOnType
        <3>2. PICK h \in Honest : <<h, b>> \in signed
            BY <1>1, <1>2, <3>1, QuorumsIntersect
        <3>3. Number[finalized[h]] =< L
            <4>1. Number[finalized[h]] \in Nat
                BY Numbers DEF TypeOK
            <4> QED
                BY <1>3, <2>5, <4>1
        <3>4. PICK k \in 0..K : b \in Ancestors[w[k]]
            BY <1>2, <1>6, <3>2, <3>3 DEF Follows, InStep
        <3> QED
            BY <1>4, <2>2, <2>3, <3>4, AncestorsTransitive
    <2> QED
        BY <2>4, <2>5
<1>7. CASE s > c
    <2>1. Number[b] = Base(s)
        <3>1. s # 0 /\ s - 1 \in Nat /\ c =< s - 1
            BY <1>3, <1>7
        <3>2. LastBlockOf(c) =< LastBlockOf(s - 1)
            BY <1>3, <3>1, LastBlockMonotone
        <3>3. Base(s) = LastBlockOf(s - 1)
            BY <3>1 DEF Base
        <3> QED
            BY <1>1, <1>3, <3>2, <3>3
    <2>2. PICK h \in Honest : Base(s) =< Number[finalized[h]]
        BY DEF Settled
    <2> DEFINE g == finalized[h]
    <2>3. g \in Blocks /\ Number[g] \in Nat /\ w[0] \in Ancestors[g]
        BY <2>2, Numbers DEF TypeOK, Follows, FinalOnWalk
    <2>4. Comparable(g, b)
        BY HandlersAgree
    <2>5. b \in Ancestors[g]
        <3>1. CASE g \in Ancestors[b]
            <4>1. Number[g] = Number[b]
                BY <1>3, <2>1, <2>2, <2>3, <3>1, ChainAssumption
            <4> QED
                BY <3>1, <4>1, ChainAssumption
        <3> QED
            BY <2>4, <3>1 DEF Comparable
    <2>6. b = w[0]
        BY <1>4, <2>1, <2>3, <2>5, ChainAssumption
    <2>7. Capped(b, s) = b
        BY <1>3, <2>1, CappedFacts
    <2> QED
        BY <1>4, <2>6, <2>7, AncestorsType
<1> QED
    BY <1>3, <1>5, <1>6, <1>7

LEMMA HandleJustificationFollows ==
    ASSUME TypeOK, KeyInv, CertInv, NoDoubleSigning, FinalityAgreement,
           NEW n \in Honest, NEW b \in Blocks, HandleJustification(n, b),
           NEW s \in Sessions, Settled(s), NEW o \in Seq(Datum), NEW w \in Walks(s, o),
           \A m \in Honest : Follows(m, s, o, w)
    PROVE  Follows(n, s, o, w)'
<1> DEFINE f == finalized[n]
<1>1. /\ f \in Ancestors[b] /\ Number[b] > Number[f]
      /\ finalized' = [finalized EXCEPT ![n] = b]
      /\ UNCHANGED <<imported, agg, signed>>
    BY DEF HandleJustification
<1>2. /\ finalized'[n] = b /\ Number[f] \in Nat /\ Number[b] \in Nat /\ LastBlockOf(s) \in Nat
      /\ \A x \in Ancestors[f] : x \in Ancestors[b]
    BY <1>1, Numbers, AncestorsTransitive DEF TypeOK
<1>3. FinalOnWalk(n, s, o, w)'
    BY <1>2, JustifiedOnWalk DEF FinalOnWalk
<1>4. /\ InStep(n, s, o, w) => InStep(n, s, o, w)'
      /\ OnWalk(n, s, o, w) => OnWalk(n, s, o, w)'
      /\ Late(n, s) => Late(n, s)'
    BY <1>1, <1>2 DEF InStep, OnWalk, Has, Late
<1>5. Number[b] =< LastBlockOf(s) => Number[f] =< LastBlockOf(s)
    BY <1>1, <1>2
<1> QED
    BY <1>1, <1>2, <1>3, <1>4, <1>5 DEF Follows

(* The invariants *)

\* No runtime call fails, so a node's party is never ahead of its handler.
LEMMA PartyHasEntered ==
    ASSUME ApiFails = {}, TypeOK, KeyboxInv, NEW n \in Honest
    PROVE  Base(sess[n]) =< Number[finalized[n]]
<1>1. n \in Reliable /\ sess[n] \in Nat /\ CurrentSession(n) \in Nat
    BY Numbers, CurrentSessionBounds DEF Reliable, TypeOK
<1>2. sess[n] =< CurrentSession(n)
    BY <1>1 DEF KeyboxInv, KeyboxAt
<1>3. sess[n] # 0 => sess[n] - 1 \in Nat /\ CurrentSession(n) > sess[n] - 1
    BY <1>1, <1>2
<1> QED
    BY <1>1, <1>3, CurrentSessionBounds DEF Base

\* A finalised block never moves down.
LEMMA FinalityRises ==
    ASSUME TypeOK, [Next]_vars, NEW n \in Honest
    PROVE  /\ finalized[n] \in Blocks /\ Number[finalized[n]] \in Nat
           /\ finalized'[n] \in Blocks /\ Number[finalized'[n]] \in Nat
           /\ Number[finalized[n]] =< Number[finalized'[n]]
<1>1. finalized[n] \in Blocks /\ Number[finalized[n]] \in Nat
    BY Numbers DEF TypeOK
<1>2. ASSUME NEW m \in Honest, NEW b \in Blocks, HandleJustification(m, b)
      PROVE  finalized'[n] \in Blocks /\ Number[finalized[n]] =< Number[finalized'[n]]
    <2>1. Number[b] > Number[finalized[m]] /\ finalized' = [finalized EXCEPT ![m] = b]
        BY <1>2 DEF HandleJustification
    <2>2. Number[b] \in Nat
        BY Numbers
    <2> QED
        BY <1>1, <2>1, <2>2 DEF TypeOK
<1>3. CASE UNCHANGED finalized
    BY <1>1, <1>3
<1> QED
    BY <1>1, <1>2, <1>3, OnlyHandlerFinalizes, Numbers

\* Steps that leave the aggregators and signatures of n alone, or stop some of
\* its aggregators.
LEMMA EnteredKept ==
    ASSUME TypeOK, [Next]_vars, NEW n \in Honest, Entered(n),
           \A s \in Sessions : agg'[n][s] = agg[n][s] \/ agg'[n][s].st = "none",
           \A b \in Blocks : <<n, b>> \in signed' => <<n, b>> \in signed
    PROVE  Entered(n)'
<1>1. /\ \A s \in Sessions : Base(s) \in Nat
      /\ Number[finalized[n]] \in Nat /\ Number[finalized'[n]] \in Nat
      /\ Number[finalized[n]] =< Number[finalized'[n]]
    BY FinalityRises, BaseBounds
<1>2. \A s \in Sessions : Base(s) =< Number[finalized[n]] => Base(s) =< Number[finalized'[n]]
    BY <1>1
<1> QED
    BY <1>2 DEF Entered

LEMMA StartSessionEntered ==
    ASSUME ApiFails = {}, TypeOK, KeyboxInv, NEW n \in Honest, Entered(n), StartSession(n)
    PROVE  Entered(n)'
<1> DEFINE new == [NoAggregator EXCEPT !.st = "spawned"]
<1>1. UNCHANGED <<finalized, signed>> /\ sess[n] \in Sessions
    BY DEF StartSession, TypeOK
<1>2. agg' = agg \/ agg' = [agg EXCEPT ![n][sess[n]] = new]
    BY DEF StartSession
<1>3. new.st = "spawned" /\ new.pos = 0 /\ ~new.lastSeen
    BY DEF NoAggregator
<1> HIDE DEF new
<1>4. \A s \in Sessions : agg'[n][s] = agg[n][s] \/ (s = sess[n] /\ agg'[n][s] = new)
    BY <1>2 DEF TypeOK
<1>5. ASSUME NEW s \in Sessions
      PROVE  /\ agg'[n][s].st # "none" => Base(s) =< Number[finalized[n]]
             /\ agg'[n][s].st = "spawned" => agg'[n][s].pos = 0 /\ ~agg'[n][s].lastSeen
             /\ agg'[n][s].st = "running" =>
                   /\ Base(s) =< Number[agg'[n][s].tip]
                   /\ agg'[n][s].lastSeen => LastBlockOf(s) =< Number[agg'[n][s].tip]
    <2>1. CASE agg'[n][s] = agg[n][s]
        BY <2>1 DEF Entered
    <2>2. CASE s = sess[n] /\ agg'[n][s] = new
        BY <1>3, <2>2, PartyHasEntered
    <2> QED
        BY <1>4, <2>1, <2>2
<1> QED
    BY <1>1, <1>5 DEF Entered

LEMMA StartAggregatorEntered ==
    ASSUME TypeOK, NEW n \in Honest, Entered(n), NEW s \in Sessions, StartAggregator(n, s)
    PROVE  Entered(n)'
<1> DEFINE new == [agg[n][s] EXCEPT !.st = "running", !.tip = finalized[n]]
<1>1. UNCHANGED <<finalized, signed>> /\ agg[n][s].st = "spawned" /\ ~agg[n][s].lastSeen
    BY DEF StartAggregator, Entered
<1>2. agg' = [agg EXCEPT ![n][s] = new]
    BY DEF StartAggregator
<1>3. new.st = "running" /\ new.tip = finalized[n] /\ ~new.lastSeen
    <2>1. agg[n][s] \in Aggregator
        BY DEF TypeOK
    <2> QED
        BY <1>1, <2>1 DEF Aggregator
<1> HIDE DEF new
<1>4. agg'[n][s] = new /\ \A r \in Sessions : r # s => agg'[n][r] = agg[n][r]
    BY <1>2 DEF TypeOK
<1>5. Base(s) =< Number[finalized[n]]
    BY <1>1 DEF Entered
<1> QED
    BY <1>1, <1>3, <1>4, <1>5 DEF Entered

LEMMA OrderedDatumEntered ==
    ASSUME TypeOK, ImportedChains, NEW n \in Honest, Entered(n), NEW s \in Sessions,
           NEW d \in Data[s], OrderedDatum(n, s, d)
    PROVE  /\ Entered(n)' /\ agg'[n][s].pos = agg[n][s].pos + 1
           /\ \A m \in Honest : \A b \in Blocks : <<m, b>> \in signed' =>
                 <<m, b>> \in signed \/ (m = n /\ SessionOf(Number[b]) = s)
           /\ \A m \in Honest : \A r \in Sessions :
                 agg'[m][r] = agg[m][r] \/ (m = n /\ r = s)
<1> DEFINE a == agg[n][s]
           L == LastBlockOf(s)
           leads == /\ d.hash \in imported[n] /\ Number[d.hash] = d.number
                    /\ a.tip \in Ancestors[d.hash]
           target == IF leads /\ Number[a.tip] < L THEN Capped(d.hash, s) ELSE a.tip
           passed(t) == {b \in Ancestors[t] : Number[b] > Number[a.tip]}
<1>1. PICK t \in Blocks, l \in BOOLEAN :
          /\ a.st = "running"
          /\ agg' = [agg EXCEPT ![n][s] =
                       [a EXCEPT !.tip = t, !.pos = a.pos + 1, !.lastSeen = l]]
          /\ signed' = signed \cup {<<n, b>> : b \in passed(t)}
          /\ t = target
          /\ l => L =< Number[t]
    BY OrderedDatumMoves, Zenon
<1>2. /\ a \in Aggregator /\ a.tip \in Blocks /\ Number[a.tip] \in Nat /\ d.hash \in Blocks
      /\ Number[t] \in Nat /\ L \in Nat /\ Base(s) \in Nat /\ Base(s) =< Number[a.tip]
      /\ Base(s) =< Number[finalized[n]]
    <2>1. d \in Datum /\ a \in Aggregator
        BY Constants DEF TypeOK
    <2>2. d.hash \in Blocks /\ a.tip \in Blocks
        BY <2>1 DEF Datum, Aggregator
    <2> QED
        BY <1>1, <2>1, <2>2, Numbers, BaseBounds DEF Entered
<1>3. a.tip \in Ancestors[t] /\ (Number[t] =< L \/ t = a.tip)
    <2>1. CASE leads /\ Number[a.tip] < L
        BY <1>1, <1>2, <2>1, CappedFacts DEF target
    <2>2. CASE ~(leads /\ Number[a.tip] < L)
        BY <1>1, <1>2, <2>2, AncestorsType DEF target
    <2> QED
        BY <2>1, <2>2
<1>4. Base(s) =< Number[t]
    <2>1. Number[a.tip] =< Number[t]
        BY <1>3, ChainAssumption
    <2> QED
        BY <1>2, <2>1
<1> DEFINE new == [a EXCEPT !.tip = t, !.pos = a.pos + 1, !.lastSeen = l]
<1>5. new.st = "running" /\ new.tip = t /\ new.lastSeen = l /\ new.pos = a.pos + 1
    BY <1>1, <1>2 DEF Aggregator
<1>6. agg' = [agg EXCEPT ![n][s] = new] /\ UNCHANGED finalized
    BY <1>1 DEF OrderedDatum
<1> HIDE DEF new, target, leads
<1>7. agg'[n][s] = new /\ \A m \in Honest : \A r \in Sessions :
          agg'[m][r] = agg[m][r] \/ (m = n /\ r = s)
    BY <1>6 DEF TypeOK
<1>8. \A b \in passed(t) : b \in Blocks /\ SessionOf(Number[b]) = s
    BY <1>1, <1>3, PassedInSession
<1>9. \A m \in Honest : \A b \in Blocks : <<m, b>> \in signed' =>
          <<m, b>> \in signed \/ (m = n /\ SessionOf(Number[b]) = s)
    BY <1>1, <1>8
<1>10. ASSUME NEW r \in Sessions
       PROVE  /\ agg'[n][r].st # "none" => Base(r) =< Number[finalized[n]]
              /\ agg'[n][r].st = "spawned" => agg'[n][r].pos = 0 /\ ~agg'[n][r].lastSeen
              /\ agg'[n][r].st = "running" =>
                    /\ Base(r) =< Number[agg'[n][r].tip]
                    /\ agg'[n][r].lastSeen => LastBlockOf(r) =< Number[agg'[n][r].tip]
    <2>1. CASE r = s
        BY <1>1, <1>2, <1>4, <1>5, <1>7, <2>1
    <2>2. CASE r # s
        BY <1>7, <2>2 DEF Entered
    <2> QED
        BY <2>1, <2>2
<1>11. ASSUME NEW b \in Blocks, <<n, b>> \in signed'
       PROVE  /\ SessionOf(Number[b]) \in Sessions
              /\ Base(SessionOf(Number[b])) =< Number[finalized[n]]
    BY <1>2, <1>9, <1>11 DEF Entered
<1>12. Entered(n)'
    BY <1>6, <1>10, <1>11 DEF Entered
<1> QED
    BY <1>5, <1>7, <1>9, <1>12

\* The client never drops a block, and imports none before its parent.
LEMMA NextImportedChains ==
    TypeOK /\ ImportedChains /\ [Next]_vars =>
        ImportedChains' /\ \A n \in Honest : imported[n] \subseteq imported'[n]
<1> SUFFICES ASSUME TypeOK, ImportedChains, [Next]_vars
             PROVE  ImportedChains' /\ \A n \in Honest : imported[n] \subseteq imported'[n]
    OBVIOUS
<1>1. CASE UNCHANGED imported
    BY <1>1 DEF ImportedChains
<1>2. ASSUME NEW m \in Honest, NEW c \in Blocks, ImportBlock(m, c)
      PROVE  ImportedChains' /\ \A n \in Honest : imported[n] \subseteq imported'[n]
    <2>1. /\ Ancestors[c] \ {c} \subseteq imported[m]
          /\ imported' = [imported EXCEPT ![m] = @ \cup {c}]
        BY <1>2 DEF ImportBlock
    <2>2. \A n \in Honest : imported'[n] = IF n = m THEN imported[m] \cup {c} ELSE imported[n]
        BY <2>1 DEF TypeOK
    <2> QED
        BY <2>1, <2>2 DEF ImportedChains
<1> QED
    BY <1>1, <1>2, OnlyImportImports

\* Steps that add no signature, finalise nothing and start nothing.
Quiet ==
    /\ UNCHANGED <<finalized, signed, order>>
    /\ \A n \in Honest : \A s \in Sessions :
          agg'[n][s] = agg[n][s] \/ agg'[n][s].st = "none"

LEMMA StepsOfTheWalk ==
    ASSUME TypeOK, [Next]_vars
    PROVE  \/ Quiet
           \/ \E n \in Honest, b \in Blocks : HandleJustification(n, b)
           \/ \E n \in Honest : StartSession(n)
           \/ \E n \in Honest, s \in Sessions : StartAggregator(n, s)
           \/ \E n \in Honest, s \in Sessions : \E d \in Data[s] : OrderedDatum(n, s, d)
<1>1. ASSUME NEW n \in Honest, NEW b \in Blocks, ImportBlock(n, b)
      PROVE  Quiet
    BY <1>1 DEF ImportBlock, Quiet
<1>2. ASSUME NEW n \in Honest, EnterSession(n)
      PROVE  Quiet
    BY <1>2 DEF EnterSession, Quiet
<1>3. ASSUME NEW n \in Honest, SkipSessionOnError(n) \/ EarlySkip(n) \/ EndSession(n)
      PROVE  Quiet
    BY <1>3 DEF SkipSessionOnError, EarlySkip, EndSession, Quiet
<1>4. ASSUME NEW n \in Honest, NEW s \in Sessions, ExitAggregator(n, s)
      PROVE  Quiet
    <2>1. agg' = [agg EXCEPT ![n][s] = NoAggregator] /\ UNCHANGED <<finalized, signed, order>>
        BY <1>4 DEF ExitAggregator
    <2>2. NoAggregator.st = "none"
        BY DEF NoAggregator
    <2> QED
        BY <2>1, <2>2 DEF TypeOK, Quiet
<1>5. ASSUME NEW n \in Honest, Crash(n)
      PROVE  Quiet
    <2>1. agg' = [agg EXCEPT ![n] = [s \in Sessions |-> NoAggregator]]
          /\ UNCHANGED <<finalized, signed, order>>
        BY <1>5 DEF Crash
    <2>2. NoAggregator.st = "none"
        BY DEF NoAggregator
    <2> QED
        BY <2>1, <2>2 DEF TypeOK, Quiet
<1>6. CASE UNCHANGED vars
    BY <1>6 DEF vars, Quiet
<1> QED
    BY <1>1, <1>2, <1>3, <1>4, <1>5, <1>6 DEF Next

\* What the steps that start something leave alone.
LEMMA StartsLeave ==
    ASSUME TypeOK, NEW n \in Honest,
           StartSession(n) \/ \E s \in Sessions : StartAggregator(n, s)
    PROVE  /\ UNCHANGED <<finalized, signed, order>>
           /\ \A m \in Honest : m # n => agg'[m] = agg[m]
BY DEF StartSession, StartAggregator, TypeOK

LEMMA NextEntered ==
    ASSUME ApiFails = {}, TypeOK, ImportedChains, KeyboxInv, EnteredInv, [Next]_vars
    PROVE  EnteredInv'
<1> SUFFICES ASSUME NEW n \in Honest
             PROVE  Entered(n)'
    BY DEF EnteredInv
<1>1. \A m \in Honest : Entered(m)
    BY DEF EnteredInv
<1>2. CASE Quiet
    BY <1>1, <1>2, EnteredKept DEF Quiet
<1>3. ASSUME NEW m \in Honest, NEW b \in Blocks, HandleJustification(m, b)
      PROVE  Entered(n)'
    BY <1>1, <1>3, EnteredKept DEF HandleJustification
<1>4. ASSUME NEW m \in Honest, StartSession(m)
      PROVE  Entered(n)'
    <2>1. CASE m = n
        BY <1>1, <1>4, <2>1, StartSessionEntered
    <2>2. CASE m # n
        BY <1>1, <1>4, <2>2, StartsLeave, EnteredKept
    <2> QED
        BY <2>1, <2>2
<1>5. ASSUME NEW m \in Honest, NEW s \in Sessions, StartAggregator(m, s)
      PROVE  Entered(n)'
    <2>1. CASE m = n
        BY <1>1, <1>5, <2>1, StartAggregatorEntered
    <2>2. CASE m # n
        BY <1>1, <1>5, <2>2, StartsLeave, EnteredKept
    <2> QED
        BY <2>1, <2>2
<1>6. ASSUME NEW m \in Honest, NEW s \in Sessions, NEW d \in Data[s], OrderedDatum(m, s, d)
      PROVE  Entered(n)'
    <2>1. CASE m = n
        BY <1>1, <1>6, <2>1, OrderedDatumEntered
    <2>2. CASE m # n
        <3>1. /\ \A b \in Blocks : <<n, b>> \in signed' => <<n, b>> \in signed
              /\ \A r \in Sessions : agg'[n][r] = agg[n][r]
            BY <1>1, <1>6, <2>2, OrderedDatumEntered
        <3> QED
            BY <1>1, <3>1, EnteredKept
    <2> QED
        BY <2>1, <2>2
<1> QED
    BY <1>2, <1>3, <1>4, <1>5, <1>6, StepsOfTheWalk

LEMMA SettledStays ==
    ASSUME TypeOK, [Next]_vars, NEW s \in Sessions, Settled(s)
    PROVE  Settled(s)'
<1>1. PICK n \in Honest : Base(s) =< Number[finalized[n]]
    BY DEF Settled
<1>2. Base(s) =< Number[finalized'[n]]
    BY <1>1, FinalityRises, BaseBounds
<1> QED
    BY <1>2 DEF Settled

LEMMA NextOrdered ==
    ASSUME TypeOK, ImportedChains, EnteredInv, OrderedInv, [Next]_vars
    PROVE  OrderedInv'
<1> SUFFICES ASSUME NEW s \in Sessions, order'[s] # <<>>
             PROVE  Settled(s)'
    BY DEF OrderedInv
<1>1. CASE order'[s] = order[s]
    BY <1>1, SettledStays DEF OrderedInv
<1>2. CASE order'[s] # order[s]
    <2>1. PICK n \in Honest, r \in Sessions : \E d \in Data[r] : OrderedDatum(n, r, d)
        BY <1>2, StepsOfTheWalk, StartsLeave DEF Quiet, HandleJustification
    <2>2. r = s
        BY <1>2, <2>1 DEF OrderedDatum, TypeOK
    <2>3. agg[n][s].st # "none"
        BY <2>1, <2>2 DEF OrderedDatum
    <2>4. Settled(s)
        BY <2>3 DEF EnteredInv, Entered, Settled
    <2> QED
        BY <2>4, SettledStays
<1> QED
    BY <1>1, <1>2

\* When the first node finalises what s is built on, nobody has taken part in
\* s, and the walk begins at that block.
LEMMA WalkBegins ==
    ASSUME TypeOK, EnteredInv, OrderedInv, NEW n \in Honest, NEW b \in Blocks,
           HandleJustification(n, b), NEW s \in Sessions, ~Settled(s), Settled(s)'
    PROVE  /\ order'[s] = <<>>
           /\ \E w \in Walks(s, <<>>) : \A m \in Honest : Follows(m, s, <<>>, w)'
<1> DEFINE c == CurrentSession(n)
           w == [k \in 0..0 |-> b]
<1>1. /\ Number[b] > Number[finalized[n]] /\ Number[b] =< LastBlockOf(c)
      /\ finalized' = [finalized EXCEPT ![n] = b]
      /\ UNCHANGED <<agg, signed, order>>
    BY DEF HandleJustification
<1>2. \A m \in Honest : /\ ~(Base(s) =< Number[finalized[m]])
                        /\ m # n => finalized'[m] = finalized[m]
                        /\ m = n => finalized'[m] = b
    BY <1>1 DEF Settled, TypeOK
<1>3. /\ Base(s) =< Number[b] /\ Number[b] \in Nat /\ Base(s) \in Nat
      /\ Number[finalized[n]] \in Nat /\ c \in Nat /\ LastBlockOf(c) \in Nat
      /\ s \in Nat /\ LastBlockOf(s) \in Nat /\ Base(s) =< LastBlockOf(s)
    <2>1. PICK m \in Honest : Base(s) =< Number[finalized'[m]]
        BY DEF Settled
    <2>2. Base(s) =< Number[b]
        BY <1>2, <2>1
    <2> QED
        BY <2>2, CurrentSessionBounds, LastBlockMonotone, Numbers, BaseBounds
<1>4. Number[b] = Base(s)
    <2>1. Number[finalized[n]] < Base(s)
        BY <1>2, <1>3
    <2>2. s # 0 /\ s - 1 \in Nat /\ Base(s) = LastBlockOf(s - 1)
        BY <1>3, <2>1 DEF Base
    <2>3. c =< s - 1
        BY <2>1, <2>2, CurrentSessionBounds
    <2>4. LastBlockOf(c) =< LastBlockOf(s - 1)
        BY <1>3, <2>2, <2>3, LastBlockMonotone
    <2> QED
        BY <1>1, <1>3, <2>2, <2>4
<1>5. order'[s] = <<>> /\ Len(<<>>) = 0
    BY <1>1 DEF OrderedInv
<1>6. /\ w \in [0..0 -> Blocks] /\ w[0] = b /\ b \in Ancestors[b] /\ Number[b] =< LastBlockOf(s)
      /\ \A k \in 0..0 : k = 0
      /\ Capped(b, s) = b
    BY <1>3, <1>4, AncestorsType, CappedFacts
<1> HIDE DEF w
<1>7. w \in Walks(s, <<>>)
    BY <1>4, <1>5, <1>6 DEF Walks
<1>8. ASSUME NEW m \in Honest
      PROVE  Follows(m, s, <<>>, w)'
    <2>1. FinalOnWalk(m, s, <<>>, w)'
        <3>1. CASE m = n
            BY <1>2, <1>5, <1>6, <3>1 DEF FinalOnWalk
        <3>2. CASE m # n
            BY <1>2, <3>2 DEF FinalOnWalk
        <3> QED
            BY <3>1, <3>2
    <2>2. InStep(m, s, <<>>, w)'
        BY <1>1, <1>2 DEF EnteredInv, Entered, InStep
    <2>3. agg'[m][s].st # "running"
        BY <1>1, <1>2 DEF EnteredInv, Entered
    <2> QED
        BY <2>1, <2>2, <2>3 DEF Follows
<1> QED
    BY <1>5, <1>7, <1>8

LEMMA NextPosition ==
    ASSUME TypeOK, ImportedChains, EnteredInv, PositionInv, [Next]_vars
    PROVE  PositionInv'
<1> SUFFICES ASSUME NEW n \in Honest, NEW s \in Sessions, agg'[n][s].st = "running"
             PROVE  agg'[n][s].pos =< Len(order'[s])
    BY DEF PositionInv
<1>1. CASE agg'[n][s] = agg[n][s] /\ order'[s] = order[s]
    BY <1>1 DEF PositionInv
<1>2. ASSUME NEW m \in Honest, NEW r \in Sessions, NEW d \in Data[r], OrderedDatum(m, r, d)
      PROVE  agg'[n][s].pos =< Len(order'[s])
    <2> DEFINE old == agg[m][r]
    <2>1. /\ agg'[m][r].pos = old.pos + 1
          /\ agg'[n][s] = agg[n][s] \/ (m = n /\ r = s)
        <3>1. Entered(m) /\ Entered(n)
            BY DEF EnteredInv
        <3> QED
            BY <1>2, <3>1, OrderedDatumEntered
    <2>2. order[r] \in Seq(Datum) /\ d \in Datum
        BY Constants DEF TypeOK
    <2>3. old.pos \in Nat
        BY DEF TypeOK, Aggregator
    <2>6. /\ order'[r] = order[r] \/ order'[r] = Append(order[r], d)
          /\ old.pos < Len(order[r]) => order' = order
          /\ ~(old.pos < Len(order[r])) => order' = [order EXCEPT ![r] = Append(@, d)]
        BY <1>2 DEF OrderedDatum, TypeOK
    <2>7. old.st = "running" /\ old.pos =< Len(order[r])
        BY <1>2 DEF OrderedDatum, PositionInv
    <2>8. old.pos + 1 =< Len(order'[r])
        <3> DEFINE o == order[r]
        <3>1. o \in Seq(Datum) /\ Len(o) \in Nat
            BY <2>2
        <3>2. Len(Append(o, d)) = Len(o) + 1
            BY <2>2
        <3>3. CASE old.pos < Len(o)
            <4>1. order'[r] = o
                BY <1>2, <3>3 DEF OrderedDatum
            <4> HIDE DEF o
            <4> QED
                BY <2>3, <3>1, <3>3, <4>1
        <3>4. CASE ~(old.pos < Len(o))
            <4>1. order'[r] = Append(o, d)
                BY <1>2, <3>4 DEF OrderedDatum, TypeOK
            <4>2. old.pos = Len(o)
                BY <2>3, <2>7, <3>1, <3>4
            <4> HIDE DEF o
            <4> QED
                BY <2>3, <3>1, <3>2, <4>1, <4>2
        <3> QED
            BY <3>3, <3>4
    <2>9. CASE m = n /\ r = s
        BY <2>1, <2>8, <2>9
    <2>10. CASE m = n /\ r # s
        <3>1. order'[s] = order[s]
            BY <1>2, <2>10 DEF OrderedDatum, TypeOK
        <3> QED
            BY <1>1, <2>1, <2>10, <3>1
    <2>11. CASE m # n
        <3>1. agg'[n][s] = agg[n][s]
            BY <2>1, <2>11
        <3>2. agg[n][s].pos =< Len(order[s]) /\ agg[n][s].pos \in Nat /\ order[s] \in Seq(Datum)
            BY <3>1 DEF PositionInv, TypeOK, Aggregator
        <3>3. order'[s] = order[s] \/ order'[s] = Append(order[s], d)
            BY <1>2 DEF OrderedDatum, TypeOK
        <3>4. Len(order[s]) =< Len(order'[s]) /\ Len(order[s]) \in Nat /\ Len(order'[s]) \in Nat
            BY <2>2, <3>2, <3>3
        <3> QED
            BY <3>1, <3>2, <3>4
    <2> QED
        BY <2>9, <2>10, <2>11
<1>3. ASSUME NEW m \in Honest, NEW r \in Sessions, StartAggregator(m, r)
      PROVE  agg'[n][s].pos =< Len(order'[s])
    <2> DEFINE new == [agg[m][r] EXCEPT !.st = "running", !.tip = finalized[m]]
    <2>1. new.pos = 0
        <3>1. agg[m][r].pos = 0 /\ agg[m][r] \in Aggregator
            BY <1>3 DEF StartAggregator, EnteredInv, Entered, TypeOK
        <3> QED
            BY <3>1 DEF Aggregator
    <2>2. agg' = [agg EXCEPT ![m][r] = new] /\ UNCHANGED order
        BY <1>3 DEF StartAggregator
    <2> HIDE DEF new
    <2>3. agg'[n][s] = agg[n][s] \/ agg'[n][s] = new
        BY <2>2 DEF TypeOK
    <2>4. Len(order[s]) \in Nat
        BY DEF TypeOK
    <2> QED
        BY <1>1, <2>1, <2>2, <2>3, <2>4
<1>4. ASSUME NEW m \in Honest, StartSession(m)
      PROVE  agg'[n][s].pos =< Len(order'[s])
    <2> DEFINE new == [NoAggregator EXCEPT !.st = "spawned"]
    <2>1. (agg' = agg \/ agg' = [agg EXCEPT ![m][sess[m]] = new]) /\ UNCHANGED order
        BY <1>4 DEF StartSession
    <2>2. new.st = "spawned"
        BY DEF NoAggregator
    <2> HIDE DEF new
    <2>3. agg'[n][s] = agg[n][s] \/ agg'[n][s] = new
        BY <2>1 DEF TypeOK
    <2> QED
        BY <1>1, <2>1, <2>2, <2>3
<1> QED
    BY <1>1, <1>2, <1>3, <1>4, StepsOfTheWalk DEF Quiet, HandleJustification

\* The order after an ordered datum, and its place in it.
LEMMA OrderWithDatum ==
    ASSUME TypeOK, PositionInv,
           NEW n \in Honest, NEW s \in Sessions, NEW d \in Data[s], OrderedDatum(n, s, d)
    PROVE  /\ order'[s] = order[s] \/ order'[s] = Append(order[s], d)
           /\ order'[s] \in Seq(Datum) /\ d \in Datum
           /\ agg[n][s].pos + 1 =< Len(order'[s])
           /\ order'[s][agg[n][s].pos + 1] = d
<1> DEFINE pos == agg[n][s].pos
           o == order[s]
<1>1. o \in Seq(Datum) /\ Len(o) \in Nat /\ pos \in Nat /\ d \in Datum /\ pos =< Len(o)
    <2>1. agg[n][s] \in Aggregator /\ d \in Datum /\ agg[n][s].st = "running"
        BY Constants DEF TypeOK, OrderedDatum
    <2>2. pos \in Nat
        BY <2>1 DEF Aggregator
    <2> QED
        BY <2>1, <2>2 DEF PositionInv, TypeOK
<1>2. CASE pos < Len(o)
    <2>1. order'[s] = o /\ d = o[pos + 1]
        BY <1>2 DEF OrderedDatum, NextDatum
    <2> HIDE DEF o, pos
    <2> QED
        BY <1>1, <1>2, <2>1 DEF o, pos
<1>3. CASE ~(pos < Len(o))
    <2>1. order'[s] = Append(o, d)
        BY <1>3 DEF OrderedDatum, TypeOK
    <2> HIDE DEF o
    <2>2. /\ Append(o, d) \in Seq(Datum) /\ Len(Append(o, d)) = Len(o) + 1
          /\ Append(o, d)[Len(o) + 1] = d
        BY <1>1
    <2>3. pos = Len(o)
        BY <1>1, <1>3
    <2> QED
        BY <1>1, <2>1, <2>2, <2>3 DEF o
<1> QED
    BY <1>2, <1>3

LEMMA OrderedDatumWalk ==
    ASSUME TypeOK, ClientInv, ImportedChains, NoDoubleSigning, EnteredInv, PositionInv, WalkInv,
           [Next]_vars, NEW n \in Honest, NEW r \in Sessions, NEW d \in Data[r],
           OrderedDatum(n, r, d)
    PROVE  WalkInv' /\ NoDoubleSigning'
<1>1. /\ \A m \in Honest : Entered(m)
      /\ UNCHANGED <<finalized, imported>>
      /\ \A s \in Sessions : s # r => order'[s] = order[s]
    BY DEF EnteredInv, OrderedDatum, TypeOK
<1>2. /\ \A m \in Honest : \A b \in Blocks : <<m, b>> \in signed' =>
            <<m, b>> \in signed \/ (m = n /\ SessionOf(Number[b]) = r)
      /\ \A m \in Honest : \A s \in Sessions : agg'[m][s] = agg[m][s] \/ (m = n /\ s = r)
    BY <1>1, OrderedDatumEntered
<1>3. ASSUME NEW m \in Honest, NEW s \in Sessions, m # n \/ s # r,
             NEW o \in Seq(Datum), NEW w \in Walks(s, o), Follows(m, s, o, w)
      PROVE  Follows(m, s, o, w)'
    BY <1>1, <1>2, <1>3, FollowsKept
<1>4. TypeOK'
    BY NextType
<1>5. PICK p \in Seq(Datum) : order'[r] = p
    BY <1>4 DEF TypeOK
<1>6. Settled(r)
    <2>1. agg[n][r].st # "none"
        BY DEF OrderedDatum
    <2> QED
        BY <1>1, <2>1 DEF Entered, Settled
<1>7. PICK o \in Seq(Datum) : order[r] = o
    BY DEF TypeOK
<1>8. PICK v \in Walks(r, o) : \A m \in Honest : Follows(m, r, o, v)
    BY <1>6, <1>7 DEF WalkInv
<1>9. /\ d \in Datum /\ (p = o \/ p = Append(o, d))
      /\ agg[n][r].pos + 1 =< Len(p) /\ p[agg[n][r].pos + 1] = d
    BY <1>5, <1>7, OrderWithDatum
<1>10. PICK w \in Walks(r, p) : \A m \in Honest : Follows(m, r, p, w)
    <2>1. CASE p = o
        BY <1>8, <2>1
    <2>2. CASE p = Append(o, d)
        <3>1. /\ Longer(v, r, o, d) \in Walks(r, p)
              /\ \A m \in Honest : Follows(m, r, p, Longer(v, r, o, d))
            BY <1>8, <1>9, <2>2, WalkIsLonger, FollowsLonger
        <3> QED
            BY <3>1
    <2> QED
        BY <1>9, <2>1, <2>2
<1>11. /\ Follows(n, r, p, w)'
       /\ \A b, c \in Blocks :
             /\ <<n, b>> \in signed' /\ <<n, c>> \in signed'
             /\ SessionOf(Number[b]) = r /\ SessionOf(Number[c]) = r
             => Comparable(b, c)
    BY <1>1, <1>9, <1>10, OrderedDatumFollows
<1>12. WalkInv'
    <2> SUFFICES ASSUME NEW s \in Sessions, NEW q \in Seq(Datum), order'[s] = q, Settled(s)'
                 PROVE  \E x \in Walks(s, q) : \A m \in Honest : Follows(m, s, q, x)'
        BY DEF WalkInv
    <2>1. CASE s = r
        <3>1. \A m \in Honest : Follows(m, r, p, w)'
            BY <1>3, <1>10, <1>11
        <3> QED
            BY <1>5, <2>1, <3>1
    <2>2. CASE s # r
        <3>1. order[s] = q /\ Settled(s)
            BY <1>1, <2>2 DEF Settled
        <3>2. PICK x \in Walks(s, q) : \A m \in Honest : Follows(m, s, q, x)
            BY <3>1 DEF WalkInv
        <3>3. \A m \in Honest : Follows(m, s, q, x)'
            BY <1>3, <2>2, <3>2
        <3> QED
            BY <3>3
    <2> QED
        BY <2>1, <2>2
<1>13. NoDoubleSigning'
    <2> SUFFICES ASSUME NEW m \in Honest, NEW b \in Blocks, NEW c \in Blocks,
                        <<m, b>> \in signed', <<m, c>> \in signed',
                        SessionOf(Number[b]) = SessionOf(Number[c])
                 PROVE  Comparable(b, c)
        <3>1. \A v1 \in signed' : v1 = <<v1[1], v1[2]>> /\ v1[1] \in Honest /\ v1[2] \in Blocks
            BY <1>4 DEF TypeOK
        <3> QED
            BY <3>1 DEF NoDoubleSigning
    <2>1. CASE m = n /\ SessionOf(Number[b]) = r
        BY <1>11, <2>1
    <2>2. CASE ~(m = n /\ SessionOf(Number[b]) = r)
        <3>1. <<m, b>> \in signed /\ <<m, c>> \in signed
            BY <1>2, <2>2
        <3> QED
            BY <3>1 DEF NoDoubleSigning
    <2> QED
        BY <2>1, <2>2
<1> QED
    BY <1>12, <1>13

LEMMA NextWalk ==
    ASSUME TypeOK, KeyInv, CertInv, ClientInv, ImportedChains, NoDoubleSigning, FinalityAgreement,
           EnteredInv, OrderedInv, PositionInv, WalkInv, [Next]_vars
    PROVE  WalkInv' /\ NoDoubleSigning'
<1>1. \A m \in Honest : Entered(m) /\ imported[m] \subseteq imported'[m]
    BY NextImportedChains DEF EnteredInv
<1>2. ASSUME NEW n \in Honest, NEW r \in Sessions, NEW d \in Data[r], OrderedDatum(n, r, d)
      PROVE  WalkInv' /\ NoDoubleSigning'
    BY <1>2, OrderedDatumWalk
<1>3. ASSUME UNCHANGED <<signed, order>>,
             \A s \in Sessions, o \in Seq(Datum) : \A w \in Walks(s, o) :
                 Settled(s) /\ (\A m \in Honest : Follows(m, s, o, w)) =>
                     \A m \in Honest : Follows(m, s, o, w)',
             \/ UNCHANGED finalized
             \/ \E n \in Honest, b \in Blocks : HandleJustification(n, b)
      PROVE  WalkInv' /\ NoDoubleSigning'
    <2>1. NoDoubleSigning'
        BY <1>3 DEF NoDoubleSigning
    <2> SUFFICES ASSUME NEW s \in Sessions, NEW o \in Seq(Datum), order'[s] = o, Settled(s)'
                 PROVE  \E w \in Walks(s, o) : \A m \in Honest : Follows(m, s, o, w)'
        BY <2>1 DEF WalkInv
    <2>2. CASE Settled(s)
        <3>1. PICK w \in Walks(s, o) : \A m \in Honest : Follows(m, s, o, w)
            BY <1>3, <2>2 DEF WalkInv
        <3>2. \A m \in Honest : Follows(m, s, o, w)'
            BY <1>3, <2>2, <3>1
        <3> QED
            BY <3>2
    <2>3. CASE ~Settled(s)
        <3>1. PICK n \in Honest, b \in Blocks : HandleJustification(n, b)
            BY <1>3, <2>3 DEF Settled
        <3>2. order'[s] = <<>> /\ \E w \in Walks(s, <<>>) : \A m \in Honest : Follows(m, s, <<>>, w)'
            BY <2>3, <3>1, WalkBegins
        <3> QED
            BY <3>2
    <2> QED
        BY <2>2, <2>3
<1>4. CASE Quiet
    <2>1. \A s \in Sessions, o \in Seq(Datum) : \A w \in Walks(s, o) : \A m \in Honest :
              Follows(m, s, o, w) => Follows(m, s, o, w)'
        BY <1>1, <1>4, FollowsKept DEF Quiet
    <2> QED
        BY <1>3, <1>4, <2>1 DEF Quiet
<1>5. ASSUME NEW n \in Honest, StartSession(n) \/ \E r \in Sessions : StartAggregator(n, r)
      PROVE  WalkInv' /\ NoDoubleSigning'
    <2>1. UNCHANGED <<finalized, signed, order>> /\ \A m \in Honest : m # n => agg'[m] = agg[m]
        BY <1>5, StartsLeave
    <2>2. ASSUME NEW s \in Sessions, NEW o \in Seq(Datum), NEW w \in Walks(s, o),
                 NEW m \in Honest, Follows(m, s, o, w)
          PROVE  Follows(m, s, o, w)'
        <3>1. CASE m = n
            BY <1>1, <1>5, <2>2, <3>1, StartSessionFollows, StartAggregatorFollows
        <3>2. CASE m # n
            BY <1>1, <2>1, <2>2, <3>2, FollowsKept
        <3> QED
            BY <3>1, <3>2
    <2> QED
        BY <1>3, <2>1, <2>2
<1>6. ASSUME NEW n \in Honest, NEW b \in Blocks, HandleJustification(n, b)
      PROVE  WalkInv' /\ NoDoubleSigning'
    <2>1. /\ UNCHANGED <<imported, agg, signed, order>>
          /\ \A m \in Honest : m # n => finalized'[m] = finalized[m]
        BY <1>6 DEF HandleJustification, TypeOK
    <2>2. ASSUME NEW s \in Sessions, NEW o \in Seq(Datum), NEW w \in Walks(s, o), Settled(s),
                 \A m \in Honest : Follows(m, s, o, w), NEW m \in Honest
          PROVE  Follows(m, s, o, w)'
        <3>1. CASE m = n
            BY <1>6, <2>2, <3>1, HandleJustificationFollows
        <3>2. CASE m # n
            BY <1>1, <2>1, <2>2, <3>2, FollowsKept
        <3> QED
            BY <3>1, <3>2
    <2> QED
        BY <1>3, <1>6, <2>1, <2>2
<1> QED
    BY <1>2, <1>4, <1>5, <1>6, StepsOfTheWalk

LEMMA InitWalk ==
    ASSUME Init
    PROVE  /\ ClientInv /\ ImportedChains /\ NoDoubleSigning /\ EnteredInv
           /\ OrderedInv /\ PositionInv /\ WalkInv
<1>1. TypeOK
    BY InitType
<1>2. /\ \A n \in Honest : /\ finalized[n] = Genesis /\ imported[n] = InitiallyImported
                           /\ \A s \in Sessions : agg[n][s].st = "none"
      /\ signed = {} /\ \A s \in Sessions : order[s] = <<>>
      /\ Genesis \in Blocks /\ Number[Genesis] = 0
    BY GenesisAssumption DEF Init, NoAggregator
<1>3. ClientInv /\ ImportedChains
    BY <1>2, ParameterAssumption DEF ClientInv, ImportedChains
<1>4. NoDoubleSigning /\ EnteredInv /\ OrderedInv /\ PositionInv
    BY <1>2 DEF NoDoubleSigning, EnteredInv, Entered, OrderedInv, PositionInv
<1>5. WalkInv
    <2> SUFFICES ASSUME NEW s \in Sessions, Settled(s)
                 PROVE  \E w \in Walks(s, <<>>) : \A n \in Honest : Follows(n, s, <<>>, w)
        BY <1>2 DEF WalkInv
    <2> DEFINE w == [k \in 0..0 |-> Genesis]
    <2>1. Base(s) = 0 /\ LastBlockOf(s) \in Nat
        BY <1>2, BaseBounds DEF Settled
    <2>2. /\ w \in [0..0 -> Blocks] /\ w[0] = Genesis /\ Genesis \in Ancestors[Genesis]
          /\ Number[Genesis] =< LastBlockOf(s) /\ Len(<<>>) = 0
          /\ \A k \in 0..0 : k = 0
          /\ Capped(Genesis, s) = Genesis
        BY <1>2, <2>1, AncestorsType, CappedFacts
    <2> HIDE DEF w
    <2>3. w \in Walks(s, <<>>)
        BY <1>2, <2>1, <2>2 DEF Walks
    <2>4. ASSUME NEW n \in Honest
          PROVE  Follows(n, s, <<>>, w)
        <3>1. FinalOnWalk(n, s, <<>>, w)
            BY <1>2, <2>2 DEF FinalOnWalk
        <3>2. InStep(n, s, <<>>, w) /\ agg[n][s].st = "none"
            BY <1>2 DEF InStep
        <3> QED
            BY <3>1, <3>2 DEF Follows
    <2> QED
        BY <2>3, <2>4
<1> QED
    BY <1>3, <1>4, <1>5
----------------------------------------------------------------------------
(* Agreement *)

LEMMA InitAgreement == Init => FinalityAgreement
<1> SUFFICES ASSUME Init, NEW m \in Honest, NEW n \in Honest
             PROVE  Comparable(finalized[m], finalized[n])
    BY DEF FinalityAgreement
<1>1. finalized[m] = Genesis /\ finalized[n] = Genesis /\ Genesis \in Blocks
    BY Constants DEF Init
<1> QED
    BY <1>1, AncestorsType DEF Comparable

\* A handler moves to a descendant of its block that is on one chain with what
\* every other node has finalised.
LEMMA NextAgreement ==
    TypeOK /\ KeyInv /\ CertInv /\ NoDoubleSigning /\ FinalityAgreement /\ [Next]_vars
        => FinalityAgreement' /\ [F!Next]_finalized
<1> SUFFICES ASSUME TypeOK, KeyInv, CertInv, NoDoubleSigning, FinalityAgreement, [Next]_vars
             PROVE  FinalityAgreement' /\ [F!Next]_finalized
    OBVIOUS
<1>1. CASE UNCHANGED finalized
    BY <1>1 DEF FinalityAgreement
<1>2. ASSUME NEW n \in Honest, NEW b \in Blocks, HandleJustification(n, b)
      PROVE  FinalityAgreement' /\ F!Finalize(n, b)
    <2>1. /\ Number[b] > Number[finalized[n]] /\ finalized[n] \in Ancestors[b]
          /\ finalized' = [finalized EXCEPT ![n] = b]
        BY <1>2 DEF HandleJustification
    <2>2. \A k \in Honest : finalized'[k] = IF k = n THEN b ELSE finalized[k]
        BY <2>1 DEF TypeOK
    <2>3. \A m \in Honest : Comparable(finalized[m], b) /\ Comparable(b, finalized[m])
        BY <1>2, HandlersAgree DEF Comparable
    <2>4. Comparable(b, b)
        BY AncestorsType DEF Comparable
    <2>5. FinalityAgreement'
        BY <2>2, <2>3, <2>4 DEF FinalityAgreement
    <2>6. b # finalized[n]
        BY <2>1, Constants
    <2>7. F!Finalize(n, b)
        BY <2>1, <2>3, <2>6 DEF F!Finalize, F!Comparable, Comparable
    <2> QED
        BY <2>5, <2>7
<1> QED
    BY <1>1, <1>2, OnlyHandlerFinalizes DEF F!Next

\* Where no runtime call fails, with any number of restarts: the walks, the
\* signatures and what is final keep each other in order, so none of the three
\* is an invariant without the others.
RestartInv ==
    /\ EnteredInv /\ OrderedInv /\ PositionInv /\ WalkInv
    /\ NoDoubleSigning /\ FinalityAgreement

LEMMA RestartInductive == ApiFails = {} => (Spec => []RestartInv)
<1> SUFFICES ASSUME ApiFails = {}
             PROVE  Spec => []RestartInv
    OBVIOUS
<1>1. Init => ClientInv /\ ImportedChains /\ RestartInv
    BY InitWalk, InitAgreement DEF RestartInv
<1>2. TypeOK /\ KeyInv /\ CertInv /\ ClientInv /\ ImportedChains /\ KeyboxInv /\ RestartInv
          /\ [Next]_vars => RestartInv'
    BY NextEntered, NextOrdered, NextPosition, NextWalk, NextAgreement DEF RestartInv
<1>3. TypeOK /\ ImportedChains /\ [Next]_vars => ImportedChains'
    BY NextImportedChains
<1> QED
    BY <1>1, <1>2, <1>3, InitType, NextType, InitKeyInv, NextKeyInv, InitCertInv, NextCertInv,
       NextClient, KeyboxInductive, PTL DEF Spec

\* No honest node ever signs two conflicting blocks of one session, whatever
\* order and data AlephBFT gives, if none restarts, whatever calls fail, or if
\* no call fails, however often nodes restart.
THEOREM SignsOneChain == MaxCrashes = 0 \/ ApiFails = {} => (Spec => []NoDoubleSigning)
<1>1. ASSUME MaxCrashes = 0
      PROVE  Spec => []NoDoubleSigning
    <2>1. TypeOK /\ SigningInv => NoDoubleSigning
        <3> SUFFICES ASSUME TypeOK, SigningInv, NEW v \in signed, NEW w \in signed,
                            v[1] = w[1], SessionOf(Number[v[2]]) = SessionOf(Number[w[2]])
                     PROVE  Comparable(v[2], w[2])
            BY DEF NoDoubleSigning
        <3>1. /\ v = <<v[1], v[2]>> /\ w = <<w[1], w[2]>>
              /\ v[1] \in Honest /\ v[2] \in Blocks /\ w[2] \in Blocks
            BY DEF TypeOK
        <3> QED
            BY <3>1 DEF SigningInv, SigningInvAt, OneChainPerSession
    <2>2. TypeOK /\ SigningInv /\ [Next]_vars => SigningInv'
        BY <1>1, NextSigningInv
    <2> QED
        BY <2>1, <2>2, InitType, NextType, InitSigningInv, PTL DEF Spec
<1>2. ASSUME ApiFails = {}
      PROVE  Spec => []NoDoubleSigning
    <2>1. RestartInv => NoDoubleSigning
        BY DEF RestartInv
    <2> QED
        BY <1>2, <2>1, RestartInductive, PTL
<1> QED
    BY <1>1, <1>2

\* No two honest nodes ever finalise conflicting blocks, for every block tree
\* and committee, whatever AlephBFT orders in a session, with any third less
\* one of each committee faulty: if none restarts or if no runtime call fails.
THEOREM Agreement == MaxCrashes = 0 \/ ApiFails = {} => (Spec => []FinalityAgreement)
<1> SUFFICES ASSUME MaxCrashes = 0 \/ ApiFails = {}
             PROVE  Spec => []FinalityAgreement
    OBVIOUS
<1>1. Spec => []NoDoubleSigning
    BY SignsOneChain
<1> QED
    BY <1>1, InitAgreement, NextAgreement, InitType, NextType, InitKeyInv, NextKeyInv,
       InitCertInv, NextCertInv, PTL DEF Spec

\* Under the same hypotheses the gadget implements the abstract specification.
THEOREM Refinement == MaxCrashes = 0 \/ ApiFails = {} => (Spec => ImplementsFinality)
<1> SUFFICES ASSUME MaxCrashes = 0 \/ ApiFails = {}
             PROVE  Spec => ImplementsFinality
    OBVIOUS
<1>1. Init => F!Init
    BY DEF Init, F!Init
<1>2. Spec => []NoDoubleSigning /\ []FinalityAgreement
    BY SignsOneChain, Agreement, PTL
<1> QED
    BY <1>1, <1>2, NextAgreement, InitType, NextType, InitKeyInv, NextKeyInv, InitCertInv,
       NextCertInv, PTL DEF Spec, ImplementsFinality, F!Spec

\* Where no runtime call fails the SessionMaps of all nodes agree, with
\* restarts: what a node knows of a session is the committee on its finalised
\* chain (KeyInv), since its party is never ahead of its handler (KeyboxInv),
\* and finalised chains agree.
THEOREM CommitteesAgree == ApiFails = {} => (Spec => []CommitteeAgreement)
<1> SUFFICES ASSUME ApiFails = {}
             PROVE  Spec => []CommitteeAgreement
    OBVIOUS
<1>1. TypeOK /\ KeyInv /\ KeyboxInv /\ FinalityAgreement => CommitteeAgreement
    <2> SUFFICES ASSUME TypeOK, KeyInv, KeyboxInv, FinalityAgreement,
                        NEW m \in Honest, NEW n \in Honest, NEW s \in Sessions,
                        known[m][s] # {}, known[n][s] # {}
                 PROVE  known[m][s] = known[n][s]
        BY DEF CommitteeAgreement
    <2>1. ASSUME NEW k \in Honest, known[k][s] # {}
          PROVE  /\ known[k][s] = CommitteeOn(finalized[k], s)
                 /\ s = 0 \/ LastBlockOf(s - 1) =< Number[finalized[k]]
                 /\ finalized[k] \in Blocks
        <3>1. s \in Nat /\ sess[k] \in Nat /\ CurrentSession(k) \in Nat /\ s =< sess[k]
            <4>1. s \in Nat /\ sess[k] \in Nat /\ CurrentSession(k) \in Nat
                BY Numbers, CurrentSessionBounds DEF TypeOK
            <4>2. ~ (s > sess[k])
                BY <2>1 DEF KeyInv
            <4> QED
                BY <4>1, <4>2
        <3>2. sess[k] =< CurrentSession(k)
            BY DEF KeyboxInv, KeyboxAt, Reliable
        <3>3. s =< CurrentSession(k)
            BY <3>1, <3>2
        <3>4. s # 0 => s - 1 \in Nat /\ CurrentSession(k) > s - 1
            BY <3>1, <3>3
        <3> QED
            BY <2>1, <3>3, <3>4, CurrentSessionBounds DEF KeyInv
    <2>2. /\ known[m][s] = CommitteeOn(finalized[m], s)
          /\ known[n][s] = CommitteeOn(finalized[n], s)
          /\ s = 0 \/ LastBlockOf(s - 1) =< Number[finalized[m]]
          /\ s = 0 \/ LastBlockOf(s - 1) =< Number[finalized[n]]
          /\ finalized[m] \in Blocks /\ finalized[n] \in Blocks /\ s \in Nat
        BY <2>1, Numbers
    <2>3. CASE finalized[m] \in Ancestors[finalized[n]]
        BY <2>2, <2>3, CommitteeOnExtension
    <2>4. CASE finalized[n] \in Ancestors[finalized[m]]
        BY <2>2, <2>4, CommitteeOnExtension
    <2> QED
        BY <2>3, <2>4 DEF FinalityAgreement, Comparable
<1>2. Spec => []KeyInv
    BY InitType, NextType, InitKeyInv, NextKeyInv, PTL DEF Spec
<1> QED
    BY <1>1, <1>2, TypeCorrect, KeyboxInductive, Agreement, PTL

\* Where no runtime call fails, two honest nodes sign conflicting blocks of one
\* session only if one of them has finalised beyond it: until then what a node
\* has signed is on the one walk of the session.
THEOREM ConflictOnlyWhenLate ==
    ApiFails = {} => (Spec => []ConflictingSignaturesOnlyWhenLate)
<1> SUFFICES ASSUME ApiFails = {}
             PROVE  Spec => []ConflictingSignaturesOnlyWhenLate
    OBVIOUS
<1>1. TypeOK /\ RestartInv => ConflictingSignaturesOnlyWhenLate
    <2> SUFFICES ASSUME TypeOK, RestartInv
                 PROVE  ConflictingSignaturesOnlyWhenLate
        OBVIOUS
    <2> SUFFICES ASSUME NEW m \in Honest, NEW n \in Honest,
                        NEW b \in Blocks, NEW c \in Blocks,
                        <<m, b>> \in signed, <<n, c>> \in signed,
                        SessionOf(Number[b]) = SessionOf(Number[c]),
                        ~(Number[finalized[m]] > LastBlockOf(SessionOf(Number[b]))),
                        ~(Number[finalized[n]] > LastBlockOf(SessionOf(Number[b])))
                 PROVE  Comparable(b, c)
        <3>1. \A v \in signed : v = <<v[1], v[2]>> /\ v[1] \in Honest /\ v[2] \in Blocks
            <4> SUFFICES ASSUME NEW v \in signed
                         PROVE  v = <<v[1], v[2]>> /\ v[1] \in Honest /\ v[2] \in Blocks
                OBVIOUS
            <4>1. v \in Honest \X Blocks
                BY DEF TypeOK
            <4> QED
                BY <4>1
        <3> QED
            BY <3>1 DEF ConflictingSignaturesOnlyWhenLate
    <2> DEFINE s == SessionOf(Number[b])
    <2>1. s \in Sessions /\ Settled(s)
        BY DEF RestartInv, EnteredInv, Entered, Settled
    <2>2. PICK o \in Seq(Datum) : order[s] = o
        BY <2>1 DEF TypeOK
    <2>3. PICK w \in Walks(s, o) : Follows(m, s, o, w) /\ Follows(n, s, o, w)
        BY <2>1, <2>2 DEF RestartInv, WalkInv
    <2>4. Number[finalized[m]] =< LastBlockOf(s) /\ Number[finalized[n]] =< LastBlockOf(s)
        <3>1. Number[finalized[m]] \in Nat /\ Number[finalized[n]] \in Nat
            BY Numbers DEF TypeOK
        <3>2. LastBlockOf(s) \in Nat
            BY <2>1, Numbers
        <3> QED
            BY <3>1, <3>2
    <2>5. InStep(m, s, o, w) /\ InStep(n, s, o, w)
        BY <2>3, <2>4 DEF Follows
    <2>6. PICK j, k \in 0..Len(o) : b \in Ancestors[w[j]] /\ c \in Ancestors[w[k]]
        BY <2>5 DEF InStep
    <2>7. w[Len(o)] \in Blocks /\ w[j] \in Ancestors[w[Len(o)]] /\ w[k] \in Ancestors[w[Len(o)]]
        <3>1. Len(o) \in 0..Len(o) /\ j =< Len(o) /\ k =< Len(o)
            OBVIOUS
        <3> QED
            BY <3>1 DEF Walks
    <2>8. b \in Ancestors[w[Len(o)]] /\ c \in Ancestors[w[Len(o)]]
        BY <2>6, <2>7, AncestorsTransitive
    <2> QED
        BY <2>7, <2>8, ChainComparable
<1> QED
    BY <1>1, TypeCorrect, RestartInductive, PTL
=============================================================================
