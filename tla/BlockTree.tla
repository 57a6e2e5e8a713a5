----------------------------- MODULE BlockTree -----------------------------
(***************************************************************************)
(* The block tree the finality gadget votes on, and its division into      *)
(* sessions of SessionPeriod blocks (SessionArithmetic).  Blocks           *)
(* are created by Aura and stored by Substrate's client: the tree itself   *)
(* is a parameter, and what a node knows of it is a set of imported        *)
(* blocks closed under ancestors.                                          *)
(***************************************************************************)
EXTENDS Integers, FiniteSets, SessionArithmetic

CONSTANTS Blocks,         \* every block anybody ever creates
          Genesis,        \* block 0
          Number,         \* Number[b] is the height of b
          Ancestors       \* Ancestors[b] is the chain from Genesis to b, b included

ASSUME GenesisAssumption ==
    /\ Genesis \in Blocks
    /\ Number \in [Blocks -> Nat]
    /\ \A b \in Blocks : Number[b] = 0 <=> b = Genesis
    /\ SessionPeriod \in Nat \ {0}

\* A chain holds exactly one block of every height up to its last block, and
\* the chain of each of them is the part of it that is not higher.
ASSUME ChainAssumption ==
    /\ Ancestors \in [Blocks -> SUBSET Blocks]
    /\ \A b \in Blocks : b \in Ancestors[b]
    /\ \A b \in Blocks : \A a \in Ancestors[b] :
          /\ Number[a] =< Number[b]
          /\ Ancestors[a] = {c \in Ancestors[b] : Number[c] =< Number[a]}
    /\ \A b \in Blocks : \A a, c \in Ancestors[b] : Number[a] = Number[c] => a = c
    /\ \A b \in Blocks : \A h \in 0..Number[b] : \E a \in Ancestors[b] : Number[a] = h

Comparable(a, b) == a \in Ancestors[b] \/ b \in Ancestors[a]

\* The block of height h on the chain that ends in b.
AncestorAt(b, h) == CHOOSE a \in Ancestors[b] : Number[a] = h

Parent(b) == AncestorAt(b, Number[b] - 1)

\* chain_extension_step: the headers after lastFinalized on the path to
\* data.hash, for a client that has imported the blocks in known; data is a
\* block hash with the number its proposer claims (AlephData).  The code
\* returns them lowest first; Number gives that order back.
ChainExtension(known, lastFinalized, data) ==
    IF /\ {lastFinalized, data.hash} \subseteq known
       /\ Number[data.hash] = data.number
       /\ lastFinalized \in Ancestors[data.hash]
    THEN {b \in Ancestors[data.hash] : Number[b] > Number[lastFinalized]}
    ELSE {}
=============================================================================
