------------------------- MODULE ChainExtensionStep -------------------------
(***************************************************************************)
(* chain_extension_step of finality-aleph/src/finalization.rs, step by     *)
(* step: from the ordered block it walks to its parent and its parent's    *)
(* parent until it meets the last finalised block or passes it by.  The    *)
(* other modules use the operator ChainExtension instead; this module      *)
(* shows that the walk computes it, in the order of the chain.             *)
(***************************************************************************)
EXTENDS BlockTree, Sequences

CONSTANT Data   \* the ordered blocks: records [hash, number]

ASSUME DataAssumption == Data \subseteq [hash : Blocks, number : Nat]

VARIABLES known,          \* the blocks the client has headers of
          lastFinalized,  \* the arguments
          data,
          pc,             \* "start", "walk" or "done"
          hash,           \* the block the walk has reached
          extension       \* the headers found so far, then the result

args == <<known, lastFinalized, data>>
vars == <<args, pc, hash, extension>>

TypeOK ==
    /\ known \in SUBSET Blocks
    /\ lastFinalized \in Blocks
    /\ data \in Data
    /\ pc \in {"start", "walk", "done"}
    /\ hash \in Blocks
    /\ extension \in Seq(Blocks)

\* A client knows the ancestors of what it knows.
Init ==
    /\ known \in SUBSET Blocks
    /\ \A b \in known : Ancestors[b] \subseteq known
    /\ lastFinalized \in Blocks
    /\ data \in Data
    /\ pc = "start"
    /\ hash = data.hash
    /\ extension = <<>>

Return(result) ==
    /\ pc' = "done"
    /\ extension' = result
    /\ UNCHANGED <<args, hash>>

\* The checks before the loop.
Refuse ==
    /\ pc = "start"
    /\ \/ data.hash = lastFinalized
       \/ lastFinalized \notin known
       \/ data.hash \notin known
       \/ Number[data.hash] # data.number
    /\ Return(<<>>)

Begin ==
    /\ pc = "start"
    /\ data.hash # lastFinalized
    /\ {lastFinalized, data.hash} \subseteq known
    /\ Number[data.hash] = data.number
    /\ pc' = "walk"
    /\ UNCHANGED <<args, hash, extension>>

\* Mutants: push_back for push_front, and the block's number for its header.
WalkPushBack ==
    /\ pc = "walk"
    /\ hash \in known
    /\ Number[hash] > Number[lastFinalized]
    /\ hash' = Parent(hash)
    /\ extension' = Append(extension, hash)
    /\ UNCHANGED <<args, pc>>
WalkNumbers ==
    /\ pc = "walk"
    /\ hash \in known
    /\ Number[hash] > Number[lastFinalized]
    /\ hash' = Parent(hash)
    /\ extension' = <<Number[hash]>> \o extension
    /\ UNCHANGED <<args, pc>>

Walk ==
    /\ pc = "walk"
    /\ hash \in known
    /\ Number[hash] > Number[lastFinalized]
    /\ hash' = Parent(hash)
    /\ extension' = <<hash>> \o extension
    /\ UNCHANGED <<args, pc>>

\* Mutant: the loop ends at lastFinalized only.
StopAtLastFinalized ==
    /\ pc = "walk"
    /\ hash = lastFinalized
    /\ Return(extension)

\* No header, or one that is not higher than the last finalised block.
Stop ==
    /\ pc = "walk"
    /\ ~ (hash \in known /\ Number[hash] > Number[lastFinalized])
    /\ Return(IF hash \in known /\ hash = lastFinalized THEN extension ELSE <<>>)

Next == Refuse \/ Begin \/ Walk \/ Stop

Spec == Init /\ [][Next]_vars /\ WF_vars(Next)
----------------------------------------------------------------------------
(* Properties *)

\* The blocks from just above b up to c, on the chain of c, lowest first.
Path(b, c) == [i \in 1..(Number[c] - Number[b]) |-> AncestorAt(c, Number[b] + i)]

\* The call returns the headers after lastFinalized on the path to the ordered
\* block, lowest first, if there is such a path, and nothing otherwise.
ReturnsPath ==
    pc = "done" => extension =
        IF /\ {lastFinalized, data.hash} \subseteq known
           /\ Number[data.hash] = data.number
           /\ lastFinalized \in Ancestors[data.hash]
        THEN Path(lastFinalized, data.hash) ELSE <<>>

\* As a set, it is the ChainExtension that the aggregator is modelled with.
ReturnsChainExtension ==
    pc = "done" =>
        {extension[i] : i \in DOMAIN extension}
            = ChainExtension(known, lastFinalized, data)

\* The walk never leaves the known blocks: the error "No header" of the loop
\* cannot occur, since the client knows every ancestor of a block it knows.
NeverLost == pc = "walk" => hash \in known

\* The walk comes to an end.
Returns == <>(pc = "done")
=============================================================================
