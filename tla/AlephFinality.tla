--------------------------- MODULE AlephFinality ---------------------------
(***************************************************************************)
(* The finality gadget of a network of nodes.  Each honest node runs a     *)
(* consensus party that walks through the sessions (party.rs), in every    *)
(* session of whose committee it is a member an aggregator that signs the  *)
(* blocks AlephBFT orders (party.rs, aggregator.rs, finalization.rs), and  *)
(* one justification handler that finalises a block once two thirds of the *)
(* committee have signed it (justification.rs).                            *)
(*                                                                         *)
(* AlephBFT is external: in each session it outputs one sequence of data   *)
(* (order), the same at every honest node.  The network is external too:   *)
(* a justification of any block enough signatures exist for may reach any  *)
(* handler at any time, again, late or never, so messages are the set of   *)
(* signatures made so far.  A faulty node has signed everything.           *)
(***************************************************************************)
EXTENDS BlockTree, Sequences

CONSTANTS Honest, Faulty,     \* the nodes
          Data,               \* what may be ordered in each session
          GenesisCommittee,   \* authorities() at block 0
          NextAuthorities,    \* next_session_authorities() at each block
          PruneWindow,        \* 10 in party.rs
          ApiFails,           \* pairs <<n, s>> whose runtime call may fail
          InitiallyImported,  \* blocks every node has from the start
          MaxSession,         \* bound: sessions modelled
          MaxOrdered,         \* bound: data ordered in each session
          MaxCrashes          \* bound: restarts of honest nodes, in all

Nodes == Honest \cup Faulty
Sessions == 0..MaxSession

\* AlephData: the hash of a block with the number its proposer claims.
Datum == [hash : Blocks, number : Nat]

ASSUME ParameterAssumption ==
    /\ Honest \cap Faulty = {}
    /\ IsFiniteSet(Nodes)
    /\ Data \in [Sessions -> SUBSET Datum]
    /\ GenesisCommittee \in SUBSET Nodes
    /\ NextAuthorities \in [Blocks -> SUBSET Nodes]
    /\ PruneWindow \in Nat \ {0}
    /\ ApiFails \subseteq Honest \X Sessions
    /\ InitiallyImported \in SUBSET Blocks /\ Genesis \in InitiallyImported
    /\ \A b \in InitiallyImported : Ancestors[b] \subseteq InitiallyImported
    /\ MaxSession \in Nat /\ MaxOrdered \in [Sessions -> Nat] /\ MaxCrashes \in Nat

\* Less than a third of every committee is faulty.
ASSUME FaultAssumption ==
    \A C \in {GenesisCommittee} \cup {NextAuthorities[b] : b \in Blocks} :
        3 * Cardinality(C \cap Faulty) < Cardinality(C)

VARIABLES imported,    \* imported[n]: the blocks in n's client
          finalized,   \* finalized[n]: the client's finalised block
          sess, phase, \* the session n's party runs, and how far it is in it
          known,       \* known[n][s]: n's SessionMap; {} is no entry
          agg,         \* agg[n][s]: the aggregator of n's session s
          signed,      \* <<n, b>>: n has multicast its signature of b
          order,       \* order[s]: the output of AlephBFT in session s
          crashes      \* restarts so far

party == <<sess, phase, known>>
vars == <<imported, finalized, party, agg, signed, order, crashes>>

\* st: "none", "spawned" (run_aggregator not polled yet) or "running";
\* tip: its last_finalized; pos: data taken from AlephBFT; lastSeen: its
\* last_block_seen.
Aggregator == [st : {"none", "spawned", "running"}, tip : Blocks,
               pos : Nat, lastSeen : BOOLEAN]
NoAggregator == [st |-> "none", tip |-> Genesis, pos |-> 0, lastSeen |-> FALSE]

TypeOK ==
    /\ imported \in [Honest -> SUBSET Blocks]
    /\ finalized \in [Honest -> Blocks]
    /\ sess \in [Honest -> Sessions]
    /\ phase \in [Honest -> {"entering", "loaded", "running"}]
    /\ known \in [Honest -> [Sessions -> SUBSET Nodes]]
    /\ agg \in [Honest -> [Sessions -> Aggregator]]
    /\ signed \in SUBSET (Honest \X Blocks)
    /\ order \in [Sessions -> Seq(Datum)]
    /\ \A s \in Sessions : Len(order[s]) =< MaxOrdered[s]
    /\ crashes \in 0..MaxCrashes

Init ==
    /\ imported = [n \in Honest |-> InitiallyImported]
    /\ finalized = [n \in Honest |-> Genesis]
    /\ sess = [n \in Honest |-> 0]
    /\ phase = [n \in Honest |-> "entering"]
    /\ known = [n \in Honest |-> [s \in Sessions |-> {}]]
    /\ agg = [n \in Honest |-> [s \in Sessions |-> NoAggregator]]
    /\ signed = {}
    /\ order = [s \in Sessions |-> <<>>]
    /\ crashes = 0
----------------------------------------------------------------------------
(* The client *)

\* Block import, which needs the parent.
ImportBlock(n, b) ==
    /\ b \notin imported[n]
    /\ Ancestors[b] \ {b} \subseteq imported[n]
    /\ imported' = [imported EXCEPT ![n] = @ \cup {b}]
    /\ UNCHANGED <<finalized, party, agg, signed, order, crashes>>

\* The blocks that may head n's best chain.
BestBlocks(n) == {b \in imported[n] : finalized[n] \in Ancestors[b]}
----------------------------------------------------------------------------
(* The consensus party: run, run_session, prune_session_data *)

\* Mutant: an early skip advances the session counter twice.
NextSessionTwice(n, map) ==
    /\ sess[n] < MaxSession
    /\ sess' = [sess EXCEPT ![n] = @ + 2]
    /\ phase' = [phase EXCEPT ![n] = "entering"]
    /\ known' = [known EXCEPT ![n] = map]

\* Mutant: the map is pruned once, and never again.
NextSessionPrunedOnce(n, map) ==
    LET s == sess[n] IN
    /\ s < MaxSession
    /\ sess' = [sess EXCEPT ![n] = s + 1]
    /\ phase' = [phase EXCEPT ![n] = "entering"]
    /\ known' = [known EXCEPT ![n] =
          IF s = PruneWindow THEN [t \in Sessions |-> IF t >= s - PruneWindow THEN map[t] ELSE {}]
          ELSE map]

\* n's party goes from session sess[n] to the next one; map is its SessionMap.
NextSession(n, map) ==
    LET s == sess[n] IN
    /\ s < MaxSession
    /\ sess' = [sess EXCEPT ![n] = s + 1]
    /\ phase' = [phase EXCEPT ![n] = "entering"]
    /\ known' = [known EXCEPT ![n] =
          IF s >= PruneWindow /\ s % PruneWindow = 0
          THEN [t \in Sessions |-> IF t >= s - PruneWindow THEN map[t] ELSE {}]
          ELSE map]

\* The authorities of session s, which the runtime gives at the last block of
\* session s - 1 on the best chain; there is none if the chain is too short.
AuthoritiesFor(n, s) ==
    IF s = 0 THEN {GenesisCommittee}
    ELSE {NextAuthorities[AncestorAt(b, LastBlockOf(s - 1))] :
             b \in {c \in BestBlocks(n) : Number[c] >= LastBlockOf(s - 1)}}

EnterSession(n) ==
    /\ phase[n] = "entering"
    /\ \E C \in AuthoritiesFor(n, sess[n]) :
          known' = [known EXCEPT ![n][sess[n]] = C]
    /\ phase' = [phase EXCEPT ![n] = "loaded"]
    /\ UNCHANGED <<imported, finalized, sess, agg, signed, order, crashes>>

\* The runtime call fails: the session is left out, its authorities unknown.
SkipSessionOnError(n) ==
    /\ phase[n] = "entering"
    /\ sess[n] # 0
    /\ AuthoritiesFor(n, sess[n]) = {} \/ <<n, sess[n]>> \in ApiFails
    /\ NextSession(n, known[n])
    /\ UNCHANGED <<imported, finalized, agg, signed, order, crashes>>

\* Mutant: the last block need only be on the best chain.
EarlySkipOnImport(n) ==
    /\ phase[n] = "loaded"
    /\ \E b \in BestBlocks(n) : Number[b] >= LastBlockOf(sess[n])
    /\ NextSession(n, known[n])
    /\ UNCHANGED <<imported, finalized, agg, signed, order, crashes>>

\* The early skip: the last block of the session is final at one of the checks.
EarlySkip(n) ==
    /\ phase[n] = "loaded"
    /\ Number[finalized[n]] >= LastBlockOf(sess[n])
    /\ NextSession(n, known[n])
    /\ UNCHANGED <<imported, finalized, agg, signed, order, crashes>>

\* It was final at none of them: start_session and, for a member of the
\* committee, the spawn of the authority's tasks.  What may happen meanwhile
\* may as well happen before the aggregator's task first runs.
StartSession(n) ==
    /\ phase[n] = "loaded"
    /\ Number[finalized[n]] < LastBlockOf(sess[n])
    /\ phase' = [phase EXCEPT ![n] = "running"]
    /\ agg' = IF n \in known[n][sess[n]]
              THEN [agg EXCEPT ![n][sess[n]] = [NoAggregator EXCEPT !.st = "spawned"]]
              ELSE agg
    /\ UNCHANGED <<imported, finalized, sess, known, signed, order, crashes>>

\* Mutant: the session ends one block early.
EndSessionEarly(n) ==
    /\ phase[n] = "running"
    /\ Number[finalized[n]] + 1 >= LastBlockOf(sess[n])
    /\ NextSession(n, known[n])
    /\ UNCHANGED <<imported, finalized, agg, signed, order, crashes>>

EndSession(n) ==
    /\ phase[n] = "running"
    /\ Number[finalized[n]] >= LastBlockOf(sess[n])
    /\ NextSession(n, known[n])
    /\ UNCHANGED <<imported, finalized, agg, signed, order, crashes>>
----------------------------------------------------------------------------
(* The aggregator of session s: run_aggregator *)

\* Mutant: it starts from the genesis.
StartAggregatorAtGenesis(n, s) ==
    /\ agg[n][s].st = "spawned"
    /\ agg' = [agg EXCEPT ![n][s] = [@ EXCEPT !.st = "running"]]
    /\ UNCHANGED <<imported, finalized, party, signed, order, crashes>>

\* It starts from the block that is final when the task first runs, which
\* may be later than the session's start.
StartAggregator(n, s) ==
    /\ agg[n][s].st = "spawned"
    /\ agg' = [agg EXCEPT ![n][s] = [@ EXCEPT !.st = "running", !.tip = finalized[n]]]
    /\ UNCHANGED <<imported, finalized, party, signed, order, crashes>>

\* Mutant: no filter.
AvailableAlways(n, d) == TRUE

\* DataStore lets a unit through to AlephBFT when it has the block or the
\* block's claimed number is final (data_io.rs, module DataStore).
Available(n, d) == d.hash \in imported[n] \/ Number[finalized[n]] >= d.number

\* Mutant: every node, and every restart, has an order of its own.
OwnDatum(n, s) == IF agg[n][s].pos < MaxOrdered[s] THEN Data[s] ELSE {}

\* The datum at the aggregator's position in the order; the first node to get
\* there finds what AlephBFT ordered next.
NextDatum(n, s) ==
    LET pos == agg[n][s].pos IN
    IF pos < Len(order[s]) THEN {order[s][pos + 1]}
    ELSE IF pos < MaxOrdered[s] THEN Data[s] ELSE {}

\* Aggregation starts for every header up to the session's last block on the
\* path from the tip to the datum; reaching that block ends the work.
OrderedDatum(n, s, d) ==
    LET a == agg[n][s]
        extension == IF a.lastSeen THEN {} ELSE ChainExtension(imported[n], a.tip, d)
        adopted == {b \in extension : Number[b] =< LastBlockOf(s)}
        highest == {b \in adopted : \A c \in adopted : Number[c] =< Number[b]}
    IN /\ a.st = "running"
       /\ d \in NextDatum(n, s)
       /\ Available(n, d)
       /\ order' = IF a.pos < Len(order[s]) THEN order
                   ELSE [order EXCEPT ![s] = Append(@, d)]
       /\ \E tip \in IF adopted = {} THEN {a.tip} ELSE highest :
             agg' = [agg EXCEPT ![n][s] =
                [@ EXCEPT !.tip = tip, !.pos = a.pos + 1,
                          !.lastSeen = a.lastSeen \/ \E b \in extension :
                                          Number[b] >= LastBlockOf(s)]]
       /\ signed' = signed \cup {<<n, b>> : b \in adopted}
       /\ UNCHANGED <<imported, finalized, party, crashes>>

\* The exit signal, sent when the party has left the session.
ExitAggregator(n, s) ==
    /\ agg[n][s].st # "none"
    /\ sess[n] > s
    /\ agg' = [agg EXCEPT ![n][s] = NoAggregator]
    /\ UNCHANGED <<imported, finalized, party, signed, order, crashes>>
----------------------------------------------------------------------------
(* The justification handler: run, handle_justification_notification *)

Signers(b) == {n \in Honest : <<n, b>> \in signed} \cup Faulty

\* Mutant: more than one third is enough.
IsCompleteWithThird(S, C) == 3 * Cardinality(S \cap C) > Cardinality(C)

\* A multisignature is complete with more than two thirds of the keys.
IsComplete(S, C) == 3 * Cardinality(S \cap C) > 2 * Cardinality(C)

CurrentSession(n) == SessionOf(Number[finalized[n]] + 1)

HasKeybox(n, s) == s \in Sessions /\ known[n][s] # {}

\* Mutant: the keybox of the current session checks later sessions' blocks.
HandleAnySession(n, b) ==
    LET current == CurrentSession(n) IN
    /\ Number[b] > Number[finalized[n]]
    /\ HasKeybox(n, current)
    /\ IsComplete(Signers(b), known[n][current])
    /\ b \in imported[n]
    /\ finalized[n] \in Ancestors[b]
    /\ finalized' = [finalized EXCEPT ![n] = b]
    /\ UNCHANGED <<imported, party, agg, signed, order, crashes>>

\* A justification of b arrives; the client refuses a block it has not or
\* that does not descend from its finalised one.
HandleJustification(n, b) ==
    LET current == CurrentSession(n) IN
    /\ Number[b] > Number[finalized[n]]
    /\ Number[b] =< LastBlockOf(current)
    /\ HasKeybox(n, current)
    /\ IsComplete(Signers(b), known[n][current])
    /\ b \in imported[n]
    /\ finalized[n] \in Ancestors[b]
    /\ finalized' = [finalized EXCEPT ![n] = b]
    /\ UNCHANGED <<imported, party, agg, signed, order, crashes>>

\* A restart keeps the client's database and nothing else.
Crash(n) ==
    /\ crashes < MaxCrashes
    /\ crashes' = crashes + 1
    /\ SessionOf(Number[finalized[n]]) \in Sessions
    /\ sess' = [sess EXCEPT ![n] = SessionOf(Number[finalized[n]])]
    /\ phase' = [phase EXCEPT ![n] = "entering"]
    /\ known' = [known EXCEPT ![n] = [s \in Sessions |-> {}]]
    /\ agg' = [agg EXCEPT ![n] = [s \in Sessions |-> NoAggregator]]
    /\ UNCHANGED <<imported, finalized, signed, order>>
----------------------------------------------------------------------------
Next ==
    \E n \in Honest :
        \/ \E b \in Blocks : ImportBlock(n, b) \/ HandleJustification(n, b)
        \/ EnterSession(n) \/ SkipSessionOnError(n)
        \/ EarlySkip(n) \/ StartSession(n) \/ EndSession(n)
        \/ \E s \in Sessions :
              \/ StartAggregator(n, s)
              \/ \E d \in Data[s] : OrderedDatum(n, s, d)
              \/ ExitAggregator(n, s)
        \/ Crash(n)

Spec == Init /\ [][Next]_vars
----------------------------------------------------------------------------
(* Properties *)

\* The committee of session s on the chain of b, which reaches into s.
CommitteeOn(b, s) ==
    IF s = 0 THEN GenesisCommittee
    ELSE NextAuthorities[AncestorAt(b, LastBlockOf(s - 1))]

\* No two honest nodes ever finalise conflicting blocks, whatever forks are
\* proposed, whenever the aggregators start and whoever restarts.
FinalityAgreement ==
    \A m, n \in Honest : Comparable(finalized[m], finalized[n])

\* What FinalityAgreement rests on, where nodes restart or runtime calls fail
\* but not both: an honest node never signs two conflicting blocks of one
\* session, neither with the aggregators of two sessions at once nor across a
\* restart, after which the aggregator goes through AlephBFT's output again
\* from another tip.  Where a restart and a failing call meet it does not hold.
NoDoubleSigning ==
    \A v, w \in signed :
        v[1] = w[1] /\ SessionOf(Number[v[2]]) = SessionOf(Number[w[2]])
        => Comparable(v[2], w[2])

\* The SessionMaps of the nodes agree, though each reads the authorities from
\* its own client, at its own time.
CommitteeAgreement ==
    \A m, n \in Honest, s \in Sessions :
        known[m][s] # {} /\ known[n][s] # {} => known[m][s] = known[n][s]

\* At a node whose runtime calls succeed, the party never leaves the session
\* whose keybox the justification handler needs, and that keybox is neither
\* missing nor pruned once the party has entered the session.
KeyboxAvailable ==
    \A n \in {m \in Honest : \A s \in Sessions : <<m, s>> \notin ApiFails} :
        LET current == CurrentSession(n) IN
        /\ sess[n] =< current
        /\ sess[n] = current /\ phase[n] # "entering" => HasKeybox(n, current)

\* The SessionMap does not grow with the chain (prune_session_data): whatever
\* sessions are skipped or left out, and wherever a restart begins, it holds no
\* session more than two windows behind the party's.
SessionMapBounded ==
    \A n \in Honest, s \in Sessions :
        known[n][s] # {} => sess[n] =< s + 2 * PruneWindow

\* A node finalises a block only with the signatures of two thirds of the
\* committee that the block's own chain appoints for the block's session.
FinalizedByOwnCommittee ==
    [][\A n \in Honest :
          LET b == finalized'[n]
          IN b # finalized[n] =>
             IsComplete(Signers(b), CommitteeOn(b, SessionOf(Number[b])))]_vars

\* Honest nodes sign one branch in a session, but for one case: an aggregator
\* that lags is given a datum its node has not imported, because the number is
\* final already, leaves it out, and then follows a branch the others did not.
\* That node has finalised beyond the session, so it alone is out of step.
ConflictingSignaturesOnlyWhenLate ==
    \A v, w \in signed :
        LET s == SessionOf(Number[v[2]]) IN
        s = SessionOf(Number[w[2]]) /\ ~Comparable(v[2], w[2])
        => \E n \in {v[1], w[1]} : Number[finalized[n]] > LastBlockOf(s)

\* The gadget implements the abstract specification of finality.
F == INSTANCE Finality WITH Nodes <- Honest
ImplementsFinality == F!Spec
=============================================================================
