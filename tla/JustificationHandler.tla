------------------------ MODULE JustificationHandler ------------------------
(***************************************************************************)
(* The justification handler of one node (justification.rs), with what it  *)
(* shares its work with: block import, which hands it the justifications   *)
(* that come with blocks and those that were requested (import.rs); the    *)
(* aggregators of the node's own sessions; and the consensus party, which  *)
(* registers the keyboxes of the sessions it goes through (party.rs).      *)
(*                                                                         *)
(* Blocks are numbers.  Justified blocks are on one chain, as              *)
(* AlephFinalityProofs shows; the client may also import a fork from its   *)
(* finalised block, and requests go by block number on its longest chain.  *)
(* A justification is the number of the block it is valid for, or Bad.     *)
(* Only a block of the keybox's own session is finalised, so whether       *)
(* another session's committee would accept the signatures does not matter.*)
(*                                                                         *)
(* Time passes in steps of one unit; the ages of the last request and of   *)
(* the last finalisation are kept up to the point where they do not matter *)
(* any more.  The waits of 500 and 1000 ms end at any time.                *)
(***************************************************************************)
EXTENDS Integers, Sequences, SessionArithmetic

CONSTANTS MillisecsPerBlock,  \* in units of time
          PruneWindow,        \* 10 in party.rs
          ApiFails,           \* sessions whose runtime call may fail
          MaxBlock,           \* bound: blocks of the finalised chain
          MaxFork,            \* bound: height of the fork
          MaxQueue            \* bound: justifications in one channel

MaxSession == SessionOf(MaxBlock)
Sessions == 0 .. MaxSession + 1
Bad == 0
Justifications == 0 .. MaxBlock
Channels == {"import", "authority"}

ASSUME HandlerAssumption ==
    /\ SessionPeriod \in Nat \ {0} /\ MillisecsPerBlock \in Nat
    /\ PruneWindow \in Nat \ {0} /\ ApiFails \subseteq Sessions
    /\ MaxBlock \in Nat /\ MaxFork \in 0 .. MaxBlock /\ MaxQueue \in Nat \ {0}

VARIABLES imported,           \* the client: the finalised chain's blocks,
          forkHeight,         \*   the height of the fork, 0 if there is none,
          finalized,          \*   and the finalised block
          sess, phase, known, \* the party: its session, and the SessionMap
          open, queue,        \* the two channels to the handler
          pc,                 \* the handler: where it is in its loop, and
          lastFinalized,      \*   last_finalized_number and stop_h, as it
          stop,               \*   has read them there
          sinceFinalization,  \* the age of last_finalization_time
          sinceRequest,       \* the age of last_request_time
          requested           \* the justifications Substrate asks peers for

client == <<imported, forkHeight, finalized>>
party == <<sess, phase, known>>
handler == <<pc, lastFinalized, stop, sinceFinalization, sinceRequest>>
vars == <<client, party, open, queue, handler, requested>>

\* run_consensus_party: justifications are requested every so often.
Cadence ==
    LET twoBlocks == 2 * MillisecsPerBlock
        tenthOfSession == (MillisecsPerBlock * SessionPeriod) \div 10
    IN IF twoBlocks < tenthOfSession THEN twoBlocks ELSE tenthOfSession

\* A header, as its number and whether it is on the finalised chain.
Headers == [number : 1 .. MaxBlock, main : BOOLEAN]

TypeOK ==
    /\ imported \in 0 .. MaxBlock /\ forkHeight \in 0 .. MaxFork
    /\ finalized \in 0 .. imported
    /\ sess \in Sessions /\ known \subseteq Sessions
    /\ phase \in {"absent", "entering", "in", "panicked"}
    /\ open \subseteq Channels
    /\ queue \in [Channels -> Seq(Justifications)]
    /\ pc \in {"absent", "loop", "asleep", "waiting", "returned"}
    /\ lastFinalized \in 0 .. finalized
    /\ stop \in {LastBlockOf(s) : s \in Sessions}
    /\ sinceFinalization \in 0 .. Cadence + 1
    /\ sinceRequest \in 0 .. 2 * Cadence + 1
    /\ requested \subseteq Headers

\* Only an authority runs the gadget; a full node drops the handler's end of
\* the channel from block import (bin/node/src/service.rs).
Authority == phase = "entering" /\ pc = "loop" /\ open = Channels
FullNode == phase = "absent" /\ pc = "absent" /\ open = {"import"}

\* A node starts, or restarts, with what its database holds.
Init ==
    /\ imported \in 0 .. MaxBlock /\ finalized \in 0 .. imported
    /\ forkHeight = 0
    /\ sess = SessionOf(finalized) /\ known = {}
    /\ queue = [c \in Channels |-> <<>>] /\ requested = {}
    /\ Authority \/ FullNode
    /\ lastFinalized = 0 /\ stop = LastBlockOf(0)
    /\ sinceFinalization = 0 /\ sinceRequest = 0

Tick ==
    /\ sinceFinalization' = IF sinceFinalization > Cadence
                            THEN sinceFinalization ELSE sinceFinalization + 1
    /\ sinceRequest' = IF sinceRequest > 2 * Cadence
                       THEN sinceRequest ELSE sinceRequest + 1
    /\ UNCHANGED <<client, party, open, queue, pc, lastFinalized, stop, requested>>
----------------------------------------------------------------------------
(* The client and Substrate's sync *)

\* The best chains by length: the client is on one of them.
BestIsMain == imported >= forkHeight
BestIsFork == forkHeight >= imported /\ forkHeight > finalized
BestNumber == IF imported >= forkHeight THEN imported ELSE forkHeight

\* client.header(BlockId::Number(num)), which looks on the best chain.
HeadersAt(num) ==
    {h \in Headers : /\ h.number = num /\ num <= BestNumber
                     /\ IF h.main THEN BestIsMain \/ num <= finalized
                        ELSE BestIsFork /\ num > finalized}

\* The sender's end of a channel; a full node drops the receiver, and the send
\* fails.
Send(c, justification) ==
    queue' = IF pc \in {"absent", "returned"} THEN queue
             ELSE [queue EXCEPT ![c] = Append(@, justification)]

\* import_block of the next block of the chain: a justification that comes with
\* it is taken out, and sent on when the block was imported.  One without, with
\* another engine's, or with one that does not decode, brings nothing.
ImportBlock ==
    /\ "import" \in open
    /\ imported < MaxBlock
    /\ imported' = imported + 1
    /\ \/ UNCHANGED queue
       \/ /\ Len(queue["import"]) < MaxQueue
          /\ \E justification \in {Bad, imported + 1} : Send("import", justification)
    /\ UNCHANGED <<forkHeight, finalized, party, open, handler, requested>>

ImportFork ==
    /\ "import" \in open
    /\ forkHeight < MaxFork /\ finalized < MaxFork
    /\ forkHeight' = 1 + IF forkHeight > finalized THEN forkHeight ELSE finalized
    /\ UNCHANGED <<imported, finalized, party, open, queue, handler, requested>>

\* import_justification: a peer answers a request.  Nobody has a justification
\* of a block on the fork.
Answer(header, justification) ==
    /\ header \in requested
    /\ "import" \in open /\ Len(queue["import"]) < MaxQueue
    /\ justification = Bad \/ (header.main /\ justification = header.number)
    /\ Send("import", justification)
    /\ requested' = requested \ {header}
    /\ UNCHANGED <<client, party, open, handler>>

LoseRequest(header) ==
    /\ header \in requested
    /\ requested' = requested \ {header}
    /\ UNCHANGED <<client, party, open, queue, handler>>

\* Block import stops, with the node.
StopImport ==
    /\ "import" \in open
    /\ open' = open \ {"import"}
    /\ UNCHANGED <<client, party, queue, handler, requested>>
----------------------------------------------------------------------------
(* The consensus party: run, run_session, prune_session_data *)

\* The party goes to the next session; map is its SessionMap.
NextSession(map) ==
    /\ sess <= MaxSession
    /\ sess' = sess + 1
    /\ phase' = "entering"
    /\ known' = IF sess >= PruneWindow /\ sess % PruneWindow = 0
                THEN {s \in map : s >= sess - PruneWindow} ELSE map

\* The runtime answers for session s if the last block before it is there.
Answers(s) == s = 0 \/ BestNumber >= LastBlockOf(s - 1)

EnterSession ==
    /\ phase = "entering"
    /\ Answers(sess)
    /\ known' = known \cup {sess}
    /\ phase' = "in"
    /\ UNCHANGED <<client, sess, open, queue, handler, requested>>

SkipSessionOnError ==
    /\ phase = "entering" /\ sess # 0
    /\ ~Answers(sess) \/ sess \in ApiFails
    /\ NextSession(known)
    /\ UNCHANGED <<client, open, queue, handler, requested>>

\* The early skip and the end of the session: its last block is final.
LeaveSession ==
    /\ phase = "in"
    /\ finalized >= LastBlockOf(sess)
    /\ NextSession(known)
    /\ UNCHANGED <<client, open, queue, handler, requested>>

\* One of the aggregators of the sessions so far has a block's multisignature.
AuthorityJustification(num) ==
    /\ "authority" \in open /\ Len(queue["authority"]) < MaxQueue
    /\ SessionOf(num) < sess \/ (SessionOf(num) = sess /\ phase = "in")
    /\ num > finalized /\ num <= imported
    /\ Send("authority", num)
    /\ UNCHANGED <<client, party, open, handler, requested>>

\* An expect() of the party's task fails; its sender is dropped.
PartyPanics ==
    /\ phase \in {"entering", "in"}
    /\ phase' = "panicked"
    /\ open' = open \ {"authority"}
    /\ UNCHANGED <<client, sess, known, queue, handler, requested>>
----------------------------------------------------------------------------
(* The handler: run, handle_justification_notification, *)
(* request_justification                                *)

CurrentSession == SessionOf(finalized + 1)

\* Mutant: the task ends when there is no keybox.
ReturnWithoutKeybox ==
    /\ pc = "loop"
    /\ pc' = IF CurrentSession \in known THEN "waiting" ELSE "returned"
    /\ lastFinalized' = finalized
    /\ stop' = LastBlockOf(CurrentSession)
    /\ UNCHANGED <<client, party, open, queue, sinceFinalization, sinceRequest, requested>>

\* The top of the loop: the current session is that of the block after the
\* finalised one.  Without its keybox the handler sleeps and takes nothing.
ReadSession ==
    /\ pc = "loop"
    /\ pc' = IF CurrentSession \in known THEN "waiting" ELSE "asleep"
    /\ lastFinalized' = finalized
    /\ stop' = LastBlockOf(CurrentSession)
    /\ UNCHANGED <<client, party, open, queue, sinceFinalization, sinceRequest, requested>>

\* Mutant: what comes while the handler waits for a keybox is thrown away.
WakeAndDrain ==
    /\ pc = "asleep"
    /\ pc' = "loop"
    /\ queue' = [c \in Channels |-> <<>>]
    /\ UNCHANGED <<client, party, open, lastFinalized, stop,
                   sinceFinalization, sinceRequest, requested>>

Wake ==
    /\ pc = "asleep"
    /\ pc' = "loop"
    /\ UNCHANGED <<client, party, open, queue, lastFinalized, stop,
                   sinceFinalization, sinceRequest, requested>>

\* Mutant: it does not look whether the client has the block.
RequestUnseen(num, age, pending) ==
    IF age > Cadence /\ sinceRequest > 2 * Cadence
    THEN /\ requested' = pending \cup {[number |-> num, main |-> TRUE]}
         /\ sinceRequest' = 0
    ELSE requested' = pending /\ UNCHANGED sinceRequest

\* request_justification(num), age being the time since the last finalisation
\* and pending what is being asked for.  A request that is not made, for want
\* of a header, does not count.
RequestJustification(num, age, pending) ==
    IF age > Cadence /\ sinceRequest > 2 * Cadence /\ HeadersAt(num) # {}
    THEN /\ \E header \in HeadersAt(num) : requested' = pending \cup {header}
         /\ sinceRequest' = 0
    ELSE requested' = pending /\ UNCHANGED sinceRequest

\* finalize_block: the client refuses a block it does not have.  A block that
\* is final ends the fork and the requests below it.
FinalizeBlock(num) ==
    /\ finalized' = num
    /\ forkHeight' = 0
    /\ UNCHANGED imported

Finalizes(num) ==
    num # Bad /\ num > lastFinalized /\ num <= stop /\ num <= imported

\* Mutant: a finalisation leaves last_finalization_time as it is.
TakeWithoutTime(c) ==
    /\ pc = "waiting" /\ queue[c] # <<>>
    /\ queue' = [queue EXCEPT ![c] = Tail(@)]
    /\ IF Finalizes(Head(queue[c]))
       THEN /\ FinalizeBlock(Head(queue[c]))
            /\ RequestJustification(stop, sinceFinalization,
                  {h \in requested : h.number > Head(queue[c])})
       ELSE /\ RequestJustification(stop, sinceFinalization, requested)
            /\ UNCHANGED client
    /\ pc' = "loop"
    /\ UNCHANGED <<party, open, lastFinalized, stop, sinceFinalization>>

\* A notification is taken from one of the channels, which select alternates.
TakeNotification(c) ==
    /\ pc = "waiting" /\ queue[c] # <<>>
    /\ queue' = [queue EXCEPT ![c] = Tail(@)]
    /\ IF Finalizes(Head(queue[c]))
       THEN /\ FinalizeBlock(Head(queue[c]))
            /\ sinceFinalization' = 0
            /\ RequestJustification(stop, 0,
                  {h \in requested : h.number > Head(queue[c])})
       ELSE /\ RequestJustification(stop, sinceFinalization, requested)
            /\ UNCHANGED <<client, sinceFinalization>>
    /\ pc' = "loop"
    /\ UNCHANGED <<party, open, lastFinalized, stop>>

\* No notification within a second.
TimeOut ==
    /\ pc = "waiting" /\ open # {} /\ \A c \in Channels : queue[c] = <<>>
    /\ RequestJustification(stop, sinceFinalization, requested)
    /\ pc' = "loop"
    /\ UNCHANGED <<client, party, open, queue, lastFinalized, stop, sinceFinalization>>

\* Both streams have ended.
Return ==
    /\ pc = "waiting"
    /\ open = {} /\ \A c \in Channels : queue[c] = <<>>
    /\ pc' = "returned"
    /\ UNCHANGED <<client, party, open, queue, lastFinalized, stop,
                   sinceFinalization, sinceRequest, requested>>
----------------------------------------------------------------------------
Next ==
    \/ Tick
    \/ ImportBlock \/ ImportFork \/ StopImport
    \/ \E header \in requested :
          \/ \E justification \in Justifications : Answer(header, justification)
          \/ LoseRequest(header)
    \/ EnterSession \/ SkipSessionOnError \/ LeaveSession \/ PartyPanics
    \/ \E num \in 1 .. MaxBlock : AuthorityJustification(num)
    \/ ReadSession \/ Wake \/ TimeOut \/ Return
    \/ \E c \in Channels : TakeNotification(c)

\* Time goes on, and so do the tasks; blocks of the chain come; and if requests
\* are made again and again, a peer that has the justification answers one.
Spec ==
    /\ Init /\ [][Next]_vars
    /\ WF_vars(Tick)
    /\ WF_vars(ImportBlock)
    /\ WF_vars(EnterSession \/ LeaveSession \/ SkipSessionOnError)
    /\ WF_vars(ReadSession) /\ WF_vars(Wake) /\ WF_vars(TimeOut)
    /\ \A c \in Channels : SF_vars(TakeNotification(c))
    /\ SF_vars(\E header \in requested : Answer(header, header.number))
----------------------------------------------------------------------------
(* Properties *)

\* The gadget does not run, or its node is going down.
Stopped == phase \in {"absent", "panicked"} \/ open # Channels

\* The party has gone past the session the handler needs, without its keybox:
\* its runtime call has failed.
LeftOut == CurrentSession < sess /\ CurrentSession \notin known

\* A justification of block num is in a channel, and num in the current session.
Delivered(num) ==
    /\ \E c \in Channels : \E i \in DOMAIN queue[c] : queue[c][i] = num
    /\ SessionOf(num) = CurrentSession

\* A justification is requested only of a block that is not final, though the
\* handler may have finalised that very block since it read stop_h: what keeps
\* it from asking is that the finalisation is younger than the cadence.
RequestsAreNeeded ==
    [][\A header \in requested' \ requested : header.number > finalized']_vars

\* The last block of a session becomes final once the node has imported it,
\* whatever becomes of the justifications it is sent, unless the party left
\* the session out: the request is repeated, for the block that is then on
\* the best chain, until it is answered.
SessionEndsAreFinalized ==
    \A s \in 0 .. MaxSession :
        imported >= LastBlockOf(s) ~> finalized >= LastBlockOf(s) \/ Stopped \/ LeftOut

\* A justification of a block of the current session that has reached the node
\* makes the block final without anybody being asked: it waits in its channel
\* for the keybox, whether it came with a block or from an aggregator.
DeliveredIsFinalized ==
    \A num \in 1 .. MaxBlock :
        Delivered(num) ~> finalized >= num \/ Stopped \/ LeftOut
=============================================================================
