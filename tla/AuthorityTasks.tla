--------------------------- MODULE AuthorityTasks ---------------------------
(***************************************************************************)
(* The tasks that a member of the committee runs in one session            *)
(* (run_session_as_authority, party.rs), the channels between them         *)
(* (split_network, network.rs) and how they are stopped:                   *)
(*                                                                         *)
(*   network task --> forwarder --> data store --> member (AlephBFT)       *)
(*        ^            |    ^ ^                       |    |               *)
(*        |            v    | `---- commands ---------'    | batches       *)
(*        `------------+  aggregator <---------------------'               *)
(*                                                                         *)
(* A task that ends drops its ends of the channels.  A message is only     *)
(* counted.  What the data store and the aggregator do with theirs is in   *)
(* DataStore and BlockSignatureAggregator, the network task is in          *)
(* ConsensusNetwork.  The member is external: it sends what it likes, may  *)
(* end by itself, and ends when told to.                                   *)
(***************************************************************************)
EXTENDS Integers, Sequences

CONSTANT MaxMessages  \* bound: messages in one channel

ASSUME TasksAssumption == MaxMessages \in Nat \ {0}

Tasks == {"member", "aggregator", "forwarder", "refresher", "data store"}
Parts == {"data", "member commands", "aggregator commands"}
Channels == {"batches", "member commands", "aggregator commands", "from network",
             "to store", "to aggregator", "to member"}

\* What a channel carries: messages of AlephBFT, of RMC, or batches.
Kinds(c) == CASE c = "batches" -> {"batch"}
              [] c \in {"member commands", "to store", "to member"} -> {"aleph"}
              [] c \in {"aggregator commands", "to aggregator"} -> {"rmc"}
              [] c = "from network" -> {"aleph", "rmc"}

VARIABLES task,       \* what each task does
          forwarding, \* the parts of the forwarder that have not ended
          stopping,   \* the task the authority task waits for, as a number
          network,    \* the network task runs
          session,    \* the sender to this session is in the sessions map
          channel,    \* the messages in each channel, for "from network" in order
          failed      \* history: the channels on which a send has failed

vars == <<task, forwarding, stopping, network, session, channel, failed>>

TypeOK ==
    /\ task \in [Tasks -> {"running", "waiting", "panicked", "ended"}]
    /\ forwarding \subseteq Parts
    /\ stopping \in 0 .. 6
    /\ network \in BOOLEAN /\ session \in BOOLEAN
    /\ DOMAIN channel = Channels
    /\ \A c \in Channels : channel[c] \in Seq(Kinds(c)) /\ Len(channel[c]) <= MaxMessages
    /\ failed \subseteq Channels

\* All the channels are there before the first of the tasks is spawned.
Init ==
    /\ task = [t \in Tasks |-> "running"]
    /\ forwarding = Parts
    /\ stopping = 0
    /\ network = TRUE /\ session = TRUE
    /\ channel = [c \in Channels |-> <<>>]
    /\ failed = {}

Over(t) == task[t] \in {"ended", "panicked"}
----------------------------------------------------------------------------
(* Channels *)

Forwards(part) == task["forwarder"] = "running" /\ part \in forwarding

\* Somebody holds the sender, or the receiver, of channel c.
HasSender(c) ==
    CASE c \in {"batches", "member commands"} -> ~Over("member")
      [] c = "aggregator commands" -> ~Over("aggregator")
      [] c = "from network" -> session
      [] c \in {"to store", "to aggregator"} -> Forwards("data")
      [] c = "to member" -> ~Over("data store")
HasReceiver(c) ==
    CASE c \in {"batches", "to aggregator"} -> ~Over("aggregator")
      [] c \in {"member commands", "aggregator commands"} -> Forwards(c)
      [] c = "from network" -> Forwards("data")
      [] c = "to store" -> ~Over("data store")
      [] c = "to member" -> ~Over("member")

\* unbounded_send; it fails on a channel without a receiver.
Send(c, m) ==
    IF HasReceiver(c)
    THEN /\ Len(channel[c]) < MaxMessages
         /\ channel' = [channel EXCEPT ![c] = Append(@, m)]
         /\ UNCHANGED failed
    ELSE failed' = failed \cup {c} /\ UNCHANGED channel

HasMessage(c) == channel[c] # <<>>
HasEnded(c) == channel[c] = <<>> /\ ~HasSender(c)

Receive(c) ==
    /\ HasMessage(c)
    /\ channel' = [channel EXCEPT ![c] = Tail(@)]

\* The first message of one channel is sent to another; it is lost if that has
\* no receiver.
Pass(c, d) ==
    /\ HasMessage(c)
    /\ IF HasReceiver(d)
       THEN /\ Len(channel[d]) < MaxMessages
            /\ channel' = [channel EXCEPT ![c] = Tail(@), ![d] = Append(@, Head(channel[c]))]
            /\ UNCHANGED failed
       ELSE /\ channel' = [channel EXCEPT ![c] = Tail(@)]
            /\ failed' = failed \cup {d}

End(t) == task' = [task EXCEPT ![t] = "ended"]

\* The order in which the authority task stops the others.
StopOrder == <<"member", "aggregator", "forwarder", "refresher", "data store">>

\* The exit signal of task t has been sent.
Told(t) == \E i \in 1 .. stopping : i <= 5 /\ StopOrder[i] = t
----------------------------------------------------------------------------
(* The authority task *)

\* The party leaves the session, or its end of the exit channel is dropped.
ExitSignal ==
    /\ stopping = 0
    /\ stopping' = 1
    /\ UNCHANGED <<task, forwarding, network, session, channel, failed>>

\* Mutant: a task that has panicked is waited for.
StopNextEnded ==
    /\ stopping \in 1 .. 5
    /\ task[StopOrder[stopping]] = "ended"
    /\ stopping' = stopping + 1
    /\ UNCHANGED <<task, forwarding, network, session, channel, failed>>

\* The handle of the task it waits for is ready, with an error if the task
\* has panicked; the next one is told to exit.
StopNext ==
    /\ stopping \in 1 .. 5
    /\ Over(StopOrder[stopping])
    /\ stopping' = stopping + 1
    /\ UNCHANGED <<task, forwarding, network, session, channel, failed>>
----------------------------------------------------------------------------
(* The member: AlephBFT's run_session *)

MemberRuns == task["member"] = "running"

\* AlephNetwork::send and DataIO::send_ordered_batch.
MemberSends(c) ==
    /\ MemberRuns
    /\ c \in {"batches", "member commands"}
    /\ Send(c, IF c = "batches" THEN "batch" ELSE "aleph")
    /\ UNCHANGED <<task, forwarding, stopping, network, session>>

MemberReceives ==
    /\ MemberRuns
    /\ Receive("to member")
    /\ UNCHANGED <<task, forwarding, stopping, network, session, failed>>

MemberEnds ==
    /\ MemberRuns
    /\ End("member")
    /\ UNCHANGED <<forwarding, stopping, network, session, channel, failed>>
----------------------------------------------------------------------------
(* The aggregator: run_aggregator, next_multisigned_hash *)

AggregatorRuns == task["aggregator"] = "running"

\* RMC's messages go to the network; a send that fails is a panic.
AggregatorSends ==
    /\ AggregatorRuns
    /\ Send("aggregator commands", "rmc")
    /\ task' = IF HasReceiver("aggregator commands") THEN task
               ELSE [task EXCEPT !["aggregator"] = "panicked"]
    /\ UNCHANGED <<forwarding, stopping, network, session>>

AggregatorReceives(c) ==
    /\ AggregatorRuns
    /\ c \in {"batches", "to aggregator"}
    /\ Receive(c)
    /\ UNCHANGED <<task, forwarding, stopping, network, session, failed>>

\* Mutant: it does not wait for the exit signal.
AggregatorReturns ==
    /\ AggregatorRuns
    /\ End("aggregator")
    /\ UNCHANGED <<forwarding, stopping, network, session, channel, failed>>

\* The loop is left when the session's last block has its multisignature
\* (at any time, here), or when one of the streams has ended.  The task still
\* holds its ends of the channels while it waits for the exit signal.
AggregatorBreaks ==
    /\ AggregatorRuns
    /\ task' = [task EXCEPT !["aggregator"] = "waiting"]
    /\ UNCHANGED <<forwarding, stopping, network, session, channel, failed>>

AggregatorExits ==
    /\ ~Over("aggregator") /\ Told("aggregator")
    /\ End("aggregator")
    /\ UNCHANGED <<forwarding, stopping, network, session, channel, failed>>
----------------------------------------------------------------------------
(* The forwarder: split_network, whose three parts are joined *)

\* Mutant: the two kinds of messages are swapped.
ForwardDataSwapped ==
    /\ Forwards("data")
    /\ HasMessage("from network")
    /\ Pass("from network", IF Head(channel["from network"]) = "rmc"
                            THEN "to store" ELSE "to aggregator")
    /\ UNCHANGED <<task, forwarding, stopping, network, session>>

ForwardData ==
    /\ Forwards("data")
    /\ HasMessage("from network")
    /\ Pass("from network", IF Head(channel["from network"]) = "aleph"
                            THEN "to store" ELSE "to aggregator")
    /\ UNCHANGED <<task, forwarding, stopping, network, session>>

\* A command goes to the network task; without it this part of the forwarder
\* ends, with an error, and drops its receiver.
ForwardCommand(c) ==
    /\ Forwards(c) /\ HasMessage(c)
    /\ Receive(c)
    /\ forwarding' = IF network THEN forwarding ELSE forwarding \ {c}
    /\ UNCHANGED <<task, stopping, network, session, failed>>

\* A part ends with the stream it forwards.
PartEnds(part) ==
    /\ Forwards(part)
    /\ HasEnded(IF part = "data" THEN "from network" ELSE part)
    /\ forwarding' = forwarding \ {part}
    /\ UNCHANGED <<task, stopping, network, session, channel, failed>>

ForwarderEnds ==
    /\ task["forwarder"] = "running"
    /\ forwarding = {} \/ Told("forwarder")
    /\ End("forwarder")
    /\ UNCHANGED <<forwarding, stopping, network, session, channel, failed>>
----------------------------------------------------------------------------
(* The data store and the refresher *)

\* What the data store holds back is not modelled here.
StoreForwards ==
    /\ task["data store"] = "running"
    /\ Pass("to store", "to member")
    /\ UNCHANGED <<task, forwarding, stopping, network, session>>

StoreExits ==
    /\ task["data store"] = "running" /\ Told("data store")
    /\ End("data store")
    /\ UNCHANGED <<forwarding, stopping, network, session, channel, failed>>

\* refresh_best_chain; the chain from which the member proposes is not modelled.
RefresherExits ==
    /\ task["refresher"] = "running" /\ Told("refresher")
    /\ End("refresher")
    /\ UNCHANGED <<forwarding, stopping, network, session, channel, failed>>
----------------------------------------------------------------------------
(* The environment *)

\* send_to_user: the network task forgets a session whose user is gone.
NetworkSends(m) ==
    /\ network /\ session
    /\ Send("from network", m)
    /\ session' = HasReceiver("from network")
    /\ UNCHANGED <<task, forwarding, stopping, network>>

\* The party's session_manager shares the sessions map, so the map outlives the
\* network task, and goes when the party has gone too.
NetworkEnds ==
    /\ network
    /\ network' = FALSE
    /\ UNCHANGED <<task, forwarding, stopping, session, channel, failed>>

SessionsDropped ==
    /\ ~network /\ session
    /\ session' = FALSE
    /\ UNCHANGED <<task, forwarding, stopping, network, channel, failed>>
----------------------------------------------------------------------------
Aggregator ==
    \/ AggregatorSends \/ AggregatorBreaks \/ AggregatorExits
    \/ \E c \in Channels : AggregatorReceives(c)

Forwarder ==
    \/ ForwardData \/ ForwarderEnds
    \/ \E c \in {"member commands", "aggregator commands"} : ForwardCommand(c)
    \/ \E part \in Parts : PartEnds(part)

Next ==
    \/ ExitSignal \/ StopNext
    \/ \E c \in Channels : MemberSends(c)
    \/ MemberReceives \/ MemberEnds
    \/ Aggregator \/ Forwarder
    \/ StoreForwards \/ StoreExits \/ RefresherExits
    \/ NetworkEnds \/ SessionsDropped \/ \E m \in {"aleph", "rmc"} : NetworkSends(m)

\* Every task runs; select! polls the exit signal with the other branches, and
\* AlephBFT ends when told to.
Spec ==
    /\ Init /\ [][Next]_vars
    /\ WF_vars(StopNext)
    /\ WF_vars(Told("member") /\ MemberEnds)
    /\ WF_vars(AggregatorExits) /\ WF_vars(ForwarderEnds)
    /\ WF_vars(StoreExits) /\ WF_vars(RefresherExits)
----------------------------------------------------------------------------
(* Properties *)

\* While the network task runs, nothing the member or the aggregator sends
\* meets a closed channel, so the aggregator does not panic.  What comes from
\* the network may meet one on its way in, but only after every task it could
\* have served is over: the data store sends to the member in vain once that
\* has ended, the forwarder to the aggregator once the member has ended before
\* it, and the network task to the forwarder once the other two have; to the
\* data store the forwarder never does (run_session_as_authority).
ClosedInOrder ==
    network =>
        /\ task["aggregator"] # "panicked"
        /\ failed \subseteq {"to member", "to aggregator", "from network"}
        /\ "to member" \in failed => Over("member")
        /\ "to aggregator" \in failed => Over("member") /\ Over("aggregator")
        /\ "from network" \in failed => Over("member") /\ Over("aggregator") /\ Over("forwarder")

\* All the tasks end once the party has left the session, also when one has
\* panicked or the network task is gone.
TasksEnd == stopping # 0 ~> \A t \in Tasks : Over(t)
=============================================================================
