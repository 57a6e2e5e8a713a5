------------------------ MODULE AuthorityTasksProofs ------------------------
(***************************************************************************)
(* Proofs about AuthorityTasks: a channel closes only after the tasks that *)
(* depend on it are over, and no task is sent what it does not take,       *)
(* however many messages the channels hold.                                *)
(***************************************************************************)
EXTENDS AuthorityTasks, SequenceTheorems, TLAPS

\* The tasks that have been waited for are over.
StoppedInOrder ==
    \A i \in 1 .. 5 : i < stopping => Over(StopOrder[i])

\* While there is a network task, the member ends before the aggregator that
\* takes its batches, both before the forwarder, and that before the data store.
OutlivesItsUsers ==
    network => /\ Over("aggregator") => Over("member")
               /\ Over("forwarder") => Over("member") /\ Over("aggregator")
               /\ Over("data store") => Over("forwarder")

\* While there is a network task, the forwarder takes the commands of a task
\* up to its end, and the session's messages up to its own.
ForwardsToTheEnd ==
    network => /\ "member commands" \in forwarding \/ Over("member")
               /\ "aggregator commands" \in forwarding \/ Over("aggregator")
               /\ "data" \in forwarding
               /\ session \/ Over("forwarder")

\* What the tasks do, and how far the authority task has come.  Only the
\* aggregator waits, or panics.
Stages ==
    /\ task \in [Tasks -> {"running", "waiting", "panicked", "ended"}]
    /\ \A t \in Tasks \ {"aggregator"} : task[t] \in {"running", "ended"}
    /\ stopping \in 0 .. 6
    /\ network \in BOOLEAN

IInv == Stages /\ StoppedInOrder /\ OutlivesItsUsers /\ ForwardsToTheEnd /\ ClosedInOrder

\* A task that ends is the only one that changes.
LEMMA OneTaskChanges ==
    ASSUME Stages, NEW t \in Tasks, NEW s \in {"ended", "panicked", "waiting"},
           t # "aggregator" => s = "ended",
           task' = [task EXCEPT ![t] = s]
    PROVE  /\ task' \in [Tasks -> {"running", "waiting", "panicked", "ended"}]
           /\ \A u \in Tasks \ {"aggregator"} : task'[u] \in {"running", "ended"}
           /\ task'[t] = s
           /\ \A u \in Tasks \ {t} : task'[u] = task[u]
BY DEF Stages

\* The authority task has waited for those it told to exit before.
LEMMA ToldInOrder ==
    ASSUME Stages, StoppedInOrder
    PROVE  /\ Told("aggregator") => Over("member")
           /\ Told("forwarder") => Over("member") /\ Over("aggregator")
           /\ Told("data store") => Over("forwarder")
<1>1. /\ StopOrder[1] = "member" /\ StopOrder[2] = "aggregator" /\ StopOrder[3] = "forwarder"
      /\ StopOrder[4] = "refresher" /\ StopOrder[5] = "data store"
    BY DEF StopOrder
<1>2. /\ 1 < stopping => Over("member")
      /\ 2 < stopping => Over("aggregator")
      /\ 3 < stopping => Over("forwarder")
    <2>1. /\ 1 < stopping => Over(StopOrder[1])
          /\ 2 < stopping => Over(StopOrder[2])
          /\ 3 < stopping => Over(StopOrder[3])
        BY DEF StoppedInOrder
    <2> QED
        BY <2>1, <1>1
<1>3. ASSUME NEW i \in 1 .. stopping, i <= 5
      PROVE  /\ StopOrder[i] = "aggregator" => i = 2
             /\ StopOrder[i] = "forwarder" => i = 3
             /\ StopOrder[i] = "data store" => i = 5
    <2>1. i \in {1, 2, 3, 4, 5}
        BY <1>3 DEF Stages
    <2> QED
        BY <2>1, <1>1
<1>0. stopping \in 0 .. 6
    BY DEF Stages
<1>4. ASSUME Told("aggregator") PROVE 1 < stopping
    <2>1. PICK i \in 1 .. stopping : i <= 5 /\ StopOrder[i] = "aggregator"
        BY <1>4 DEF Told
    <2>2. i = 2
        BY <1>3, <2>1
    <2> QED
        BY <1>0, <2>1, <2>2
<1>5. ASSUME Told("forwarder") PROVE 1 < stopping /\ 2 < stopping
    <2>1. PICK i \in 1 .. stopping : i <= 5 /\ StopOrder[i] = "forwarder"
        BY <1>5 DEF Told
    <2>2. i = 3
        BY <1>3, <2>1
    <2> QED
        BY <1>0, <2>1, <2>2
<1>6. ASSUME Told("data store") PROVE 3 < stopping
    <2>1. PICK i \in 1 .. stopping : i <= 5 /\ StopOrder[i] = "data store"
        BY <1>6 DEF Told
    <2>2. i = 5
        BY <1>3, <2>1
    <2> QED
        BY <1>0, <2>2
<1> QED
    BY <1>2, <1>4, <1>5, <1>6

\* The channels that are, or may be, closed while there is a network task.
MayFail(c) ==
    \/ c = "to member" /\ Over("member")
    \/ c = "to aggregator" /\ Over("aggregator")
    \/ c = "from network" /\ Over("forwarder")

\* Any other channel has a receiver while a running task sends to it.
LEMMA ReceiversAreThere ==
    ASSUME IInv, network
    PROVE  /\ MemberRuns => HasReceiver("batches") /\ HasReceiver("member commands")
           /\ AggregatorRuns => HasReceiver("aggregator commands")
           /\ Forwards("data") => HasReceiver("to store")
           /\ HasReceiver("to aggregator") \/ MayFail("to aggregator")
           /\ HasReceiver("to member") \/ MayFail("to member")
           /\ HasReceiver("from network") \/ MayFail("from network")
<1>1. task["forwarder"] \in {"running", "ended"}
    BY DEF IInv, Stages, Tasks
<1>8. Forwards("data") => ~Over("forwarder")
    BY DEF Forwards, Over
<1>9. /\ HasReceiver("to store") = ~Over("data store")
      /\ HasReceiver("to aggregator") = ~Over("aggregator")
      /\ HasReceiver("to member") = ~Over("member")
      /\ HasReceiver("from network") = Forwards("data")
    BY DEF HasReceiver
<1>2. MemberRuns => ~Over("member")
    BY DEF MemberRuns, Over
<1>3. AggregatorRuns => ~Over("aggregator")
    BY DEF AggregatorRuns, Over
<1>4. ~Over("forwarder") => task["forwarder"] = "running"
    BY <1>1 DEF Over
<1>5. HasReceiver("batches") = ~Over("aggregator")
    BY DEF HasReceiver
<1>6. HasReceiver("member commands") = Forwards("member commands")
    BY DEF HasReceiver
<1>7. HasReceiver("aggregator commands") = Forwards("aggregator commands")
    BY DEF HasReceiver
<1> QED
    BY <1>2, <1>3, <1>4, <1>5, <1>6, <1>7, <1>8, <1>9
       DEF IInv, OutlivesItsUsers, ForwardsToTheEnd, Forwards, MayFail

\* The invariant holds at first.
LEMMA InitIInv == Init => IInv
<1> SUFFICES ASSUME Init PROVE IInv
    OBVIOUS
<1>1. Stages
    BY DEF Init, Stages
<1>2. StoppedInOrder
    BY DEF Init, StoppedInOrder
<1>3. /\ ~Over("aggregator") /\ ~Over("forwarder") /\ ~Over("data store")
      /\ task["aggregator"] # "panicked"
    BY DEF Init, Over, Tasks
<1> QED
    BY <1>1, <1>2, <1>3
       DEF IInv, Init, OutlivesItsUsers, ForwardsToTheEnd, ClosedInOrder, Parts

\* A step that ends no task keeps the invariant, if it fails only on a channel
\* that may be closed, and drops the session only after the forwarder.
LEMMA NoTaskEnds ==
    ASSUME IInv, UNCHANGED <<task, forwarding, stopping, network>>,
           network /\ session => session' \/ Over("forwarder"),
           network => \A c \in failed' : c \in failed \/ MayFail(c)
    PROVE  IInv'
<1>1. /\ Over("member")' <=> Over("member")
      /\ Over("aggregator")' <=> Over("aggregator")
      /\ Over("forwarder")' <=> Over("forwarder")
      /\ Over("data store")' <=> Over("data store")
    BY DEF Over
<1>2. Stages' /\ StoppedInOrder'
    BY DEF IInv, Stages, StoppedInOrder, Over
<1>3. OutlivesItsUsers' /\ ForwardsToTheEnd'
    BY <1>1 DEF IInv, OutlivesItsUsers, ForwardsToTheEnd
<1>4. ASSUME network PROVE ClosedInOrder'
    <2>1. ASSUME NEW c \in failed'
          PROVE  /\ c \in {"to member", "to aggregator", "from network"}
                 /\ c = "to member" => Over("member")
                 /\ c = "to aggregator" => Over("member") /\ Over("aggregator")
                 /\ c = "from network" => Over("member") /\ Over("aggregator") /\ Over("forwarder")
        BY <1>4, <2>1 DEF IInv, ClosedInOrder, MayFail, OutlivesItsUsers
    <2> QED
        BY <1>1, <1>4, <2>1 DEF IInv, ClosedInOrder
<1>5. ~network => ClosedInOrder'
    BY DEF ClosedInOrder
<1> QED
    BY <1>2, <1>3, <1>4, <1>5 DEF IInv

\* A step in which task t, and no other, ends or starts to wait keeps the
\* stages and their order; the other tasks are as they were.
LEMMA OneTaskEnds ==
    ASSUME IInv, NEW t \in Tasks, ~Over(t), NEW s \in {"ended", "panicked", "waiting"},
           t # "aggregator" => s = "ended",
           task' = [task EXCEPT ![t] = s],
           UNCHANGED <<stopping, network>>
    PROVE  /\ Stages' /\ StoppedInOrder'
           /\ \A u \in Tasks \ {t} : task'[u] = task[u] /\ (Over(u)' <=> Over(u))
           /\ Over(t)' <=> s # "waiting"
           /\ task'[t] = s
<1>0. Stages /\ StoppedInOrder
    BY DEF IInv
<1>1. /\ task' \in [Tasks -> {"running", "waiting", "panicked", "ended"}]
      /\ \A u \in Tasks \ {"aggregator"} : task'[u] \in {"running", "ended"}
      /\ task'[t] = s
      /\ \A u \in Tasks \ {t} : task'[u] = task[u]
    BY <1>0, OneTaskChanges
<1>2. Stages'
    BY <1>0, <1>1 DEF Stages
<1>3. \A u \in Tasks \ {t} : Over(u)' <=> Over(u)
    BY <1>1 DEF Over
<1>4. Over(t)' <=> s # "waiting"
    BY <1>1 DEF Over
<1>5. StoppedInOrder'
    <2> SUFFICES ASSUME NEW i \in 1 .. 5, i < stopping PROVE Over(StopOrder[i])'
        BY DEF StoppedInOrder
    <2>1. StopOrder[i] \in Tasks
        <3>1. i \in {1, 2, 3, 4, 5}
            OBVIOUS
        <3>2. /\ StopOrder[1] \in Tasks /\ StopOrder[2] \in Tasks /\ StopOrder[3] \in Tasks
              /\ StopOrder[4] \in Tasks /\ StopOrder[5] \in Tasks
            BY DEF StopOrder, Tasks
        <3> QED
            BY <3>1, <3>2
    <2>2. Over(StopOrder[i])
        BY <1>0 DEF StoppedInOrder
    <2> QED
        BY <2>1, <2>2, <1>3
<1> QED
    BY <1>1, <1>2, <1>3, <1>4, <1>5

\* The end of a task that takes only what comes from the network keeps the
\* invariant.
LEMMA OtherEnds ==
    ASSUME IInv, NEW t \in {"member", "refresher", "data store"}, ~Over(t), End(t),
           t = "data store" => Over("forwarder"),
           UNCHANGED <<forwarding, stopping, network, session, failed>>
    PROVE  IInv'
<1>1. /\ t \in Tasks /\ t # "aggregator" /\ t # "forwarder"
      /\ "member" \in Tasks /\ "aggregator" \in Tasks /\ "forwarder" \in Tasks
    BY DEF Tasks
<1>2. /\ Stages' /\ StoppedInOrder'
      /\ \A u \in Tasks \ {t} : task'[u] = task[u] /\ (Over(u)' <=> Over(u))
      /\ Over(t)'
    BY <1>1, OneTaskEnds DEF End
<1>3. /\ Over("aggregator")' <=> Over("aggregator")
      /\ Over("forwarder")' <=> Over("forwarder")
      /\ task'["aggregator"] = task["aggregator"]
    BY <1>1, <1>2
<1>4. Over("member") => Over("member")'
    <2>1. CASE t = "member"
        BY <1>2, <2>1
    <2>2. CASE t # "member"
        BY <1>1, <1>2, <2>2
    <2> QED
        BY <2>1, <2>2
<1>6. Over("data store")' => Over("data store") \/ Over("forwarder")
    <2>1. CASE t = "data store"
        BY <2>1
    <2>2. CASE t # "data store"
        <3>1. "data store" \in Tasks \ {t}
            BY <2>2 DEF Tasks
        <3> QED
            BY <3>1, <1>2
    <2> QED
        BY <2>1, <2>2
<1>7. OutlivesItsUsers' /\ ForwardsToTheEnd' /\ ClosedInOrder'
    BY <1>3, <1>4, <1>6 DEF IInv, OutlivesItsUsers, ForwardsToTheEnd, ClosedInOrder
<1> QED
    BY <1>2, <1>7 DEF IInv

\* The authority task's own steps keep the invariant.
LEMMA StopStep ==
    ASSUME IInv, ExitSignal \/ StopNext
    PROVE  IInv'
<1>1. UNCHANGED <<task, forwarding, network, session, failed>>
    BY DEF ExitSignal, StopNext
<1>2. OutlivesItsUsers' /\ ForwardsToTheEnd' /\ ClosedInOrder'
    BY <1>1 DEF IInv, OutlivesItsUsers, ForwardsToTheEnd, ClosedInOrder, Over
<1>3. Stages' /\ StoppedInOrder'
    <2>1. CASE ExitSignal
        BY <1>1, <2>1 DEF IInv, ExitSignal, Stages, StoppedInOrder
    <2>2. CASE StopNext
        <3>1. Stages'
            BY <1>1, <2>2 DEF IInv, StopNext, Stages
        <3>2. ASSUME NEW i \in 1 .. 5, i < stopping' PROVE Over(StopOrder[i])
            <4>1. i < stopping \/ i = stopping
                BY <2>2, <3>2 DEF IInv, Stages, StopNext
            <4> QED
                BY <4>1, <2>2 DEF IInv, StoppedInOrder, StopNext
        <3>3. \A i \in 1 .. 5 : Over(StopOrder[i])' <=> Over(StopOrder[i])
            BY <1>1 DEF Over
        <3> QED
            BY <3>1, <3>2, <3>3 DEF StoppedInOrder
    <2> QED
        BY <2>1, <2>2
<1> QED
    BY <1>2, <1>3 DEF IInv

\* The member's steps keep the invariant.
LEMMA MemberStep ==
    ASSUME IInv, (\E c \in Channels : MemberSends(c)) \/ MemberReceives \/ MemberEnds
    PROVE  IInv'
<1>1. ASSUME NEW c \in Channels, MemberSends(c) PROVE IInv'
    <2>1. UNCHANGED <<task, forwarding, stopping, network, session>>
        BY <1>1 DEF MemberSends
    <2>2. network => HasReceiver(c)
        BY <1>1, ReceiversAreThere DEF MemberSends
    <2>3. network => failed' = failed
        BY <1>1, <2>2 DEF MemberSends, Send
    <2> QED
        BY <2>1, <2>3, NoTaskEnds
<1>2. CASE MemberReceives
    BY <1>2, NoTaskEnds DEF MemberReceives
<1>3. CASE MemberEnds
    <2>1. End("member") /\ ~Over("member") /\ UNCHANGED <<forwarding, stopping, network, session, failed>>
        BY <1>3 DEF MemberEnds, MemberRuns, Over
    <2> QED
        BY <2>1, OtherEnds
<1> QED
    BY <1>1, <1>2, <1>3

\* The aggregator's steps keep the invariant.
LEMMA AggregatorStep ==
    ASSUME IInv, Aggregator
    PROVE  IInv'
<1>0. "member" \in Tasks /\ "aggregator" \in Tasks /\ "forwarder" \in Tasks /\ "data store" \in Tasks
    BY DEF Tasks
<1>1. ASSUME NEW c \in Channels, AggregatorReceives(c) PROVE IInv'
    BY <1>1, NoTaskEnds DEF AggregatorReceives
<1>2. CASE AggregatorSends
    <2>1. CASE HasReceiver("aggregator commands")
        BY <1>2, <2>1, NoTaskEnds DEF AggregatorSends, Send
    <2>2. CASE ~HasReceiver("aggregator commands")
        <3>1. ~network
            BY <1>2, <2>2, ReceiversAreThere DEF AggregatorSends
        <3>2. /\ task' = [task EXCEPT !["aggregator"] = "panicked"]
              /\ ~Over("aggregator") /\ UNCHANGED <<stopping, network>>
            BY <1>2, <2>2 DEF AggregatorSends, AggregatorRuns, Over
        <3>3. Stages' /\ StoppedInOrder'
            BY <3>2, <1>0, OneTaskEnds
        <3> QED
            BY <3>1, <3>2, <3>3
               DEF IInv, OutlivesItsUsers, ForwardsToTheEnd, ClosedInOrder
    <2> QED
        BY <2>1, <2>2
<1>3. ASSUME NEW s \in {"waiting", "ended"}, s = "ended" => Over("member"),
             ~Over("aggregator"), task' = [task EXCEPT !["aggregator"] = s],
             UNCHANGED <<forwarding, stopping, network, session, failed>>
      PROVE  IInv'
    <2>1. /\ Stages' /\ StoppedInOrder'
          /\ \A u \in Tasks \ {"aggregator"} : task'[u] = task[u] /\ (Over(u)' <=> Over(u))
          /\ Over("aggregator")' <=> s # "waiting"
          /\ task'["aggregator"] = s
        BY <1>0, <1>3, OneTaskEnds
    <2>2. /\ Over("member")' <=> Over("member")
          /\ Over("forwarder")' <=> Over("forwarder")
          /\ Over("data store")' <=> Over("data store")
          /\ task'["aggregator"] # "panicked"
          /\ Over("aggregator")' => Over("member")'
        BY <1>0, <1>3, <2>1
    <2>3. OutlivesItsUsers' /\ ForwardsToTheEnd' /\ ClosedInOrder'
        BY <1>3, <2>2 DEF IInv, OutlivesItsUsers, ForwardsToTheEnd, ClosedInOrder
    <2> QED
        BY <2>1, <2>3 DEF IInv
<1>4. CASE AggregatorBreaks
    <2>1. ~Over("aggregator")
        BY <1>4 DEF AggregatorBreaks, AggregatorRuns, Over
    <2> QED
        BY <1>3, <1>4, <2>1 DEF AggregatorBreaks
<1>5. CASE AggregatorExits
    <2>1. Over("member")
        BY <1>5, ToldInOrder DEF AggregatorExits, IInv
    <2> QED
        BY <1>3, <1>5, <2>1 DEF AggregatorExits, End
<1> QED
    BY <1>1, <1>2, <1>4, <1>5 DEF Aggregator

\* The forwarder's steps keep the invariant.
LEMMA ForwarderStep ==
    ASSUME IInv, Forwarder
    PROVE  IInv'
<1>0. "member" \in Tasks /\ "aggregator" \in Tasks /\ "forwarder" \in Tasks /\ "data store" \in Tasks
    BY DEF Tasks
<1>1. CASE ForwardData
    <2> DEFINE d == IF Head(channel["from network"]) = "aleph" THEN "to store" ELSE "to aggregator"
    <2>1. /\ Forwards("data") /\ Pass("from network", d)
          /\ UNCHANGED <<task, forwarding, stopping, network, session>>
        BY <1>1 DEF ForwardData
    <2>2. network => HasReceiver(d) \/ MayFail(d)
        BY <2>1, ReceiversAreThere
    <2> HIDE DEF d
    <2>3. failed' = failed \/ (failed' = failed \cup {d} /\ ~HasReceiver(d))
        BY <2>1 DEF Pass
    <2>4. network => \A c \in failed' : c \in failed \/ MayFail(c)
        BY <2>2, <2>3
    <2> QED
        BY <2>1, <2>4, NoTaskEnds
<1>2. ASSUME NEW c \in {"member commands", "aggregator commands"}, ForwardCommand(c)
      PROVE  IInv'
    <2>1. CASE network
        BY <1>2, <2>1, NoTaskEnds DEF ForwardCommand
    <2>2. CASE ~network
        <3>1. ~network' /\ UNCHANGED <<task, stopping, network>>
            BY <1>2, <2>2 DEF ForwardCommand
        <3> QED
            BY <3>1 DEF IInv, Stages, StoppedInOrder, OutlivesItsUsers, ForwardsToTheEnd,
                        ClosedInOrder, Over
    <2> QED
        BY <2>1, <2>2
<1>3. ASSUME NEW part \in Parts, PartEnds(part) PROVE IInv'
    <2>1. /\ UNCHANGED <<task, stopping, network, session, failed>>
          /\ forwarding' = forwarding \ {part}
        BY <1>3 DEF PartEnds
    <2>2. part = "member commands" => Over("member")
        BY <1>3 DEF PartEnds, HasEnded, HasSender
    <2>3. part = "aggregator commands" => Over("aggregator")
        BY <1>3 DEF PartEnds, HasEnded, HasSender
    <2>6. network => part # "data"
        BY <1>3 DEF PartEnds, HasEnded, HasSender, Forwards, IInv, ForwardsToTheEnd, Over
    <2>4. ForwardsToTheEnd'
        BY <2>1, <2>2, <2>3, <2>6 DEF IInv, ForwardsToTheEnd, Over
    <2>5. Stages' /\ StoppedInOrder' /\ OutlivesItsUsers' /\ ClosedInOrder'
        BY <2>1 DEF IInv, Stages, StoppedInOrder, OutlivesItsUsers, ClosedInOrder, Over
    <2> QED
        BY <2>4, <2>5 DEF IInv
<1>4. CASE ForwarderEnds
    <2>1. /\ ~Over("forwarder") /\ task' = [task EXCEPT !["forwarder"] = "ended"]
          /\ UNCHANGED <<forwarding, stopping, network, session, failed>>
        BY <1>4 DEF ForwarderEnds, End, Over
    <2>2. /\ Stages' /\ StoppedInOrder'
          /\ \A u \in Tasks \ {"forwarder"} : task'[u] = task[u] /\ (Over(u)' <=> Over(u))
        BY <1>0, <2>1, OneTaskEnds
    <2>3. /\ Over("member")' <=> Over("member")
          /\ Over("aggregator")' <=> Over("aggregator")
          /\ Over("data store")' <=> Over("data store")
          /\ task'["aggregator"] = task["aggregator"]
        BY <1>0, <2>2
    <2>6. Over("forwarder")'
        BY <1>0, <2>1, OneTaskEnds
    <2>4. network => Over("member") /\ Over("aggregator")
        <3>1. CASE forwarding = {}
            BY <3>1 DEF IInv, ForwardsToTheEnd
        <3>2. CASE Told("forwarder")
            BY <3>2, ToldInOrder DEF IInv
        <3> QED
            BY <1>4, <3>1, <3>2 DEF ForwarderEnds
    <2>5. OutlivesItsUsers' /\ ForwardsToTheEnd' /\ ClosedInOrder'
        BY <2>1, <2>3, <2>4, <2>6 DEF IInv, OutlivesItsUsers, ForwardsToTheEnd, ClosedInOrder
    <2> QED
        BY <2>2, <2>5 DEF IInv
<1> QED
    BY <1>1, <1>2, <1>3, <1>4 DEF Forwarder

\* Every step keeps the invariant.
LEMMA NextIInv == IInv /\ [Next]_vars => IInv'
<1> SUFFICES ASSUME IInv, [Next]_vars PROVE IInv'
    OBVIOUS
<1>1. CASE ExitSignal \/ StopNext
    BY <1>1, StopStep
<1>2. CASE (\E c \in Channels : MemberSends(c)) \/ MemberReceives \/ MemberEnds
    BY <1>2, MemberStep
<1>3. CASE Aggregator
    BY <1>3, AggregatorStep
<1>4. CASE Forwarder
    BY <1>4, ForwarderStep
<1>5. CASE StoreForwards
    <2>1. Pass("to store", "to member") /\ UNCHANGED <<task, forwarding, stopping, network, session>>
        BY <1>5 DEF StoreForwards
    <2>2. network => \A c \in failed' : c \in failed \/ MayFail(c)
        BY <2>1, ReceiversAreThere DEF Pass
    <2> QED
        BY <2>1, <2>2, NoTaskEnds
<1>6. CASE StoreExits
    <2>1. ~Over("data store") /\ Over("forwarder")
        BY <1>6, ToldInOrder DEF StoreExits, Over, IInv
    <2> QED
        BY <1>6, <2>1, OtherEnds DEF StoreExits
<1>7. CASE RefresherExits
    <2>1. ~Over("refresher")
        BY <1>7 DEF RefresherExits, Over
    <2> QED
        BY <1>7, <2>1, OtherEnds DEF RefresherExits
<1>8. CASE NetworkEnds \/ SessionsDropped
    <2>2. network \in BOOLEAN
        BY DEF IInv, Stages
    <2>1. ~network' /\ network' \in BOOLEAN /\ UNCHANGED <<task, stopping>>
        <3>1. CASE NetworkEnds
            BY <3>1 DEF NetworkEnds
        <3>2. CASE SessionsDropped
            BY <2>2, <3>2 DEF SessionsDropped
        <3> QED
            BY <1>8, <3>1, <3>2
    <2> QED
        BY <2>1 DEF IInv, Stages, StoppedInOrder, OutlivesItsUsers, ForwardsToTheEnd,
                    ClosedInOrder, Over
<1>9. ASSUME NEW m \in {"aleph", "rmc"}, NetworkSends(m) PROVE IInv'
    <2>1. /\ network /\ session /\ session' = HasReceiver("from network")
          /\ Send("from network", m)
          /\ UNCHANGED <<task, forwarding, stopping, network>>
        BY <1>9 DEF NetworkSends
    <2>2. HasReceiver("from network") \/ MayFail("from network")
        BY <2>1, ReceiversAreThere
    <2>3. MayFail("from network") => Over("forwarder")
        BY DEF MayFail
    <2>4. \A c \in failed' : c \in failed \/ MayFail(c)
        BY <2>1, <2>2 DEF Send
    <2>6. session' \/ Over("forwarder")
        BY <2>1, <2>2, <2>3
    <2> QED
        BY <2>1, <2>4, <2>6, NoTaskEnds
<1>10. CASE UNCHANGED vars
    BY <1>10, NoTaskEnds DEF vars
<1> QED
    BY <1>1, <1>2, <1>3, <1>4, <1>5, <1>6, <1>7, <1>8, <1>9, <1>10 DEF Next

\* While the network task runs, nothing the member or the aggregator sends meets
\* a closed channel, the aggregator does not panic, and a channel on the way in
\* is found closed only after every task it could have served is over.
THEOREM ChannelsCloseInOrder == Spec => []ClosedInOrder
<1>1. IInv => ClosedInOrder
    BY DEF IInv
<1> QED
    BY <1>1, InitIInv, NextIInv, PTL DEF Spec
-----------------------------------------------------------------------------
(* What the channels carry *)

ChannelType ==
    /\ DOMAIN channel = Channels
    /\ \A c \in Channels : channel[c] \in Seq(Kinds(c)) /\ Len(channel[c]) <= MaxMessages

LEMMA KindsAre ==
    /\ Kinds("batches") = {"batch"}
    /\ Kinds("member commands") = {"aleph"} /\ Kinds("to store") = {"aleph"}
    /\ Kinds("to member") = {"aleph"}
    /\ Kinds("aggregator commands") = {"rmc"} /\ Kinds("to aggregator") = {"rmc"}
    /\ Kinds("from network") = {"aleph", "rmc"}
BY DEF Kinds

\* A message that is put into a channel is of a kind it carries.
LEMMA AppendFits ==
    ASSUME ChannelType, NEW c \in Channels, NEW m \in Kinds(c), Len(channel[c]) < MaxMessages
    PROVE  Append(channel[c], m) \in Seq(Kinds(c)) /\ Len(Append(channel[c], m)) <= MaxMessages
<1>1. channel[c] \in Seq(Kinds(c)) /\ MaxMessages \in Nat /\ Len(channel[c]) \in Nat
    BY TasksAssumption DEF ChannelType
<1>2. Append(channel[c], m) \in Seq(Kinds(c)) /\ Len(Append(channel[c], m)) = Len(channel[c]) + 1
    BY <1>1, AppendProperties
<1> QED
    BY <1>1, <1>2

LEMMA TailFits ==
    ASSUME ChannelType, NEW c \in Channels, HasMessage(c)
    PROVE  /\ Tail(channel[c]) \in Seq(Kinds(c)) /\ Len(Tail(channel[c])) <= MaxMessages
           /\ Head(channel[c]) \in Kinds(c)
<1>1. /\ channel[c] \in Seq(Kinds(c)) /\ channel[c] # <<>> /\ Len(channel[c]) <= MaxMessages
      /\ MaxMessages \in Nat /\ Len(channel[c]) \in Nat
    BY TasksAssumption DEF ChannelType, HasMessage
<1>2. /\ Tail(channel[c]) \in Seq(Kinds(c)) /\ Len(Tail(channel[c])) = Len(channel[c]) - 1
      /\ Head(channel[c]) \in Kinds(c)
    BY <1>1, HeadTailProperties
<1> QED
    BY <1>1, <1>2

LEMMA SendFits ==
    ASSUME ChannelType, NEW c \in Channels, NEW m \in Kinds(c), Send(c, m), failed \subseteq Channels
    PROVE  ChannelType' /\ failed' \subseteq Channels
<1>1. CASE HasReceiver(c)
    <2>1. /\ Len(channel[c]) < MaxMessages /\ failed' = failed
          /\ channel' = [channel EXCEPT ![c] = Append(channel[c], m)]
        BY <1>1 DEF Send
    <2>2. Append(channel[c], m) \in Seq(Kinds(c)) /\ Len(Append(channel[c], m)) <= MaxMessages
        BY <2>1, AppendFits
    <2> QED
        BY <2>1, <2>2 DEF ChannelType
<1>2. CASE ~HasReceiver(c)
    BY <1>2 DEF Send, ChannelType
<1> QED
    BY <1>1, <1>2

LEMMA ReceiveFits ==
    ASSUME ChannelType, NEW c \in Channels, Receive(c)
    PROVE  ChannelType'
<1>1. HasMessage(c) /\ channel' = [channel EXCEPT ![c] = Tail(channel[c])]
    BY DEF Receive
<1>2. Tail(channel[c]) \in Seq(Kinds(c)) /\ Len(Tail(channel[c])) <= MaxMessages
    BY <1>1, TailFits
<1> QED
    BY <1>1, <1>2 DEF ChannelType

LEMMA PassFits ==
    ASSUME ChannelType, NEW c \in Channels, NEW d \in Channels, c # d, Pass(c, d),
           Head(channel[c]) \in Kinds(d), failed \subseteq Channels
    PROVE  ChannelType' /\ failed' \subseteq Channels
<1> DEFINE rest == Tail(channel[c])
           more == IF HasReceiver(d) THEN Append(channel[d], Head(channel[c])) ELSE channel[d]
<1>1. rest \in Seq(Kinds(c)) /\ Len(rest) <= MaxMessages
    BY TailFits DEF Pass
<1>2. more \in Seq(Kinds(d)) /\ Len(more) <= MaxMessages
    <2>1. CASE HasReceiver(d)
        BY <2>1, AppendFits DEF Pass
    <2>2. CASE ~HasReceiver(d)
        BY <2>2 DEF ChannelType
    <2> QED
        BY <2>1, <2>2
<1>3. channel' = [channel EXCEPT ![c] = rest, ![d] = more]
    <2>1. CASE HasReceiver(d)
        BY <2>1 DEF Pass
    <2>2. CASE ~HasReceiver(d)
        BY <2>2 DEF Pass, ChannelType
    <2> QED
        BY <2>1, <2>2
<1>4. failed' \subseteq Channels
    BY DEF Pass
<1> HIDE DEF rest, more
<1> QED
    BY <1>1, <1>2, <1>3, <1>4 DEF ChannelType

TaskTypes == ChannelType /\ forwarding \subseteq Parts /\ session \in BOOLEAN /\ failed \subseteq Channels

LEMMA NextTaskTypes == TaskTypes /\ [Next]_vars => TaskTypes'
<1> SUFFICES ASSUME TaskTypes, [Next]_vars PROVE TaskTypes'
    OBVIOUS
<1> USE DEF TaskTypes
<1>0. {"batches", "member commands", "aggregator commands", "from network",
       "to store", "to aggregator", "to member"} \subseteq Channels
    BY DEF Channels
<1>1. ASSUME UNCHANGED <<channel, session, failed>>, forwarding' \subseteq forwarding PROVE TaskTypes'
    BY <1>1 DEF ChannelType
<1>2. ASSUME NEW c \in Channels, MemberSends(c) PROVE TaskTypes'
    <2>1. CASE c = "batches"
        <3>1. Send(c, "batch") /\ UNCHANGED <<forwarding, session>>
            BY <1>2, <2>1 DEF MemberSends
        <3>2. "batch" \in Kinds(c)
            BY <2>1, KindsAre
        <3> QED
            BY <3>1, <3>2, SendFits
    <2>2. CASE c = "member commands"
        <3>1. Send(c, "aleph") /\ UNCHANGED <<forwarding, session>>
            BY <1>2, <2>2 DEF MemberSends
        <3>2. "aleph" \in Kinds(c)
            BY <2>2, KindsAre
        <3> QED
            BY <3>1, <3>2, SendFits
    <2> QED
        BY <1>2, <2>1, <2>2 DEF MemberSends
<1>3. CASE MemberReceives
    BY <1>0, <1>3, ReceiveFits DEF MemberReceives
<1>4. CASE AggregatorSends
    <2>1. Send("aggregator commands", "rmc") /\ UNCHANGED <<forwarding, session>>
        BY <1>4 DEF AggregatorSends
    <2> QED
        BY <1>0, <2>1, KindsAre, SendFits
<1>5. ASSUME NEW c \in Channels, AggregatorReceives(c) PROVE TaskTypes'
    BY <1>5, ReceiveFits DEF AggregatorReceives
<1>6. CASE ForwardData
    <2> DEFINE c == "from network"
               m == Head(channel[c])
               d == IF m = "aleph" THEN "to store" ELSE "to aggregator"
    <2>1. HasMessage(c) /\ Pass(c, d) /\ UNCHANGED <<forwarding, session>>
        BY <1>6 DEF ForwardData
    <2>2. m \in Kinds(c)
        BY <1>0, <2>1, TailFits
    <2>3. m \in Kinds(d)
        BY <2>2, KindsAre
    <2>4. c \in Channels /\ d \in Channels /\ c # d
        BY <1>0
    <2> HIDE DEF d
    <2> QED
        BY <2>1, <2>3, <2>4, PassFits
<1>7. ASSUME NEW c \in {"member commands", "aggregator commands"}, ForwardCommand(c)
      PROVE  TaskTypes'
    <2>1. Receive(c) /\ c \in Channels /\ forwarding' \subseteq forwarding /\ UNCHANGED <<session, failed>>
        BY <1>0, <1>7 DEF ForwardCommand
    <2> QED
        BY <2>1, ReceiveFits
<1>8. CASE StoreForwards
    <2> DEFINE c == "to store"
               d == "to member"
    <2>1. Pass(c, d) /\ UNCHANGED <<forwarding, session>>
        BY <1>8 DEF StoreForwards
    <2>2. Head(channel[c]) \in Kinds(d)
        BY <1>0, <2>1, TailFits, KindsAre DEF Pass
    <2> QED
        BY <1>0, <2>1, <2>2, PassFits
<1>9. ASSUME NEW m \in {"aleph", "rmc"}, NetworkSends(m) PROVE TaskTypes'
    <2>1. Send("from network", m) /\ forwarding' = forwarding
          /\ session' = HasReceiver("from network")
        BY <1>9 DEF NetworkSends
    <2>2. HasReceiver("from network") \in BOOLEAN
        BY DEF HasReceiver, Forwards
    <2> QED
        BY <1>0, <2>1, <2>2, KindsAre, SendFits
<1>10. CASE NetworkEnds \/ SessionsDropped
    BY <1>10 DEF NetworkEnds, SessionsDropped, ChannelType
<1>11. CASE \/ ExitSignal \/ StopNext \/ MemberEnds \/ AggregatorBreaks \/ AggregatorExits
            \/ ForwarderEnds \/ StoreExits \/ RefresherExits \/ UNCHANGED vars
    BY <1>1, <1>11 DEF ExitSignal, StopNext, MemberEnds, AggregatorBreaks, AggregatorExits,
       ForwarderEnds, StoreExits, RefresherExits, vars
<1>12. ASSUME NEW part \in Parts, PartEnds(part) PROVE TaskTypes'
    BY <1>1, <1>12 DEF PartEnds
<1> QED
    BY <1>2, <1>3, <1>4, <1>5, <1>6, <1>7, <1>8, <1>9, <1>10, <1>11, <1>12
       DEF Next, Aggregator, Forwarder

\* Every channel carries only the messages its receiver takes: what AlephBFT
\* sends never reaches the aggregator, nor RMC's the data store.
THEOREM TasksTypeCorrect == Spec => []TypeOK
<1>1. Init => TaskTypes
    <2> SUFFICES ASSUME Init PROVE TaskTypes
        OBVIOUS
    <2>1. \A S : <<>> \in Seq(S) /\ Len(<<>>) = 0
        BY EmptySeq
    <2> QED
        BY <2>1, TasksAssumption DEF Init, TaskTypes, ChannelType
<1>2. IInv /\ TaskTypes => TypeOK
    BY DEF IInv, Stages, TaskTypes, ChannelType, TypeOK
<1> QED
    BY <1>1, <1>2, InitIInv, NextIInv, NextTaskTypes, PTL DEF Spec
=============================================================================
