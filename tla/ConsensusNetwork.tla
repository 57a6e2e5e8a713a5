-------------------------- MODULE ConsensusNetwork --------------------------
(***************************************************************************)
(* The consensus network of every node (network.rs): one task per node,    *)
(* fed by the events of Substrate's network and by a queue of commands,    *)
(* keeps who of its connected peers has proved to be which member of which *)
(* session's committee, and sends a session's data to these peers only.    *)
(*                                                                         *)
(* Substrate's network is external: a connection opens and closes at both  *)
(* ends, each end learns of it in its own time and in order with the       *)
(* messages that come over it, and closing it may lose what is on its way. *)
(* Signatures are external: only who has the key of a member can sign as   *)
(* that member; faulty peers sign any claim with the keys they have.       *)
(***************************************************************************)
EXTENDS Functions, Sequences, FiniteSets

CONSTANTS Peers, Faulty,   \* peer ids, and those of faulty peers
          Nodes,           \* node indices
          Sessions,        \* a finite set of numbers
          Index,           \* Index[s][p]: the node p's key stands for in s
          Recipient,       \* bound: whom data is sent to, nodes or All
          NoNode, NoPeer, All,
          MaxConnects,     \* bound: connections opened, in all
          MaxRestarts      \* bound: restarts, in all

Honest == Peers \ Faulty

ASSUME NetworkAssumption ==
    /\ Faulty \subseteq Peers /\ Sessions \subseteq Nat /\ IsFiniteSet(Sessions)
    /\ Index \in [Sessions -> [Peers -> Nodes \cup {NoNode}]]
    /\ Recipient \subseteq Nodes \cup {All}
    /\ NoNode \notin Nodes /\ NoPeer \notin Peers /\ All \notin Peers \cup Nodes
    /\ MaxConnects \in Nat /\ MaxRestarts \in Nat

\* The two events of a connection and the three kinds of message.
Opened == [kind |-> "opened"]
Closed == [kind |-> "closed"]
Authentication(s, p, i) == [kind |-> "auth", session |-> s, peer |-> p, node |-> i]
AuthenticationRequest(s) == [kind |-> "request", session |-> s]
DataMessage(s) == [kind |-> "data", session |-> s]

Meta == {Authentication(s, p, i) : s \in Sessions, p \in Peers, i \in Nodes}
        \cup {AuthenticationRequest(s) : s \in Sessions}
DataMessages == {DataMessage(s) : s \in Sessions}
Command(m, to) == [msg |-> m, to |-> to]
Commands == {Command(m, to) : m \in Meta, to \in Peers \cup {All}}
            \cup {Command(m, to) : m \in DataMessages, to \in Nodes \cup {All}}

VARIABLES linked,      \* the open connections, sets of two peers
          links,       \* links[p][q]: what is on its way from p to q
          session,     \* session[p][s]: the entry of s in p's sessions
          commands,    \* commands[p]: the queue commands_from_user
          allPeers,    \* allPeers[p]: the keys of all_peers
          auths,       \* auths[p][q][s]: the node q is authenticated as
          toPeer,      \* toPeer[p][s][i]: the peer node i is reached at
          connects, restarts

peersOf == <<allPeers, auths, toPeer>>
bounds == <<connects, restarts>>
vars == <<linked, links, session, commands, peersOf, bounds>>

NoAuths == [s \in Sessions |-> NoNode]
NoRoutes == [s \in Sessions |-> [i \in Nodes |-> NoPeer]]

\* A session's entry is "absent"; "starting" when it is inserted but not yet
\* announced; "open" while its DataNetwork lives; "closed" when that is dropped
\* but the entry is still there; "removed".
TypeOK ==
    /\ linked \subseteq {{p, q} : p, q \in Peers}
    /\ links \in [Peers -> [Honest -> Seq({Opened, Closed} \cup Meta \cup DataMessages)]]
    /\ session \in [Honest -> [Sessions -> {"absent", "starting", "open", "closed", "removed"}]]
    /\ commands \in [Honest -> Seq(Commands)]
    /\ allPeers \in [Honest -> SUBSET Peers]
    /\ auths \in [Honest -> [Peers -> [Sessions -> Nodes \cup {NoNode}]]]
    /\ toPeer \in [Honest -> [Sessions -> [Nodes -> Peers \cup {NoPeer}]]]
    /\ connects \in 0..MaxConnects /\ restarts \in 0..MaxRestarts

Init ==
    /\ linked = {}
    /\ links = [p \in Peers |-> [q \in Honest |-> <<>>]]
    /\ session = [p \in Honest |-> [s \in Sessions |-> "absent"]]
    /\ commands = [p \in Honest |-> <<>>]
    /\ allPeers = [p \in Honest |-> {}]
    /\ auths = [p \in Honest |-> [q \in Peers |-> NoAuths]]
    /\ toPeer = [p \in Honest |-> NoRoutes]
    /\ connects = 0 /\ restarts = 0
----------------------------------------------------------------------------
(* Substrate's network *)

Connect(p, q) ==
    /\ p # q /\ {p, q} \notin linked
    /\ connects < MaxConnects
    /\ connects' = connects + 1
    /\ linked' = linked \cup {{p, q}}
    /\ links' = [a \in Peers |-> [b \in Honest |->
                   IF {a, b} = {p, q} THEN Append(links[a][b], Opened) ELSE links[a][b]]]
    /\ UNCHANGED <<session, commands, peersOf, restarts>>

\* What the receiver sees of a queue whose connection closes: what this
\* connection has still to deliver, the messages after the last event, may be
\* lost.
Cut(queue, delivered) ==
    LET current == {k \in DOMAIN queue :
                       \A j \in k..Len(queue) : queue[j] \notin {Opened, Closed}}
    IN Append(IF delivered THEN queue ELSE SubSeq(queue, 1, Len(queue) - Cardinality(current)),
              Closed)

Disconnect(p, q) ==
    /\ {p, q} \in linked
    /\ linked' = linked \ {{p, q}}
    /\ \E delivered \in SUBSET {<<p, q>>, <<q, p>>} :
          links' = [a \in Peers |-> [b \in Honest |->
                      IF {a, b} = {p, q} THEN Cut(links[a][b], <<a, b>> \in delivered)
                      ELSE links[a][b]]]
    /\ UNCHANGED <<session, commands, peersOf, bounds>>

\* A faulty peer sends anything, one message at a time.
SendFaulty(f, p, m) ==
    /\ {f, p} \in linked
    /\ links[f][p] = <<>>
    /\ ~\E c \in Range(commands[p]) : c.to = f
    /\ links' = [links EXCEPT ![f][p] = <<m>>]
    /\ UNCHANGED <<linked, session, commands, peersOf, bounds>>

\* Node p stops and starts again with the same peer id.
Restart(p) ==
    /\ restarts < MaxRestarts
    /\ restarts' = restarts + 1
    /\ linked' = {l \in linked : p \notin l}
    /\ \E delivered \in SUBSET Peers :
          links' = [a \in Peers |-> [b \in Honest |->
                      IF b = p THEN <<>>
                      ELSE IF a = p /\ {p, b} \in linked THEN Cut(links[p][b], b \in delivered)
                      ELSE links[a][b]]]
    /\ session' = [session EXCEPT ![p] = [s \in Sessions |-> "absent"]]
    /\ commands' = [commands EXCEPT ![p] = <<>>]
    /\ allPeers' = [allPeers EXCEPT ![p] = {}]
    /\ auths' = [auths EXCEPT ![p] = [q \in Peers |-> NoAuths]]
    /\ toPeer' = [toPeer EXCEPT ![p] = NoRoutes]
    /\ UNCHANGED connects
----------------------------------------------------------------------------
(* The users: the consensus party, and AlephBFT and RMC over DataNetwork *)

InSession(p) == {s \in Sessions : session[p][s] \in {"starting", "open", "closed"}}

\* start_session inserts the session under the lock and sends its command after
\* that: the task may run in between, but the party waits for it to return.
StartSession(p, s) ==
    /\ Index[s][p] # NoNode
    /\ \A t \in Sessions :
          session[p][t] # "starting" /\ (t >= s => session[p][t] = "absent")
    /\ session' = [session EXCEPT ![p][s] = "starting"]
    /\ UNCHANGED <<linked, links, commands, peersOf, bounds>>

\* Mutant: connected peers are not told.
AnnounceNothing(p, s) ==
    /\ session[p][s] = "starting"
    /\ session' = [session EXCEPT ![p][s] = "open"]
    /\ UNCHANGED <<linked, links, commands, peersOf, bounds>>

AnnounceSession(p, s) ==
    /\ session[p][s] = "starting"
    /\ session' = [session EXCEPT ![p][s] = "open"]
    /\ commands' = [commands EXCEPT ![p] =
                      Append(@, Command(Authentication(s, p, Index[s][p]), All))]
    /\ UNCHANGED <<linked, links, peersOf, bounds>>

\* The session's tasks end and drop the DataNetwork.
EndSession(p, s) ==
    /\ session[p][s] = "open"
    /\ session' = [session EXCEPT ![p][s] = "closed"]
    /\ UNCHANGED <<linked, links, commands, peersOf, bounds>>

\* Bound: no data while there is data of the session, or a request that data
\* made, on its way.
InFlight(p, s) ==
    \/ \E c \in Range(commands[p]) : c.msg = DataMessage(s)
    \/ \E q \in Honest :
          \/ DataMessage(s) \in Range(links[p][q])
          \/ Command(AuthenticationRequest(s), p) \in Range(commands[q])
    \/ \E q \in Honest : AuthenticationRequest(s) \in Range(links[q][p])

SendData(p, s, to) ==
    /\ session[p][s] = "open"
    /\ ~InFlight(p, s)
    /\ commands' = [commands EXCEPT ![p] = Append(@, Command(DataMessage(s), to))]
    /\ UNCHANGED <<linked, links, session, peersOf, bounds>>
----------------------------------------------------------------------------
(* The task: run, on_command and the handlers of events *)

\* Peers::peers_authenticated_for and get for data, all_peers for the rest.
Recipients(p, c) ==
    IF c.msg.kind = "data"
    THEN {toPeer[p][c.msg.session][i] : i \in {j \in Nodes : c.to \in {All, j}}} \ {NoPeer}
    ELSE IF c.to = All THEN allPeers[p] ELSE {c.to}

\* A message to a peer there is no connection to is dropped.
OnCommand(p) ==
    /\ commands[p] # <<>>
    /\ commands' = [commands EXCEPT ![p] = Tail(@)]
    /\ LET c == Head(commands[p])
           to == {q \in Recipients(p, c) \cap Honest : {p, q} \in linked}
       IN links' = [links EXCEPT ![p] = [q \in Honest |->
                      IF q \in to THEN Append(@[q], c.msg) ELSE @[q]]]
    /\ UNCHANGED <<linked, session, peersOf, bounds>>

\* The next event at p is m, from q.
Receive(p, q, m) ==
    /\ links[q][p] # <<>>
    /\ m = Head(links[q][p])
    /\ links' = [links EXCEPT ![q][p] = Tail(@)]
    /\ UNCHANGED <<linked, bounds>>

\* A command to authenticate to q for each session, in the order in which the
\* map yields them.
Greetings(p, q) ==
    LET mine == InSession(p)
        orders == {f \in [1..Cardinality(mine) -> mine] : Range(f) = mine}
    IN {[k \in DOMAIN order |->
           Command(Authentication(order[k], p, Index[order[k]][p]), q)] : order \in orders}

OnPeerConnected(p, q) ==
    /\ Receive(p, q, Opened)
    /\ allPeers' = [allPeers EXCEPT ![p] = @ \cup {q}]
    /\ auths' = [auths EXCEPT ![p][q] = NoAuths]
    /\ \E greeting \in Greetings(p, q) :
          commands' = [commands EXCEPT ![p] = @ \o greeting]
    /\ UNCHANGED <<session, toPeer>>

\* Mutant: only all_peers forgets q.
OnPeerDisconnectedHalf(p, q) ==
    /\ Receive(p, q, Closed)
    /\ allPeers' = [allPeers EXCEPT ![p] = @ \ {q}]
    /\ auths' = [auths EXCEPT ![p][q] = NoAuths]
    /\ UNCHANGED <<session, commands, toPeer>>

\* Peers::remove takes the routes to q's nodes away.
OnPeerDisconnected(p, q) ==
    /\ Receive(p, q, Closed)
    /\ allPeers' = [allPeers EXCEPT ![p] = @ \ {q}]
    /\ auths' = [auths EXCEPT ![p][q] = NoAuths]
    /\ toPeer' = [toPeer EXCEPT ![p] = [s \in Sessions |-> [i \in Nodes |->
                    IF auths[p][q][s] = i THEN NoPeer ELSE @[s][i]]]]
    /\ UNCHANGED <<session, commands>>

\* The keychain accepts a claim that someone with node i's key signed.
Verified(s, q, i) == Index[s][q] = i \/ \E f \in Faulty : Index[s][f] = i

\* Mutant: a peer may speak for another one.
AcceptsForOthers(p, q, m) ==
    m.session \in InSession(p) /\ Verified(m.session, m.peer, m.node)

AcceptsAuthentication(p, q, m) ==
    m.peer = q /\ m.session \in InSession(p) /\ Verified(m.session, m.peer, m.node)

OnIncomingAuthentication(p, q, m) ==
    /\ Receive(p, q, m)
    /\ m.kind = "auth"
    /\ IF AcceptsAuthentication(p, q, m)
       THEN /\ allPeers' = [allPeers EXCEPT ![p] = @ \cup {m.peer}]
            /\ auths' = [auths EXCEPT ![p][m.peer][m.session] = m.node]
            /\ toPeer' = [toPeer EXCEPT ![p][m.session][m.node] = m.peer]
       ELSE UNCHANGED peersOf
    /\ UNCHANGED <<session, commands>>

OnAuthenticationRequest(p, q, s) ==
    /\ Receive(p, q, AuthenticationRequest(s))
    /\ commands' = IF s \in InSession(p)
                   THEN [commands EXCEPT ![p] =
                           Append(@, Command(Authentication(s, p, Index[s][p]), q))]
                   ELSE commands
    /\ UNCHANGED <<session, peersOf>>

\* Mutant: the request is addressed to a node.
OnIncomingDataAskingNode(p, q, s) ==
    /\ Receive(p, q, DataMessage(s))
    /\ commands' = IF auths[p][q][s] # NoNode THEN commands
                   ELSE [commands EXCEPT ![p] =
                           Append(@, Command(AuthenticationRequest(s), auths[p][q][s]))]
    /\ UNCHANGED <<session, peersOf>>

\* Mutant: the data of strangers is dropped.
OnIncomingDataDropped(p, q, s) ==
    /\ Receive(p, q, DataMessage(s))
    /\ session' = IF auths[p][q][s] # NoNode /\ session[p][s] = "closed"
                  THEN [session EXCEPT ![p][s] = "removed"] ELSE session
    /\ UNCHANGED <<commands, peersOf>>

\* Data of a peer that is authenticated goes to the user; where there is none
\* left, the session is terminated and its entry goes in the same iteration.
\* Another peer is asked to authenticate.
OnIncomingData(p, q, s) ==
    /\ Receive(p, q, DataMessage(s))
    /\ IF auths[p][q][s] # NoNode
       THEN /\ session' = IF session[p][s] = "closed"
                          THEN [session EXCEPT ![p][s] = "removed"] ELSE session
            /\ UNCHANGED commands
       ELSE /\ commands' = [commands EXCEPT ![p] =
                              Append(@, Command(AuthenticationRequest(s), q))]
            /\ UNCHANGED session
    /\ UNCHANGED peersOf

OnEvent(p, q) ==
    \/ OnPeerConnected(p, q) \/ OnPeerDisconnected(p, q)
    \/ \E m \in Meta : OnIncomingAuthentication(p, q, m)
    \/ \E s \in Sessions : OnAuthenticationRequest(p, q, s) \/ OnIncomingData(p, q, s)
----------------------------------------------------------------------------
Next ==
    \/ \E p, q \in Peers : Connect(p, q) \/ Disconnect(p, q)
    \/ \E f \in Faulty, p \in Honest, m \in Meta \cup DataMessages : SendFaulty(f, p, m)
    \/ \E p \in Honest :
          \/ Restart(p)
          \/ \E s \in Sessions :
                \/ StartSession(p, s) \/ AnnounceSession(p, s) \/ EndSession(p, s)
                \/ \E to \in Recipient : SendData(p, s, to)
          \/ OnCommand(p)
          \/ \E q \in Peers : OnEvent(p, q)

\* select! polls its branches in a random order, so neither starves; AlephBFT
\* goes on broadcasting as long as the session lasts.
Fairness ==
    \A p \in Honest :
        /\ WF_vars(OnCommand(p))
        /\ \A q \in Peers \ {p} : WF_vars(OnEvent(p, q))
        /\ \A s \in Sessions : WF_vars(SendData(p, s, All))

Spec == Init /\ [][Next]_vars /\ Fairness
----------------------------------------------------------------------------
(* Properties *)

\* Data of a session goes to connected peers that are authenticated for it:
\* the two maps of Peers agree wherever a peer is routed to, through
\* reconnections, restarts and two peers of one validator.
RoutesAreAuthenticated ==
    \A p, q \in Honest, s \in Sessions, i \in Nodes :
        toPeer[p][s][i] = q => q \in allPeers[p] /\ auths[p][q][s] = i

\* Nobody makes a node send data meant for one member to a peer that has not
\* that member's key.
RoutesToOwner ==
    \A p, q \in Honest, s \in Sessions, i \in Nodes :
        toPeer[p][s][i] = q => Index[s][q] = i

\* A peer counts as connected until the node has seen the connection close: an
\* authentication, which inserts the peer, never brings one back.
NoGhosts ==
    \A p \in Honest, q \in Peers :
        q \in allPeers[p] => {p, q} \in linked \/ Closed \in Range(links[q][p])

\* As long as no two peers are the same node, the peers of a session can never
\* be strangers to each other with nothing left to change it: data is sent to
\* authenticated peers only, and a peer is asked to authenticate only when it
\* sends data.  An authentication that reaches a node before its own session
\* starts is lost, but then that node's will be accepted.
Stranger(p, q, s) == toPeer[p][s][Index[s][q]] # q
Idle(p, q) == commands[p] = <<>> /\ links[q][p] = <<>>
Together(p, q, s) ==
    {p, q} \in linked /\ p # q /\ session[p][s] = "open" /\ session[q][s] = "open"
NoMutualStrangers ==
    \A p, q \in Honest, s \in Sessions :
        Together(p, q, s) /\ Idle(p, q) /\ Idle(q, p)
        => ~(Stranger(p, q, s) /\ Stranger(q, p, s))

\* Two nodes that stay connected in a session they both run come to route the
\* session's data to each other for good, whatever was lost before.
EventuallyRouted ==
    \A p \in Honest : \A q \in Honest \ {p}, s \in Sessions :
        <>[]Together(p, q, s) => <>[]~Stranger(p, q, s)
=============================================================================
