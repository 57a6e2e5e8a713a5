----------------------- MODULE ConsensusNetworkProofs -----------------------
(***************************************************************************)
(* Where the consensus network sends a session's data, for any peers, any  *)
(* of them faulty, any committees, connections and restarts.               *)
(***************************************************************************)
EXTENDS ConsensusNetwork, FiniteSetTheorems, SequenceTheorems, TLAPS

\* What may be on its way over a connection.
Messages == Meta \cup DataMessages
Wire == {Opened, Closed} \cup Meta \cup DataMessages

\* Messages are no events, and tell their kind.
LEMMA Kinds ==
    /\ Opened # Closed
    /\ \A m \in Messages : m \in Wire /\ m # Opened /\ m # Closed
    /\ \A s \in Sessions, p \in Peers, i \in Nodes :
          LET m == Authentication(s, p, i)
          IN m \in Meta /\ m.kind = "auth" /\ m.session = s /\ m.peer = p /\ m.node = i
    /\ \A s \in Sessions : AuthenticationRequest(s) \in Meta /\ DataMessage(s) \in DataMessages
    /\ \A s \in Sessions : AuthenticationRequest(s).kind # "auth" /\ DataMessage(s).kind # "auth"
    /\ \A m \in Meta : m.kind = "auth" =>
          /\ m.session \in Sessions /\ m.peer \in Peers /\ m.node \in Nodes
          /\ m = Authentication(m.session, m.peer, m.node)
    /\ \A m \in Meta : m.kind # "data"
    /\ \A m \in DataMessages : m.kind = "data" /\ m.session \in Sessions
<1> DEFINE A == {Authentication(s, p, i) : s \in Sessions, p \in Peers, i \in Nodes}
           R == {AuthenticationRequest(s) : s \in Sessions}
<1>1. ASSUME NEW m \in A
      PROVE  /\ m.kind = "auth" /\ m.session \in Sessions /\ m.peer \in Peers /\ m.node \in Nodes
             /\ m = Authentication(m.session, m.peer, m.node) /\ m # Opened /\ m # Closed
    BY DEF Authentication, Opened, Closed
<1>2. ASSUME NEW m \in R
      PROVE  m.kind = "request" /\ m # Opened /\ m # Closed
    BY DEF AuthenticationRequest, Opened, Closed
<1>3. ASSUME NEW m \in DataMessages
      PROVE  m.kind = "data" /\ m.session \in Sessions /\ m # Opened /\ m # Closed
    BY DEF DataMessages, DataMessage, Opened, Closed
<1>4. Meta = A \cup R
    BY DEF Meta
<1>5. ASSUME NEW s \in Sessions, NEW p \in Peers, NEW i \in Nodes
      PROVE  LET m == Authentication(s, p, i)
             IN m \in A /\ m.kind = "auth" /\ m.session = s /\ m.peer = p /\ m.node = i
    BY DEF Authentication
<1>6. ASSUME NEW s \in Sessions
      PROVE  /\ AuthenticationRequest(s) \in R /\ DataMessage(s) \in DataMessages
             /\ AuthenticationRequest(s).kind # "auth" /\ DataMessage(s).kind # "auth"
    BY DEF AuthenticationRequest, DataMessage, DataMessages
<1>7. Opened # Closed
    BY DEF Opened, Closed
<1> HIDE DEF A, R
<1> QED
    BY <1>1, <1>2, <1>3, <1>4, <1>5, <1>6, <1>7 DEF Messages, Wire

\* A command is a message and whom it is for.
LEMMA CommandsType ==
    /\ \A c \in Commands : c.msg \in Messages
    /\ \A m \in Meta, q \in Peers \cup {All} :
          Command(m, q) \in Commands /\ Command(m, q).msg = m /\ Command(m, q).to = q
    /\ \A m \in DataMessages, to \in Nodes \cup {All} :
          Command(m, to) \in Commands /\ Command(m, to).msg = m /\ Command(m, to).to = to
<1> DEFINE M == {Command(m, to) : m \in Meta, to \in Peers \cup {All}}
           D == {Command(m, to) : m \in DataMessages, to \in Nodes \cup {All}}
<1>1. Commands = M \cup D
    BY DEF Commands
<1>2. ASSUME NEW m \in Meta, NEW q \in Peers \cup {All}
      PROVE  Command(m, q) \in M /\ Command(m, q).msg = m /\ Command(m, q).to = q
    BY DEF Command
<1>3. ASSUME NEW m \in DataMessages, NEW to \in Nodes \cup {All}
      PROVE  Command(m, to) \in D /\ Command(m, to).msg = m /\ Command(m, to).to = to
    BY DEF Command
<1>4. \A c \in M : c.msg \in Meta
    BY DEF Command
<1>5. \A c \in D : c.msg \in DataMessages
    BY DEF Command
<1> HIDE DEF M, D
<1> QED
    BY <1>1, <1>2, <1>3, <1>4, <1>5 DEF Messages

\* What a sequence holds after Append, Tail and concatenation.
LEMMA AppendRange ==
    ASSUME NEW S, NEW w \in Seq(S), NEW e \in S
    PROVE  Range(Append(w, e)) = Range(w) \cup {e}
<1>1. /\ Append(w, e) \in Seq(S) /\ Len(Append(w, e)) = Len(w) + 1 /\ Len(w) \in Nat
      /\ \A k \in 1..Len(w) : Append(w, e)[k] = w[k]
      /\ Append(w, e)[Len(w) + 1] = e
    BY AppendProperties
<1>2. DOMAIN w = 1..Len(w) /\ DOMAIN Append(w, e) = 1..(Len(w) + 1)
    BY <1>1
<1>3. \A k \in DOMAIN Append(w, e) : Append(w, e)[k] \in Range(w) \cup {e}
    BY <1>1, <1>2 DEF Range
<1>4. \A x \in Range(w) : x \in Range(Append(w, e))
    BY <1>1, <1>2 DEF Range
<1>5. e \in Range(Append(w, e))
    BY <1>1, <1>2 DEF Range
<1> QED
    BY <1>3, <1>4, <1>5 DEF Range

LEMMA TailRange ==
    ASSUME NEW S, NEW w \in Seq(S), w # <<>>
    PROVE  Range(w) = {Head(w)} \cup Range(Tail(w))
<1>1. /\ Head(w) \in S /\ Tail(w) \in Seq(S) /\ Len(Tail(w)) = Len(w) - 1
      /\ \A k \in 1..Len(Tail(w)) : Tail(w)[k] = w[k + 1]
    BY HeadTailProperties
<1>2. DOMAIN w = 1..Len(w) /\ DOMAIN Tail(w) = 1..(Len(w) - 1) /\ Len(w) \in Nat \ {0}
      /\ Head(w) = w[1]
    BY <1>1, EmptySeq
<1>3. \A k \in DOMAIN w : w[k] \in {Head(w)} \cup Range(Tail(w))
    <2> SUFFICES ASSUME NEW k \in DOMAIN w, k # 1 PROVE w[k] \in Range(Tail(w))
        BY <1>2
    <2>1. k - 1 \in DOMAIN Tail(w) /\ Tail(w)[k - 1] = w[k]
        BY <1>1, <1>2
    <2> QED
        BY <2>1 DEF Range
<1>4. \A k \in DOMAIN Tail(w) : Tail(w)[k] \in Range(w)
    <2> SUFFICES ASSUME NEW k \in DOMAIN Tail(w) PROVE Tail(w)[k] \in Range(w)
        OBVIOUS
    <2>1. k + 1 \in DOMAIN w /\ Tail(w)[k] = w[k + 1]
        BY <1>1, <1>2
    <2> QED
        BY <2>1 DEF Range
<1>5. Head(w) \in Range(w)
    BY <1>2 DEF Range
<1> QED
    BY <1>3, <1>4, <1>5 DEF Range
-----------------------------------------------------------------------------
(* Queues of events and messages *)

\* What p makes of the queue w from q, where open says whether the connection
\* is open and here whether q is in all_peers of p.
\* Whatever the queue holds of a connection is followed by its end, unless
\* that is still open; one connection opens after the other has closed.
ClosesAfter(w, open) ==
    \A k \in DOMAIN w : w[k] # Closed => open \/ \E j \in DOMAIN w : k < j /\ w[j] = Closed
OneAtATime(w) ==
    \A k, l \in DOMAIN w : k < l /\ w[k] # Closed /\ w[l] = Opened =>
        \E j \in DOMAIN w : k < j /\ j < l /\ w[j] = Closed

\* A peer of all_peers has a connection that is still to close.
OpensAgain(w, here) ==
    here => \A l \in DOMAIN w : w[l] = Opened => \E j \in DOMAIN w : j < l /\ w[j] = Closed
GoesAway(w, open, here) == here => open \/ \E j \in DOMAIN w : w[j] = Closed

\* Of an open connection p has seen the beginning or has it before itself, and
\* the end has not come.
Begins(w, open, here) ==
    open => \/ \E k \in DOMAIN w : w[k] = Opened /\ \A j \in DOMAIN w : k < j => w[j] # Closed
            \/ here /\ \A j \in DOMAIN w : w[j] # Closed

Seen(w, open, here) ==
    /\ ClosesAfter(w, open) /\ OneAtATime(w) /\ OpensAgain(w, here)
    /\ GoesAway(w, open, here) /\ Begins(w, open, here)

LEMMA SeenEmpty == Seen(<<>>, FALSE, FALSE)
BY DEF Seen, ClosesAfter, OneAtATime, OpensAgain, GoesAway, Begins

LEMMA SeenMessage ==
    ASSUME NEW w \in Seq(Wire), NEW here \in BOOLEAN, Seen(w, TRUE, here), NEW m \in Messages
    PROVE  Seen(Append(w, m), TRUE, here)
<1> DEFINE v == Append(w, m)
           n == Len(w)
<1>1. /\ n \in Nat /\ DOMAIN w = 1..n /\ DOMAIN v = 1..(n + 1)
      /\ \A k \in 1..n : v[k] = w[k]
      /\ v[n + 1] # Opened /\ v[n + 1] # Closed
    BY Kinds, AppendProperties
<1> HIDE DEF v, n
<1>10. ClosesAfter(v, TRUE)
    BY <1>1 DEF Seen, ClosesAfter
<1>11. OneAtATime(v)
    BY <1>1 DEF Seen, OneAtATime
<1>12. OpensAgain(v, here)
    BY <1>1 DEF Seen, OpensAgain
<1>13. GoesAway(v, TRUE, here)
    BY <1>1 DEF Seen, GoesAway
<1>14. Begins(v, TRUE, here)
    BY <1>1 DEF Seen, Begins
<1> QED
    BY <1>10, <1>11, <1>12, <1>13, <1>14 DEF Seen, v

LEMMA SeenOpened ==
    ASSUME NEW w \in Seq(Wire), NEW here \in BOOLEAN, Seen(w, FALSE, here)
    PROVE  Seen(Append(w, Opened), TRUE, here)
<1> DEFINE v == Append(w, Opened)
           n == Len(w)
<1>1. /\ n \in Nat /\ DOMAIN w = 1..n /\ DOMAIN v = 1..(n + 1)
      /\ \A k \in 1..n : v[k] = w[k]
      /\ v[n + 1] = Opened /\ Opened # Closed
    BY Kinds, AppendProperties DEF Wire
<1> HIDE DEF v, n
<1>10. ClosesAfter(v, TRUE)
    BY <1>1 DEF Seen, ClosesAfter
<1>11. OneAtATime(v)
    BY <1>1 DEF Seen, ClosesAfter, OneAtATime
<1>12. OpensAgain(v, here)
    BY <1>1 DEF Seen, GoesAway, OpensAgain
<1>13. GoesAway(v, TRUE, here)
    BY <1>1 DEF Seen, GoesAway
<1>14. Begins(v, TRUE, here)
    BY <1>1 DEF Seen, Begins
<1> QED
    BY <1>10, <1>11, <1>12, <1>13, <1>14 DEF Seen, v

\* Cutting a queue leaves a part of it, and the end.
LEMMA CutIs ==
    ASSUME NEW w \in Seq(Wire), NEW d \in BOOLEAN
    PROVE  \E n \in 0..Len(w) :
              /\ Cut(w, d) \in Seq(Wire) /\ DOMAIN Cut(w, d) = 1..(n + 1)
              /\ \A k \in 1..n : Cut(w, d)[k] = w[k]
              /\ Cut(w, d)[n + 1] = Closed
<1> DEFINE current == {k \in DOMAIN w : \A j \in k..Len(w) : w[j] \notin {Opened, Closed}}
           n == IF d THEN Len(w) ELSE Len(w) - Cardinality(current)
           v == IF d THEN w ELSE SubSeq(w, 1, n)
<1>1. Len(w) \in Nat /\ DOMAIN w = 1..Len(w) /\ \A k \in 1..Len(w) : w[k] \in Wire
    BY ElementOfSeq
<1>2. Cardinality(current) \in 0..Len(w)
    <2>1. current \in SUBSET (1..Len(w))
        BY <1>1
    <2>2. IsFiniteSet(1..Len(w)) /\ Cardinality(1..Len(w)) = Len(w)
        BY <1>1, FS_Interval
    <2>3. IsFiniteSet(current) /\ Cardinality(current) =< Len(w)
        BY <2>1, <2>2, FS_Subset
    <2> QED
        BY <1>1, <2>3, FS_CardinalityType
<1>3. n \in 0..Len(w)
    BY <1>1, <1>2
<1>4. v \in Seq(Wire) /\ Len(v) = n /\ \A k \in 1..n : v[k] = w[k]
    <2>1. CASE d
        BY <2>1
    <2>2. CASE ~d
        <3>1. v = SubSeq(w, 1, n)
            BY <2>2
        <3>2. \A k \in 1..n : w[k] \in Wire
            BY <1>1, <1>3
        <3> HIDE DEF n
        <3> QED
            BY <1>3, <3>1, <3>2, SubSeqProperties
    <2> QED
        BY <2>1, <2>2
<1>5. Cut(w, d) = Append(v, Closed)
    BY DEF Cut
<1>6. Append(v, Closed) \in Seq(Wire) /\ Len(Append(v, Closed)) = n + 1
      /\ (\A k \in 1..n : Append(v, Closed)[k] = w[k]) /\ Append(v, Closed)[n + 1] = Closed
    <2>1. Closed \in Wire
        BY DEF Wire
    <2> HIDE DEF n, v
    <2>2. /\ Append(v, Closed) \in Seq(Wire) /\ Len(Append(v, Closed)) = Len(v) + 1
          /\ \A k \in 1..Len(v) : Append(v, Closed)[k] = v[k]
          /\ Append(v, Closed)[Len(v) + 1] = Closed
        BY <1>4, <2>1, AppendProperties
    <2> QED
        BY <1>3, <1>4, <2>2
<1> HIDE DEF n, v
<1> QED
    BY <1>3, <1>5, <1>6

LEMMA SeenCut ==
    ASSUME NEW w \in Seq(Wire), NEW d \in BOOLEAN, NEW open \in BOOLEAN, NEW here \in BOOLEAN, Seen(w, open, here)
    PROVE  Seen(Cut(w, d), FALSE, here)
<1> DEFINE v == Cut(w, d)
<1>1. PICK n \in 0..Len(w) : /\ DOMAIN v = 1..(n + 1) /\ \A k \in 1..n : v[k] = w[k]
                             /\ v[n + 1] = Closed
    BY CutIs
<1>2. n \in Nat /\ Len(w) \in Nat /\ DOMAIN w = 1..Len(w) /\ n =< Len(w) /\ Opened # Closed
    BY Kinds
<1> HIDE DEF v
<1>10. ClosesAfter(v, FALSE)
    BY <1>1, <1>2 DEF Seen, ClosesAfter
<1>11. OneAtATime(v)
    BY <1>1, <1>2 DEF Seen, OneAtATime
<1>12. OpensAgain(v, here)
    BY <1>1, <1>2 DEF Seen, OpensAgain
<1>13. GoesAway(v, FALSE, here)
    BY <1>1, <1>2 DEF Seen, GoesAway
<1>14. Begins(v, FALSE, here)
    BY <1>1, <1>2 DEF Seen, Begins
<1> QED
    BY <1>10, <1>11, <1>12, <1>13, <1>14 DEF Seen, v

\* Taking the next event from the queue.
LEMMA SeenNext ==
    ASSUME NEW w \in Seq(Wire), w # <<>>, NEW open \in BOOLEAN, NEW here \in BOOLEAN, Seen(w, open, here)
    PROVE  /\ Head(w) = Opened => Seen(Tail(w), open, TRUE) /\ ~here
           /\ Head(w) = Closed => Seen(Tail(w), open, FALSE)
           /\ Head(w) \in Messages => Seen(Tail(w), open, here) /\ Seen(Tail(w), open, TRUE)
<1> DEFINE v == Tail(w)
           n == Len(w)
<1>1. /\ n \in Nat \ {0} /\ DOMAIN w = 1..n /\ DOMAIN v = 1..(n - 1) /\ Head(w) = w[1]
      /\ \A k \in 1..(n - 1) : v[k] = w[k + 1]
    BY HeadTailProperties, EmptySeq
<1>2. Opened # Closed /\ \A m \in Messages : m # Opened /\ m # Closed
    BY Kinds
<1> HIDE DEF v, n
<1>3. ASSUME NEW k \in 1..n, k # 1
      PROVE  k - 1 \in DOMAIN v /\ v[k - 1] = w[k]
    <2>1. k - 1 \in 1..(n - 1) /\ (k - 1) + 1 = k
        BY <1>1, <1>3
    <2> QED
        BY <1>1, <2>1
<1>4. ASSUME NEW k \in DOMAIN v
      PROVE  k + 1 \in 1..n /\ v[k] = w[k + 1] /\ k \in 1..n
    BY <1>1
<1>5. ClosesAfter(v, open)
    <2> SUFFICES ASSUME NEW k \in DOMAIN v, v[k] # Closed, ~open
                 PROVE  \E j \in DOMAIN v : k < j /\ v[j] = Closed
        BY DEF ClosesAfter
    <2>1. PICK j \in 1..n : k + 1 < j /\ w[j] = Closed
        BY <1>1, <1>4 DEF Seen, ClosesAfter
    <2>2. j - 1 \in DOMAIN v /\ v[j - 1] = Closed /\ k < j - 1
        BY <1>1, <1>3, <2>1
    <2> QED
        BY <2>2
<1>6. ASSUME NEW k \in 1..n, NEW l \in DOMAIN v, k < l + 1, w[k] # Closed, v[l] = Opened
      PROVE  \E j \in DOMAIN v : k < j + 1 /\ j < l /\ v[j] = Closed
    <2>1. PICK j \in 1..n : k < j /\ j < l + 1 /\ w[j] = Closed
        BY <1>1, <1>4, <1>6 DEF Seen, OneAtATime
    <2>2. j - 1 \in DOMAIN v /\ v[j - 1] = Closed
        BY <1>1, <1>3, <2>1
    <2>3. k < (j - 1) + 1 /\ j - 1 < l
        BY <1>1, <2>1
    <2> QED
        BY <2>2, <2>3
<1>7. OneAtATime(v)
    <2> SUFFICES ASSUME NEW k \in DOMAIN v, NEW l \in DOMAIN v, k < l, v[k] # Closed,
                        v[l] = Opened
                 PROVE  \E j \in DOMAIN v : k < j /\ j < l /\ v[j] = Closed
        BY DEF OneAtATime
    <2>1. k + 1 \in 1..n /\ w[k + 1] # Closed /\ k + 1 < l + 1
        BY <1>1, <1>4
    <2>2. PICK j \in DOMAIN v : k + 1 < j + 1 /\ j < l /\ v[j] = Closed
        BY <1>6, <2>1
    <2> QED
        BY <1>1, <2>2
<1>8. w[1] # Closed => OpensAgain(v, TRUE)
    <2> SUFFICES ASSUME w[1] # Closed, NEW l \in DOMAIN v, v[l] = Opened
                 PROVE  \E j \in DOMAIN v : j < l /\ v[j] = Closed
        BY DEF OpensAgain
    <2>1. 1 \in 1..n /\ 1 < l + 1
        BY <1>1
    <2> QED
        BY <1>6, <2>1
<1>9. w[1] # Closed => GoesAway(v, open, TRUE)
    <2> SUFFICES ASSUME w[1] # Closed, ~open
                 PROVE  \E j \in DOMAIN v : v[j] = Closed
        BY DEF GoesAway
    <2>1. PICK j \in 1..n : 1 < j /\ w[j] = Closed
        BY <1>1 DEF Seen, ClosesAfter
    <2> QED
        BY <1>1, <1>3, <2>1
<1>10. ASSUME NEW k \in 1..n, w[k] = Opened, \A j \in DOMAIN w : k < j => w[j] # Closed
       PROVE  \/ \E l \in DOMAIN v : v[l] = Opened /\ \A j \in DOMAIN v : l < j => v[j] # Closed
              \/ k = 1 /\ \A j \in DOMAIN v : v[j] # Closed
    <2>1. CASE k = 1
        BY <1>1, <1>4, <1>10, <2>1
    <2>2. CASE k # 1
        <3>1. k - 1 \in DOMAIN v /\ v[k - 1] = Opened
            BY <1>3, <1>10, <2>2
        <3>2. ASSUME NEW j \in DOMAIN v, k - 1 < j PROVE v[j] # Closed
            BY <1>1, <1>4, <1>10, <3>2
        <3> QED
            BY <3>1, <3>2
    <2> QED
        BY <2>1, <2>2
<1>11. ASSUME w[1] = Opened
       PROVE  Seen(v, open, TRUE) /\ ~here
    <2>1. ~here
        BY <1>1, <1>11 DEF Seen, OpensAgain
    <2>2. Begins(v, open, TRUE)
        BY <1>1, <1>10, <2>1 DEF Seen, Begins
    <2> QED
        BY <1>2, <1>5, <1>7, <1>8, <1>9, <1>11, <2>1, <2>2 DEF Seen
<1>12. ASSUME w[1] = Closed
       PROVE  Seen(v, open, FALSE)
    <2>1. Begins(v, open, FALSE)
        BY <1>1, <1>2, <1>10, <1>12 DEF Seen, Begins
    <2> QED
        BY <1>5, <1>7, <2>1 DEF Seen, OpensAgain, GoesAway
<1>13. ASSUME w[1] # Closed, w[1] # Opened
       PROVE  Seen(v, open, here) /\ Seen(v, open, TRUE)
    <2>1. ASSUME here, \A j \in DOMAIN w : w[j] # Closed
          PROVE  \A j \in DOMAIN v : v[j] # Closed
        BY <1>1, <1>4, <2>1
    <2>2. Begins(v, open, here)
        BY <1>1, <1>10, <1>13, <2>1 DEF Seen, Begins
    <2> QED
        BY <1>5, <1>7, <1>8, <1>9, <1>13, <2>2 DEF Seen, OpensAgain, GoesAway, Begins
<1> QED
    BY <1>1, <1>2, <1>11, <1>12, <1>13 DEF v
-----------------------------------------------------------------------------
(* Types *)

\* A node is in a session only as a member of its committee.
Members == \A p \in Honest, s \in Sessions : session[p][s] # "absent" => Index[s][p] \in Nodes

\* A node's own authentication.
Own(p, s) == Authentication(s, p, Index[s][p])

LEMMA OwnType ==
    ASSUME TypeOK, Members, NEW p \in Honest, NEW s \in InSession(p)
    PROVE  s \in Sessions /\ Index[s][p] \in Nodes /\ Own(p, s) \in Meta
<1>1. s \in Sessions /\ session[p][s] # "absent" /\ p \in Peers
    BY DEF InSession, Honest
<1>2. Index[s][p] \in Nodes
    BY <1>1 DEF Members
<1> QED
    BY <1>1, <1>2, Kinds DEF Own

\* The greeting of a peer holds one command for each session, and no others.
LEMMA GreetingsType ==
    ASSUME TypeOK, Members, NEW p \in Honest, NEW q \in Peers, NEW greeting \in Greetings(p, q)
    PROVE  /\ greeting \in Seq(Commands)
           /\ Range(greeting) = {Command(Own(p, s), q) : s \in InSession(p)}
<1> DEFINE mine == InSession(p)
           n == Cardinality(mine)
<1>1. PICK order \in [1..n -> mine] :
         /\ Range(order) = mine
         /\ greeting = [k \in DOMAIN order |->
                          Command(Authentication(order[k], p, Index[order[k]][p]), q)]
    BY DEF Greetings
<1>2. greeting = [k \in 1..n |-> Command(Own(p, order[k]), q)]
    BY <1>1 DEF Own
<1>3. n \in Nat
    <2>1. IsFiniteSet(Sessions) /\ mine \in SUBSET Sessions
        BY NetworkAssumption DEF InSession
    <2> QED
        BY <2>1, FS_Subset, FS_CardinalityType
<1> HIDE DEF n
<1>4. ASSUME NEW k \in 1..n PROVE greeting[k] \in Commands
    <2>1. order[k] \in mine
        OBVIOUS
    <2> QED
        BY <1>2, <2>1, OwnType, CommandsType
<1>5. greeting \in Seq(Commands)
    BY <1>2, <1>3, <1>4, IsASeq
<1>6. \A s \in mine : \E k \in 1..n : order[k] = s
    BY <1>1 DEF Range
<1>7. Range(greeting) = {Command(Own(p, s), q) : s \in mine}
    BY <1>2, <1>6 DEF Range
<1> QED
    BY <1>5, <1>7

\* What taking an event from q leaves.
LEMMA ReceiveType ==
    ASSUME TypeOK, NEW p \in Honest, NEW q \in Peers, NEW m, Receive(p, q, m)
    PROVE  /\ links[q][p] \in Seq(Wire) /\ links[q][p] # <<>>
           /\ m = Head(links[q][p]) /\ m \in Wire
           /\ links' = [links EXCEPT ![q][p] = Tail(links[q][p])]
           /\ links' \in [Peers -> [Honest -> Seq(Wire)]]
           /\ linked' = linked /\ bounds' = bounds
<1>1. links \in [Peers -> [Honest -> Seq(Wire)]]
    BY DEF TypeOK, Wire
<1>2. /\ links[q][p] # <<>> /\ m = Head(links[q][p])
      /\ links' = [links EXCEPT ![q][p] = Tail(links[q][p])]
      /\ linked' = linked /\ bounds' = bounds
    BY DEF Receive
<1>3. links[q][p] \in Seq(Wire)
    BY <1>1
<1>4. Tail(links[q][p]) \in Seq(Wire) /\ m \in Wire
    BY <1>2, <1>3, HeadTailProperties
<1> QED
    BY <1>1, <1>2, <1>3, <1>4

LEMMA CutType ==
    ASSUME NEW w \in Seq(Wire), NEW d \in BOOLEAN
    PROVE  Cut(w, d) \in Seq(Wire)
BY CutIs

LEMMA InitType == Init => TypeOK /\ Members
<1> SUFFICES ASSUME Init PROVE TypeOK /\ Members
    OBVIOUS
<1>1. TypeOK
    <2>1. \A S : <<>> \in Seq(S)
        BY EmptySeq
    <2> QED
        BY <2>1, NetworkAssumption DEF Init, TypeOK, NoAuths, NoRoutes
<1> QED
    BY <1>1 DEF Init, Members

LEMMA NextType == TypeOK /\ Members /\ [Next]_vars => TypeOK' /\ Members'
<1> SUFFICES ASSUME TypeOK, Members, [Next]_vars PROVE TypeOK' /\ Members'
    OBVIOUS
<1>1. /\ linked \subseteq {{p, q} : p, q \in Peers}
      /\ links \in [Peers -> [Honest -> Seq(Wire)]]
      /\ session \in [Honest -> [Sessions ->
                        {"absent", "starting", "open", "closed", "removed"}]]
      /\ commands \in [Honest -> Seq(Commands)]
      /\ allPeers \in [Honest -> SUBSET Peers]
      /\ auths \in [Honest -> [Peers -> [Sessions -> Nodes \cup {NoNode}]]]
      /\ toPeer \in [Honest -> [Sessions -> [Nodes -> Peers \cup {NoPeer}]]]
      /\ connects \in 0..MaxConnects /\ restarts \in 0..MaxRestarts
      /\ Honest \subseteq Peers /\ MaxConnects \in Nat /\ MaxRestarts \in Nat
    BY NetworkAssumption DEF TypeOK, Wire, Honest
<1> DEFINE T1 == linked' \subseteq {{p, q} : p, q \in Peers}
           T2 == links' \in [Peers -> [Honest -> Seq(Wire)]]
           T3 == session' \in [Honest -> [Sessions ->
                        {"absent", "starting", "open", "closed", "removed"}]]
           T4 == commands' \in [Honest -> Seq(Commands)]
           T5 == /\ allPeers' \in [Honest -> SUBSET Peers]
                 /\ auths' \in [Honest -> [Peers -> [Sessions -> Nodes \cup {NoNode}]]]
                 /\ toPeer' \in [Honest -> [Sessions -> [Nodes -> Peers \cup {NoPeer}]]]
           T6 == connects' \in 0..MaxConnects /\ restarts' \in 0..MaxRestarts
<1>2. T1 /\ T2 /\ T3 /\ T4 /\ T5 /\ T6 => TypeOK'
    BY DEF TypeOK, Wire
<1>3. UNCHANGED linked => T1
    BY <1>1
<1>4. UNCHANGED links => T2
    BY <1>1
<1>5. UNCHANGED session => T3 /\ Members'
    BY <1>1 DEF Members
<1>6. UNCHANGED commands => T4
    BY <1>1
<1>7. UNCHANGED peersOf => T5
    BY <1>1 DEF peersOf
<1>8. UNCHANGED bounds => T6
    BY <1>1 DEF bounds
<1> HIDE DEF T1, T2, T3, T4, T5, T6
<1> DEFINE Goal == TypeOK' /\ Members'
<1>9. ASSUME NEW p \in Peers, NEW q \in Peers, Connect(p, q) PROVE Goal
    <2>1. T1
        BY <1>1, <1>9 DEF Connect, T1
    <2>2. ASSUME NEW a \in Peers, NEW b \in Honest
          PROVE  links[a][b] \in Seq(Wire) /\ Append(links[a][b], Opened) \in Seq(Wire)
        <3>1. links[a][b] \in Seq(Wire) /\ Opened \in Wire
            BY <1>1 DEF Wire
        <3> QED
            BY <3>1, AppendProperties
    <2>3. links' = [a \in Peers |-> [b \in Honest |->
                      IF {a, b} = {p, q} THEN Append(links[a][b], Opened) ELSE links[a][b]]]
        BY <1>9 DEF Connect
    <2>4. T2
        BY <2>2, <2>3 DEF T2
    <2>5. T6
        BY <1>1, <1>9 DEF Connect, T6
    <2> QED
        BY <1>2, <1>5, <1>6, <1>7, <1>9, <2>1, <2>4, <2>5 DEF Connect
<1>10. ASSUME NEW p \in Peers, NEW q \in Peers, Disconnect(p, q) PROVE Goal
    <2>1. T1
        BY <1>1, <1>10 DEF Disconnect, T1
    <2>2. PICK delivered \in SUBSET {<<p, q>>, <<q, p>>} :
             links' = [a \in Peers |-> [b \in Honest |->
                         IF {a, b} = {p, q} THEN Cut(links[a][b], <<a, b>> \in delivered)
                         ELSE links[a][b]]]
        BY <1>10 DEF Disconnect
    <2>3. ASSUME NEW a \in Peers, NEW b \in Honest
          PROVE  links[a][b] \in Seq(Wire) /\ Cut(links[a][b], <<a, b>> \in delivered) \in Seq(Wire)
        <3>1. links[a][b] \in Seq(Wire) /\ (<<a, b>> \in delivered) \in BOOLEAN
            BY <1>1
        <3> QED
            BY <3>1, CutType
    <2>4. T2
        BY <2>2, <2>3 DEF T2
    <2> QED
        BY <1>2, <1>5, <1>6, <1>7, <1>8, <1>10, <2>1, <2>4 DEF Disconnect
<1>11. ASSUME NEW f \in Faulty, NEW p \in Honest, NEW m \in Meta \cup DataMessages,
              SendFaulty(f, p, m)
       PROVE  Goal
    <2>1. links' = [links EXCEPT ![f][p] = <<m>>] /\ <<m>> \in Seq(Wire)
        BY <1>11 DEF SendFaulty, Wire
    <2>2. T2
        BY <1>1, <2>1, NetworkAssumption DEF T2
    <2> QED
        BY <1>2, <1>3, <1>5, <1>6, <1>7, <1>8, <1>11, <2>2 DEF SendFaulty
<1>12. ASSUME NEW p \in Honest, Restart(p) PROVE Goal
    <2>1. T1
        BY <1>1, <1>12 DEF Restart, T1
    <2>2. PICK delivered \in SUBSET Peers :
             links' = [a \in Peers |-> [b \in Honest |->
                         IF b = p THEN <<>>
                         ELSE IF a = p /\ {p, b} \in linked THEN Cut(links[p][b], b \in delivered)
                         ELSE links[a][b]]]
        BY <1>12 DEF Restart
    <2>3. ASSUME NEW a \in Peers, NEW b \in Honest
          PROVE  links[a][b] \in Seq(Wire) /\ Cut(links[p][b], b \in delivered) \in Seq(Wire)
        <3>1. /\ links[a][b] \in Seq(Wire) /\ links[p][b] \in Seq(Wire)
              /\ (b \in delivered) \in BOOLEAN
            BY <1>1
        <3> QED
            BY <3>1, CutType
    <2>4. T2
        BY <2>2, <2>3, EmptySeq DEF T2
    <2>5. T3 /\ Members'
        BY <1>1, <1>12 DEF Restart, T3, Members
    <2>6. T4
        BY <1>1, <1>12, EmptySeq DEF Restart, T4
    <2>7. T5
        BY <1>1, <1>12 DEF Restart, T5, NoAuths, NoRoutes
    <2>8. T6
        BY <1>1, <1>12 DEF Restart, T6
    <2> QED
        BY <1>2, <2>1, <2>4, <2>5, <2>6, <2>7, <2>8
<1>13. ASSUME NEW p \in Honest, NEW s \in Sessions, StartSession(p, s) PROVE Goal
    <2>1. T3
        BY <1>1, <1>13 DEF StartSession, T3
    <2>2. Members'
        BY <1>1, <1>13, NetworkAssumption DEF StartSession, Members
    <2> QED
        BY <1>2, <1>3, <1>4, <1>6, <1>7, <1>8, <1>13, <2>1, <2>2 DEF StartSession
<1>14. ASSUME NEW p \in Honest, NEW s \in Sessions, AnnounceSession(p, s) PROVE Goal
    <2>1. T3 /\ Members'
        BY <1>1, <1>14 DEF AnnounceSession, T3, Members
    <2>2. s \in InSession(p)
        BY <1>14 DEF AnnounceSession, InSession
    <2>3. Command(Own(p, s), All) \in Commands
        BY <2>2, OwnType, CommandsType
    <2>4. commands' = [commands EXCEPT ![p] = Append(@, Command(Own(p, s), All))]
        BY <1>14 DEF AnnounceSession, Own
    <2>5. T4
        BY <1>1, <2>3, <2>4, AppendProperties DEF T4
    <2> QED
        BY <1>2, <1>3, <1>4, <1>7, <1>8, <1>14, <2>1, <2>5 DEF AnnounceSession
<1>15. ASSUME NEW p \in Honest, NEW s \in Sessions, EndSession(p, s) PROVE Goal
    <2>1. T3 /\ Members'
        BY <1>1, <1>15 DEF EndSession, T3, Members
    <2> QED
        BY <1>2, <1>3, <1>4, <1>6, <1>7, <1>8, <1>15, <2>1 DEF EndSession
<1>16. ASSUME NEW p \in Honest, NEW s \in Sessions, NEW to \in Recipient, SendData(p, s, to)
       PROVE  Goal
    <2>1. Command(DataMessage(s), to) \in Commands
        BY NetworkAssumption, Kinds, CommandsType
    <2>2. T4
        BY <1>1, <1>16, <2>1, AppendProperties DEF SendData, T4
    <2> QED
        BY <1>2, <1>3, <1>4, <1>5, <1>7, <1>8, <1>16, <2>2 DEF SendData
<1>17. ASSUME NEW p \in Honest, OnCommand(p) PROVE Goal
    <2> DEFINE c == Head(commands[p])
               to == {q \in Recipients(p, c) \cap Honest : {p, q} \in linked}
    <2>1. /\ commands[p] # <<>> /\ commands[p] \in Seq(Commands)
          /\ commands' = [commands EXCEPT ![p] = Tail(@)]
          /\ links' = [links EXCEPT ![p] = [q \in Honest |->
                         IF q \in to THEN Append(links[p][q], c.msg) ELSE links[p][q]]]
        BY <1>1, <1>17 DEF OnCommand
    <2>2. c \in Commands /\ Tail(commands[p]) \in Seq(Commands)
        BY <2>1, HeadTailProperties
    <2>3. c.msg \in Wire
        BY <2>2, CommandsType, Kinds
    <2> HIDE DEF c, to
    <2>4. ASSUME NEW q \in Honest
          PROVE  links[p][q] \in Seq(Wire) /\ Append(links[p][q], c.msg) \in Seq(Wire)
        BY <1>1, <2>3, AppendProperties
    <2>5. T2
        BY <1>1, <2>1, <2>4 DEF T2
    <2>6. T4
        BY <1>1, <2>1, <2>2 DEF T4
    <2> QED
        BY <1>2, <1>3, <1>5, <1>7, <1>8, <1>17, <2>5, <2>6 DEF OnCommand
<1>18. ASSUME NEW p \in Honest, NEW q \in Peers, OnPeerConnected(p, q) PROVE Goal
    <2>1. T1 /\ T2 /\ T6
        BY <1>3, <1>8, <1>18, ReceiveType DEF OnPeerConnected, T2
    <2>2. PICK greeting \in Greetings(p, q) :
             commands' = [commands EXCEPT ![p] = @ \o greeting]
        BY <1>18 DEF OnPeerConnected
    <2>3. commands[p] \o greeting \in Seq(Commands)
        BY <1>1, GreetingsType, ConcatProperties
    <2>4. T4
        BY <1>1, <2>2, <2>3 DEF T4
    <2>5. T5
        BY <1>1, <1>18 DEF OnPeerConnected, T5, NoAuths
    <2> QED
        BY <1>2, <1>5, <1>18, <2>1, <2>4, <2>5 DEF OnPeerConnected
<1>19. ASSUME NEW p \in Honest, NEW q \in Peers, OnPeerDisconnected(p, q) PROVE Goal
    <2>1. T1 /\ T2 /\ T6
        BY <1>3, <1>8, <1>19, ReceiveType DEF OnPeerDisconnected, T2
    <2>2. T5
        BY <1>1, <1>19 DEF OnPeerDisconnected, T5, NoAuths
    <2> QED
        BY <1>2, <1>5, <1>6, <1>19, <2>1, <2>2 DEF OnPeerDisconnected
<1>20. ASSUME NEW p \in Honest, NEW q \in Peers, NEW m \in Meta,
              OnIncomingAuthentication(p, q, m)
       PROVE  Goal
    <2>1. T1 /\ T2 /\ T6
        BY <1>3, <1>8, <1>20, ReceiveType DEF OnIncomingAuthentication, T2
    <2>2. m.session \in Sessions /\ m.peer \in Peers /\ m.node \in Nodes
        BY <1>20, Kinds DEF OnIncomingAuthentication
    <2>3. CASE AcceptsAuthentication(p, q, m)
        <3>1. /\ allPeers' = [allPeers EXCEPT ![p] = @ \cup {m.peer}]
              /\ auths' = [auths EXCEPT ![p][m.peer][m.session] = m.node]
              /\ toPeer' = [toPeer EXCEPT ![p][m.session][m.node] = m.peer]
            BY <1>20, <2>3 DEF OnIncomingAuthentication
        <3>2. T5
            BY <1>1, <2>2, <3>1 DEF T5
        <3> QED
            BY <1>2, <1>5, <1>6, <1>20, <2>1, <3>2 DEF OnIncomingAuthentication
    <2>4. CASE ~AcceptsAuthentication(p, q, m)
        BY <1>2, <1>5, <1>6, <1>7, <1>20, <2>1, <2>4 DEF OnIncomingAuthentication
    <2> QED
        BY <2>3, <2>4
<1>21. ASSUME NEW p \in Honest, NEW q \in Peers, NEW s \in Sessions,
              OnAuthenticationRequest(p, q, s)
       PROVE  Goal
    <2>1. T1 /\ T2 /\ T6
        BY <1>3, <1>8, <1>21, ReceiveType DEF OnAuthenticationRequest, T2
    <2>2. CASE s \in InSession(p)
        <3>1. Command(Own(p, s), q) \in Commands
            BY <2>2, OwnType, CommandsType
        <3>2. commands' = [commands EXCEPT ![p] = Append(@, Command(Own(p, s), q))]
            BY <1>21, <2>2 DEF OnAuthenticationRequest, Own
        <3>3. T4
            BY <1>1, <3>1, <3>2, AppendProperties DEF T4
        <3> QED
            BY <1>2, <1>5, <1>7, <1>21, <2>1, <3>3 DEF OnAuthenticationRequest
    <2>3. CASE s \notin InSession(p)
        BY <1>2, <1>5, <1>6, <1>7, <1>21, <2>1, <2>3 DEF OnAuthenticationRequest
    <2> QED
        BY <2>2, <2>3
<1>22. ASSUME NEW p \in Honest, NEW q \in Peers, NEW s \in Sessions, OnIncomingData(p, q, s)
       PROVE  Goal
    <2>1. T1 /\ T2 /\ T6
        BY <1>3, <1>8, <1>22, ReceiveType DEF OnIncomingData, T2
    <2>2. CASE auths[p][q][s] # NoNode
        <3>1. T3 /\ Members'
            <4>1. CASE session[p][s] = "closed"
                <5>1. session' = [session EXCEPT ![p][s] = "removed"]
                    BY <1>22, <2>2, <4>1 DEF OnIncomingData
                <5> QED
                    BY <1>1, <4>1, <5>1 DEF T3, Members
            <4>2. CASE session[p][s] # "closed"
                BY <1>5, <1>22, <2>2, <4>2 DEF OnIncomingData
            <4> QED
                BY <4>1, <4>2
        <3> QED
            BY <1>2, <1>6, <1>7, <1>22, <2>1, <2>2, <3>1 DEF OnIncomingData
    <2>3. CASE auths[p][q][s] = NoNode
        <3>1. Command(AuthenticationRequest(s), q) \in Commands
            BY Kinds, CommandsType
        <3>2. commands' = [commands EXCEPT ![p] = Append(@, Command(AuthenticationRequest(s), q))]
            BY <1>22, <2>3 DEF OnIncomingData
        <3>3. T4
            BY <1>1, <3>1, <3>2, AppendProperties DEF T4
        <3> QED
            BY <1>2, <1>5, <1>7, <1>22, <2>1, <2>3, <3>3 DEF OnIncomingData
    <2> QED
        BY <2>2, <2>3
<1>23. ASSUME UNCHANGED vars PROVE Goal
    BY <1>2, <1>3, <1>4, <1>5, <1>6, <1>7, <1>8, <1>23 DEF vars
<1> QED
    BY <1>9, <1>10, <1>11, <1>12, <1>13, <1>14, <1>15, <1>16, <1>17, <1>18, <1>19, <1>20,
       <1>21, <1>22, <1>23 DEF Next, OnEvent
-----------------------------------------------------------------------------
(* Connections *)

\* A connection joins two peers.
Pairs == \A l \in linked : \E p, q \in Peers : p # q /\ l = {p, q}

SeenInv ==
    \A p \in Honest, q \in Peers : Seen(links[q][p], {p, q} \in linked, q \in allPeers[p])

LEMMA NextPairs == Pairs /\ [Next]_vars => Pairs'
<1> SUFFICES ASSUME Pairs, [Next]_vars PROVE Pairs'
    OBVIOUS
<1>1. ASSUME NEW p \in Peers, NEW q \in Peers, Connect(p, q) PROVE Pairs'
    BY <1>1 DEF Connect, Pairs
<1>2. ASSUME linked' \subseteq linked PROVE Pairs'
    BY <1>2 DEF Pairs
<1>3. ASSUME NEW p \in Peers, NEW q \in Peers, Disconnect(p, q) PROVE Pairs'
    BY <1>2, <1>3 DEF Disconnect
<1>4. ASSUME NEW p \in Honest, Restart(p) PROVE Pairs'
    BY <1>2, <1>4 DEF Restart
<1>5. ASSUME NEW p \in Honest, NEW q \in Peers, OnEvent(p, q) PROVE linked' = linked
    BY <1>5 DEF OnEvent, OnPeerConnected, OnPeerDisconnected, OnIncomingAuthentication,
       OnAuthenticationRequest, OnIncomingData, Receive
<1>6. CASE UNCHANGED vars
    BY <1>2, <1>6 DEF vars
<1> QED
    BY <1>1, <1>2, <1>3, <1>4, <1>5, <1>6 DEF Next, SendFaulty, StartSession, AnnounceSession,
       EndSession, SendData, OnCommand

\* The queues a node sends to when it takes a command.
LEMMA OnCommandLinks ==
    ASSUME TypeOK, NEW r \in Honest, OnCommand(r)
    PROVE  LET c == Head(commands[r])
           IN /\ c \in Commands /\ c \in Range(commands[r]) /\ c.msg \in Messages
              /\ commands[r] \in Seq(Commands) /\ commands[r] # <<>>
              /\ commands' = [commands EXCEPT ![r] = Tail(commands[r])]
              /\ Tail(commands[r]) \in Seq(Commands)
              /\ Range(commands[r]) = {c} \cup Range(Tail(commands[r]))
              /\ \A q \in Honest : links'[r][q] =
                    IF q \in Recipients(r, c) /\ {r, q} \in linked
                    THEN Append(links[r][q], c.msg) ELSE links[r][q]
              /\ \A a \in Peers \ {r}, q \in Honest : links'[a][q] = links[a][q]
<1> DEFINE c == Head(commands[r])
           to == {q \in Recipients(r, c) \cap Honest : {r, q} \in linked}
<1>1. /\ commands[r] # <<>> /\ commands[r] \in Seq(Commands)
      /\ commands' = [commands EXCEPT ![r] = Tail(commands[r])]
      /\ links' = [links EXCEPT ![r] = [q \in Honest |->
                     IF q \in to THEN Append(links[r][q], c.msg) ELSE links[r][q]]]
    BY DEF OnCommand, TypeOK
<1>2. /\ c \in Commands /\ Tail(commands[r]) \in Seq(Commands)
      /\ Range(commands[r]) = {c} \cup Range(Tail(commands[r]))
    BY <1>1, HeadTailProperties, TailRange
<1>3. c.msg \in Messages
    BY <1>2, CommandsType
<1>4. \A q \in Honest : q \in to <=> q \in Recipients(r, c) /\ {r, q} \in linked
    OBVIOUS
<1>5. links \in [Peers -> [Honest -> Seq(Wire)]] /\ r \in Peers
    BY DEF TypeOK, Wire, Honest
<1> HIDE DEF c, to
<1>6. \A q \in Honest : links'[r][q] =
         IF q \in to THEN Append(links[r][q], c.msg) ELSE links[r][q]
    BY <1>1, <1>5
<1>7. \A a \in Peers \ {r}, q \in Honest : links'[a][q] = links[a][q]
    BY <1>1, <1>5
<1> QED
    BY <1>1, <1>2, <1>3, <1>4, <1>6, <1>7 DEF c

\* Taking an event leaves what it should of its queue.
LEMMA ReceiveSeen ==
    ASSUME TypeOK, SeenInv, NEW r \in Honest, NEW x \in Peers, NEW m, Receive(r, x, m),
           \A p \in Honest, q \in Peers :
               p # r \/ q # x => (q \in allPeers'[p] <=> q \in allPeers[p]),
           m = Opened => x \in allPeers'[r],
           m = Closed => x \notin allPeers'[r],
           m \in Messages => x \in allPeers'[r] \/ (x \in allPeers'[r] <=> x \in allPeers[r])
    PROVE  SeenInv'
<1>1. /\ links[x][r] \in Seq(Wire) /\ links[x][r] # <<>> /\ m = Head(links[x][r])
      /\ m \in Wire /\ links' = [links EXCEPT ![x][r] = Tail(links[x][r])]
      /\ linked' = linked /\ links \in [Peers -> [Honest -> Seq(Wire)]]
    BY ReceiveType DEF TypeOK, Wire
<1> SUFFICES ASSUME NEW p \in Honest, NEW q \in Peers
             PROVE  Seen(links'[q][p], {p, q} \in linked', q \in allPeers'[p])
    BY DEF SeenInv
<1>2. Seen(links[q][p], {p, q} \in linked, q \in allPeers[p])
    BY DEF SeenInv
<1>3. CASE p # r \/ q # x
    <2>1. links'[q][p] = links[q][p]
        BY <1>1, <1>3
    <2>2. (q \in allPeers'[p]) = (q \in allPeers[p])
        BY <1>3
    <2> QED
        BY <1>1, <1>2, <2>1, <2>2
<1>4. CASE p = r /\ q = x
    <2> DEFINE w == links[x][r]
               open == {r, x} \in linked
               here == x \in allPeers[r]
               then == x \in allPeers'[r]
    <2>1. links'[q][p] = Tail(w)
        BY <1>1, <1>4
    <2>2. w \in Seq(Wire) /\ w # <<>> /\ m = Head(w) /\ Seen(w, open, here)
        BY <1>1, <1>2, <1>4
    <2>3. open \in BOOLEAN /\ here \in BOOLEAN /\ then \in BOOLEAN
        OBVIOUS
    <2>4. /\ m = Opened => then = TRUE
          /\ m = Closed => then = FALSE
          /\ m \in Messages => then = TRUE \/ then = here
          /\ m \in {Opened, Closed} \cup Messages
        BY <1>1 DEF Wire, Messages
    <2> HIDE DEF w, open, here, then
    <2>5. Seen(Tail(w), open, then)
        BY <2>2, <2>3, <2>4, SeenNext
    <2> QED
        BY <1>1, <1>4, <2>1, <2>5 DEF open, then
<1> QED
    BY <1>3, <1>4

LEMMA NextSeen == TypeOK /\ Members /\ Pairs /\ SeenInv /\ [Next]_vars => SeenInv'
<1> SUFFICES ASSUME TypeOK, Members, Pairs, SeenInv, [Next]_vars PROVE SeenInv'
    OBVIOUS
<1>1. /\ links \in [Peers -> [Honest -> Seq(Wire)]] /\ Honest \subseteq Peers
      /\ allPeers \in [Honest -> SUBSET Peers]
    BY DEF TypeOK, Wire, Honest
<1>2. ASSUME UNCHANGED <<links, linked, allPeers>> PROVE SeenInv'
    BY <1>2 DEF SeenInv
<1>3. ASSUME NEW p \in Honest, NEW q \in Peers
      PROVE  /\ Seen(links[q][p], {p, q} \in linked, q \in allPeers[p])
             /\ links[q][p] \in Seq(Wire)
             /\ {p, q} \notin linked => Seen(links[q][p], FALSE, q \in allPeers[p])
             /\ {p, q} \in linked => Seen(links[q][p], TRUE, q \in allPeers[p])
    <2>1. Seen(links[q][p], {p, q} \in linked, q \in allPeers[p])
        BY DEF SeenInv
    <2>2. ({p, q} \in linked) = TRUE \/ ({p, q} \in linked) = FALSE
        OBVIOUS
    <2> QED
        BY <1>1, <2>1, <2>2
<1>4. ASSUME NEW a \in Peers, NEW b \in Peers, Connect(a, b) PROVE SeenInv'
    <2> SUFFICES ASSUME NEW p \in Honest, NEW q \in Peers
                 PROVE  Seen(links'[q][p], {p, q} \in linked', q \in allPeers'[p])
        BY DEF SeenInv
    <2>1. /\ links' = [x \in Peers |-> [y \in Honest |->
                         IF {x, y} = {a, b} THEN Append(links[x][y], Opened) ELSE links[x][y]]]
          /\ linked' = linked \cup {{a, b}} /\ {a, b} \notin linked /\ allPeers' = allPeers
        BY <1>4 DEF Connect, peersOf
    <2>2. {p, q} = {q, p}
        OBVIOUS
    <2>3. CASE {q, p} = {a, b}
        <3>1. links'[q][p] = Append(links[q][p], Opened)
            BY <2>1, <2>3
        <3>2. {p, q} \notin linked /\ ({p, q} \in linked') = TRUE
            BY <2>1, <2>2, <2>3
        <3>3. Seen(links[q][p], FALSE, q \in allPeers[p])
            BY <1>3, <3>2
        <3>b. (q \in allPeers[p]) \in BOOLEAN
            OBVIOUS
        <3>4. Seen(Append(links[q][p], Opened), TRUE, q \in allPeers[p])
            BY <1>3, <3>3, <3>b, SeenOpened
        <3> QED
            BY <2>1, <3>1, <3>2, <3>4
    <2>4. CASE {q, p} # {a, b}
        <3>1. links'[q][p] = links[q][p]
            BY <2>1, <2>4
        <3>2. {p, q} # {a, b}
            BY <2>2, <2>4
        <3>3. ({p, q} \in linked') = ({p, q} \in linked)
            <4> DEFINE l == {p, q}
                       k == {a, b}
            <4>1. linked' = linked \cup {k} /\ l # k
                BY <2>1, <3>2
            <4> HIDE DEF l, k
            <4>2. (l \in linked') = (l \in linked)
                BY <4>1
            <4> QED
                BY <4>2 DEF l
        <3> QED
            BY <1>3, <2>1, <3>1, <3>3
    <2> QED
        BY <2>3, <2>4
<1>5. ASSUME NEW a \in Peers, NEW b \in Peers, Disconnect(a, b) PROVE SeenInv'
    <2> SUFFICES ASSUME NEW p \in Honest, NEW q \in Peers
                 PROVE  Seen(links'[q][p], {p, q} \in linked', q \in allPeers'[p])
        BY DEF SeenInv
    <2>1. PICK delivered \in SUBSET {<<a, b>>, <<b, a>>} :
             links' = [x \in Peers |-> [y \in Honest |->
                         IF {x, y} = {a, b} THEN Cut(links[x][y], <<x, y>> \in delivered)
                         ELSE links[x][y]]]
        BY <1>5 DEF Disconnect
    <2>2. linked' = linked \ {{a, b}} /\ {a, b} \in linked /\ allPeers' = allPeers
        BY <1>5 DEF Disconnect, peersOf
    <2>3. {p, q} = {q, p}
        OBVIOUS
    <2>4. CASE {q, p} = {a, b}
        <3>1. links'[q][p] = Cut(links[q][p], <<q, p>> \in delivered)
            BY <2>1, <2>4
        <3>2. ({p, q} \in linked') = FALSE
            BY <2>2, <2>3, <2>4
        <3>3. Seen(Cut(links[q][p], <<q, p>> \in delivered), FALSE, q \in allPeers[p])
            <4>1. /\ (<<q, p>> \in delivered) \in BOOLEAN /\ (q \in allPeers[p]) \in BOOLEAN
                  /\ ({p, q} \in linked) \in BOOLEAN
                OBVIOUS
            <4> QED
                BY <1>3, <4>1, SeenCut
        <3> QED
            BY <2>2, <3>1, <3>2, <3>3
    <2>5. CASE {q, p} # {a, b}
        <3>1. links'[q][p] = links[q][p] /\ ({p, q} \in linked') = ({p, q} \in linked)
            BY <2>1, <2>2, <2>3, <2>5
        <3> QED
            BY <1>3, <2>2, <3>1
    <2> QED
        BY <2>4, <2>5
<1>6. ASSUME NEW f \in Faulty, NEW r \in Honest, NEW m \in Meta \cup DataMessages,
             SendFaulty(f, r, m)
      PROVE  SeenInv'
    <2> SUFFICES ASSUME NEW p \in Honest, NEW q \in Peers
                 PROVE  Seen(links'[q][p], {p, q} \in linked', q \in allPeers'[p])
        BY DEF SeenInv
    <2>1. /\ links' = [links EXCEPT ![f][r] = <<m>>] /\ links[f][r] = <<>>
          /\ linked' = linked /\ {f, r} \in linked /\ allPeers' = allPeers /\ f \in Peers
        BY <1>6, NetworkAssumption DEF SendFaulty, peersOf
    <2>2. CASE p = r /\ q = f
        <3>1. links'[q][p] = <<m>> /\ links[q][p] = <<>>
            BY <1>1, <2>1, <2>2
        <3>2. <<m>> = Append(<<>>, m) /\ m \in Messages
            BY DEF Messages
        <3>3. {p, q} \in linked
            <4>1. {p, q} = {f, r}
                BY <2>2
            <4> QED
                BY <2>1, <4>1
        <3>4. Seen(links[q][p], TRUE, q \in allPeers[p])
            BY <1>3, <3>3
        <3>b. (q \in allPeers[p]) \in BOOLEAN
            OBVIOUS
        <3>5. Seen(Append(links[q][p], m), TRUE, q \in allPeers[p])
            BY <1>3, <3>2, <3>4, <3>b, SeenMessage
        <3>6. ({p, q} \in linked') = TRUE
            BY <2>1, <3>3
        <3> QED
            BY <2>1, <3>1, <3>2, <3>5, <3>6
    <2>3. CASE p # r \/ q # f
        <3>1. links'[q][p] = links[q][p]
            BY <1>1, <2>1, <2>3
        <3> QED
            BY <1>3, <2>1, <3>1
    <2> QED
        BY <2>2, <2>3
<1>7. ASSUME NEW r \in Honest, Restart(r) PROVE SeenInv'
    <2> SUFFICES ASSUME NEW p \in Honest, NEW q \in Peers
                 PROVE  Seen(links'[q][p], {p, q} \in linked', q \in allPeers'[p])
        BY DEF SeenInv
    <2>1. PICK delivered \in SUBSET Peers :
             links' = [a \in Peers |-> [b \in Honest |->
                         IF b = r THEN <<>>
                         ELSE IF a = r /\ {r, b} \in linked THEN Cut(links[r][b], b \in delivered)
                         ELSE links[a][b]]]
        BY <1>7 DEF Restart
    <2>2. /\ linked' = {l \in linked : r \notin l}
          /\ allPeers' = [allPeers EXCEPT ![r] = {}]
        BY <1>7 DEF Restart
    <2>3. CASE p = r
        <3>1. links'[q][p] = <<>>
            BY <2>1, <2>3
        <3>2. ({p, q} \in linked') = FALSE /\ (q \in allPeers'[p]) = FALSE
            BY <1>1, <2>2, <2>3
        <3> QED
            BY <3>1, <3>2, SeenEmpty
    <2>4. CASE p # r /\ q = r
        <3>1. ({p, q} \in linked') = FALSE /\ (q \in allPeers'[p]) = (q \in allPeers[p])
            BY <1>1, <2>2, <2>4
        <3>2. {r, p} = {p, q}
            BY <2>4
        <3>3. CASE {p, q} \in linked
            <4>1. links'[q][p] = Cut(links[q][p], p \in delivered)
                BY <2>1, <2>4, <3>2, <3>3
            <4>2. (p \in delivered) \in BOOLEAN /\ (q \in allPeers[p]) \in BOOLEAN
                OBVIOUS
            <4>3. Seen(Cut(links[q][p], p \in delivered), FALSE, q \in allPeers[p])
                BY <1>3, <3>3, <4>2, SeenCut
            <4> QED
                BY <3>1, <4>1, <4>3
        <3>4. CASE {p, q} \notin linked
            <4>1. links'[q][p] = links[q][p]
                BY <2>1, <2>4, <3>2, <3>4
            <4> QED
                BY <1>3, <3>1, <3>4, <4>1
        <3> QED
            BY <3>3, <3>4
    <2>5. CASE p # r /\ q # r
        <3>1. links'[q][p] = links[q][p]
            BY <2>1, <2>5
        <3>2. /\ ({p, q} \in linked') = ({p, q} \in linked)
              /\ (q \in allPeers'[p]) = (q \in allPeers[p])
            BY <1>1, <2>2, <2>5
        <3> QED
            BY <1>3, <3>1, <3>2
    <2> QED
        BY <2>3, <2>4, <2>5
<1>8. ASSUME NEW r \in Honest, OnCommand(r) PROVE SeenInv'
    <2> SUFFICES ASSUME NEW p \in Honest, NEW q \in Peers
                 PROVE  Seen(links'[q][p], {p, q} \in linked', q \in allPeers'[p])
        BY DEF SeenInv
    <2> DEFINE c == Head(commands[r])
    <2>1. linked' = linked /\ allPeers' = allPeers
        BY <1>8 DEF OnCommand, peersOf
    <2>2. links'[q][p] = links[q][p] \/
             (q = r /\ {r, p} \in linked /\ links'[q][p] = Append(links[q][p], c.msg))
        <3>1. CASE q = r
            <4>1. links'[r][p] = IF p \in Recipients(r, c) /\ {r, p} \in linked
                                 THEN Append(links[r][p], c.msg) ELSE links[r][p]
                BY <1>8, OnCommandLinks
            <4> QED
                BY <3>1, <4>1
        <3>2. CASE q # r
            <4>1. q \in Peers \ {r}
                BY <3>2
            <4> QED
                BY <1>8, <4>1, OnCommandLinks
        <3> QED
            BY <3>1, <3>2
    <2>3. CASE links'[q][p] = links[q][p]
        BY <1>3, <2>1, <2>3
    <2>4. CASE q = r /\ {r, p} \in linked /\ links'[q][p] = Append(links[q][p], c.msg)
        <3>1. {r, p} = {p, q}
            BY <2>4
        <3>2. {p, q} \in linked /\ ({p, q} \in linked') = TRUE
            BY <2>1, <2>4, <3>1
        <3>3. Seen(links[q][p], TRUE, q \in allPeers[p])
            BY <1>3, <3>2
        <3>b. (q \in allPeers[p]) \in BOOLEAN
            OBVIOUS
        <3>4. c.msg \in Messages
            BY <1>8, OnCommandLinks
        <3> HIDE DEF c
        <3>5. Seen(Append(links[q][p], c.msg), TRUE, q \in allPeers[p])
            BY <1>3, <3>3, <3>4, <3>b, SeenMessage
        <3> QED
            BY <2>1, <2>4, <3>2, <3>5
    <2> QED
        BY <2>2, <2>3, <2>4
<1>9. ASSUME NEW r \in Honest, NEW x \in Peers, OnPeerConnected(r, x) PROVE SeenInv'
    <2>1. /\ Receive(r, x, Opened)
          /\ allPeers' = [allPeers EXCEPT ![r] = @ \cup {x}]
        BY <1>9 DEF OnPeerConnected
    <2>2. \A p \in Honest, q \in Peers :
             p # r \/ q # x => (q \in allPeers'[p] <=> q \in allPeers[p])
        BY <1>1, <2>1
    <2>3. x \in allPeers'[r]
        BY <1>1, <2>1
    <2> QED
        BY <2>1, <2>2, <2>3, Kinds, ReceiveSeen
<1>10. ASSUME NEW r \in Honest, NEW x \in Peers, OnPeerDisconnected(r, x) PROVE SeenInv'
    <2>1. /\ Receive(r, x, Closed)
          /\ allPeers' = [allPeers EXCEPT ![r] = @ \ {x}]
        BY <1>10 DEF OnPeerDisconnected
    <2>2. \A p \in Honest, q \in Peers :
             p # r \/ q # x => (q \in allPeers'[p] <=> q \in allPeers[p])
        BY <1>1, <2>1
    <2>3. x \notin allPeers'[r]
        BY <1>1, <2>1
    <2> QED
        BY <2>1, <2>2, <2>3, Kinds, ReceiveSeen
<1>11. ASSUME NEW r \in Honest, NEW x \in Peers, NEW m \in Messages, Receive(r, x, m),
              UNCHANGED allPeers
       PROVE  SeenInv'
    BY <1>11, Kinds, ReceiveSeen
<1>12. ASSUME NEW r \in Honest, NEW x \in Peers, NEW m \in Meta,
              OnIncomingAuthentication(r, x, m)
       PROVE  SeenInv'
    <2>1. Receive(r, x, m) /\ m \in Messages
        BY <1>12 DEF OnIncomingAuthentication, Messages
    <2>2. CASE AcceptsAuthentication(r, x, m)
        <3>1. allPeers' = [allPeers EXCEPT ![r] = @ \cup {x}]
            BY <1>12, <2>2 DEF OnIncomingAuthentication, AcceptsAuthentication
        <3>2. \A p \in Honest, q \in Peers :
                 p # r \/ q # x => (q \in allPeers'[p] <=> q \in allPeers[p])
            BY <1>1, <3>1
        <3>3. x \in allPeers'[r]
            BY <1>1, <3>1
        <3> QED
            BY <2>1, <3>2, <3>3, Kinds, ReceiveSeen
    <2>3. CASE ~AcceptsAuthentication(r, x, m)
        BY <1>11, <1>12, <2>1, <2>3 DEF OnIncomingAuthentication, peersOf
    <2> QED
        BY <2>2, <2>3
<1>13. ASSUME NEW r \in Honest, NEW x \in Peers, NEW s \in Sessions,
              OnAuthenticationRequest(r, x, s) \/ OnIncomingData(r, x, s)
       PROVE  SeenInv'
    <2>1. AuthenticationRequest(s) \in Messages /\ DataMessage(s) \in Messages
        BY Kinds DEF Messages
    <2> QED
        BY <1>11, <1>13, <2>1 DEF OnAuthenticationRequest, OnIncomingData, peersOf
<1>14. ASSUME NEW p \in Honest, NEW s \in Sessions,
              \/ StartSession(p, s) \/ AnnounceSession(p, s) \/ EndSession(p, s)
              \/ \E to \in Recipient : SendData(p, s, to)
       PROVE  SeenInv'
    BY <1>2, <1>14 DEF StartSession, AnnounceSession, EndSession, SendData, peersOf
<1>15. ASSUME UNCHANGED vars PROVE SeenInv'
    BY <1>2, <1>15 DEF vars, peersOf
<1> QED
    BY <1>4, <1>5, <1>6, <1>7, <1>8, <1>9, <1>10, <1>12, <1>13, <1>14, <1>15
       DEF Next, OnEvent
-----------------------------------------------------------------------------
(* Who says what *)

\* An honest node signs no claim but its own.
Owns(p, m) == m.kind = "auth" => m.session \in Sessions /\ m = Own(p, m.session)

OwnMessages ==
    \A p \in Honest :
        /\ \A c \in Range(commands[p]) : Owns(p, c.msg)
        /\ \A q \in Honest : \A m \in Range(links[p][q]) : Owns(p, m)

LEMMA CutRange ==
    ASSUME NEW w \in Seq(Wire), NEW d \in BOOLEAN
    PROVE  Range(Cut(w, d)) \subseteq Range(w) \cup {Closed}
<1> DEFINE v == Cut(w, d)
<1>1. PICK n \in 0..Len(w) : /\ DOMAIN v = 1..(n + 1) /\ \A k \in 1..n : v[k] = w[k]
                             /\ v[n + 1] = Closed
    BY CutIs
<1>2. n \in Nat /\ Len(w) \in Nat /\ DOMAIN w = 1..Len(w) /\ n =< Len(w)
    OBVIOUS
<1> HIDE DEF v
<1>3. \A k \in DOMAIN v : v[k] = Closed \/ (k \in DOMAIN w /\ v[k] = w[k])
    BY <1>1, <1>2
<1>4. Range(v) \subseteq Range(w) \cup {Closed}
    BY <1>3 DEF Range
<1> QED
    BY <1>4 DEF v

\* What is on its way from an honest node was there before, or is an event, or
\* has been commanded.
LEMMA NextLinks ==
    ASSUME TypeOK, Next, NEW p \in Honest, NEW q \in Honest, NEW m \in Range(links'[p][q])
    PROVE  m \in Range(links[p][q]) \/ m \in {Opened, Closed}
           \/ \E c \in Range(commands[p]) : m = c.msg
<1>1. /\ links \in [Peers -> [Honest -> Seq(Wire)]] /\ Honest \subseteq Peers
      /\ links[p][q] \in Seq(Wire)
    <2>1. links \in [Peers -> [Honest -> Seq(Wire)]]
        BY DEF TypeOK, Wire
    <2>2. Honest \subseteq Peers
        BY DEF Honest
    <2> QED
        BY <2>1, <2>2
<1> DEFINE Goal == m \in Range(links[p][q]) \/ m \in {Opened, Closed}
                   \/ \E c \in Range(commands[p]) : m = c.msg
<1>2. ASSUME links'[p][q] = links[p][q] PROVE Goal
    BY <1>2
<1>3. ASSUME NEW a \in Peers, NEW b \in Peers, Connect(a, b) PROVE Goal
    <2>1. links'[p][q] = Append(links[p][q], Opened) \/ links'[p][q] = links[p][q]
        BY <1>1, <1>3 DEF Connect
    <2>2. Range(Append(links[p][q], Opened)) = Range(links[p][q]) \cup {Opened}
        <3>1. Opened \in Wire
            BY DEF Wire
        <3> QED
            BY <1>1, <3>1, AppendRange
    <2> QED
        BY <1>2, <2>1, <2>2
<1>4. ASSUME \E d \in BOOLEAN : links'[p][q] = Cut(links[p][q], d) PROVE Goal
    BY <1>1, <1>4, CutRange
<1>5. ASSUME NEW a \in Peers, NEW b \in Peers, Disconnect(a, b) PROVE Goal
    <2>1. PICK delivered \in SUBSET {<<a, b>>, <<b, a>>} :
             links' = [x \in Peers |-> [y \in Honest |->
                         IF {x, y} = {a, b} THEN Cut(links[x][y], <<x, y>> \in delivered)
                         ELSE links[x][y]]]
        BY <1>5 DEF Disconnect
    <2>2. \/ links'[p][q] = Cut(links[p][q], <<p, q>> \in delivered)
          \/ links'[p][q] = links[p][q]
        BY <1>1, <2>1
    <2>3. (<<p, q>> \in delivered) \in BOOLEAN
        OBVIOUS
    <2> QED
        BY <1>2, <1>4, <2>2, <2>3
<1>6. ASSUME NEW f \in Faulty, NEW r \in Honest, NEW x \in Meta \cup DataMessages,
             SendFaulty(f, r, x)
      PROVE  Goal
    <2>1. links' = [links EXCEPT ![f][r] = <<x>>] /\ f # p
        BY <1>6 DEF SendFaulty, Honest
    <2>2. links'[p][q] = links[p][q]
        BY <1>1, <2>1
    <2> QED
        BY <1>2, <2>2
<1>7. ASSUME NEW r \in Honest, Restart(r) PROVE Goal
    <2>1. PICK delivered \in SUBSET Peers :
             links' = [a \in Peers |-> [b \in Honest |->
                         IF b = r THEN <<>>
                         ELSE IF a = r /\ {r, b} \in linked THEN Cut(links[r][b], b \in delivered)
                         ELSE links[a][b]]]
        BY <1>7 DEF Restart
    <2>2. \/ links'[p][q] = <<>>
          \/ links'[p][q] = Cut(links[p][q], q \in delivered)
          \/ links'[p][q] = links[p][q]
        BY <1>1, <2>1
    <2>3. Range(<<>>) = {}
        BY DEF Range
    <2>4. (q \in delivered) \in BOOLEAN
        OBVIOUS
    <2> QED
        BY <1>2, <1>4, <2>2, <2>3, <2>4
<1>8. ASSUME NEW r \in Honest, OnCommand(r) PROVE Goal
    <2> DEFINE c == Head(commands[r])
    <2>1. CASE p # r
        <3>1. p \in Peers \ {r}
            BY <1>1, <2>1
        <3> QED
            BY <1>2, <1>8, <3>1, OnCommandLinks
    <2>2. CASE p = r
        <3>1. /\ c.msg \in Messages /\ c \in Range(commands[p])
              /\ \/ links'[p][q] = links[p][q]
                 \/ links'[p][q] = Append(links[p][q], c.msg)
            BY <1>8, <2>2, OnCommandLinks
        <3>2. c.msg \in Wire
            BY <3>1, Kinds
        <3> HIDE DEF c
        <3>3. Range(Append(links[p][q], c.msg)) = Range(links[p][q]) \cup {c.msg}
            BY <1>1, <3>2, AppendRange
        <3> QED
            BY <1>2, <3>1, <3>3
    <2> QED
        BY <2>1, <2>2
<1>9. ASSUME NEW r \in Honest, NEW x \in Peers, NEW y, Receive(r, x, y) PROVE Goal
    <2>1. /\ links[x][r] \in Seq(Wire) /\ links[x][r] # <<>>
          /\ links' = [links EXCEPT ![x][r] = Tail(links[x][r])]
        BY <1>9, ReceiveType
    <2>2. links'[p][q] = links[p][q] \/
             (links[p][q] # <<>> /\ links'[p][q] = Tail(links[p][q]))
        BY <1>1, <2>1
    <2>3. links[p][q] # <<>> => Range(Tail(links[p][q])) \subseteq Range(links[p][q])
        BY <1>1, TailRange
    <2> QED
        BY <1>2, <2>2, <2>3
<1>10. ASSUME NEW r \in Honest, NEW x \in Peers, OnEvent(r, x) PROVE Goal
    BY <1>9, <1>10 DEF OnEvent, OnPeerConnected, OnPeerDisconnected, OnIncomingAuthentication,
       OnAuthenticationRequest, OnIncomingData
<1> QED
    BY <1>2, <1>3, <1>5, <1>6, <1>7, <1>8, <1>10 DEF Next, StartSession, AnnounceSession,
       EndSession, SendData

\* What is added to a node's commands is no authentication but its own.
LEMMA NextCommands ==
    ASSUME TypeOK, Members, Next, NEW p \in Honest, NEW c \in Range(commands'[p])
    PROVE  c \in Range(commands[p]) \/ Owns(p, c.msg)
<1>1. commands \in [Honest -> Seq(Commands)] /\ commands[p] \in Seq(Commands)
    BY DEF TypeOK
<1> DEFINE Goal == c \in Range(commands[p]) \/ Owns(p, c.msg)
<1>2. ASSUME commands'[p] = commands[p] PROVE Goal
    BY <1>2
<1>3. ASSUME NEW d \in Commands, commands'[p] = Append(commands[p], d), Owns(p, d.msg)
      PROVE  Goal
    <2>1. Range(Append(commands[p], d)) = Range(commands[p]) \cup {d}
        BY <1>1, AppendRange
    <2> QED
        BY <1>3, <2>1
<1>4. ASSUME NEW s \in InSession(p), NEW to \in Peers \cup {All}
      PROVE  LET d == Command(Own(p, s), to) IN d \in Commands /\ Owns(p, d.msg)
    <2>1. s \in Sessions /\ Own(p, s) \in Meta /\ Own(p, s).session = s
        BY OwnType, Kinds DEF Own, Honest
    <2> QED
        BY <2>1, CommandsType DEF Owns
<1>5. ASSUME NEW r \in Honest, Restart(r) PROVE Goal
    <2>1. commands'[p] = <<>> \/ commands'[p] = commands[p]
        BY <1>1, <1>5 DEF Restart
    <2>2. Range(<<>>) = {}
        BY DEF Range
    <2> QED
        BY <1>2, <2>1, <2>2
<1>6. ASSUME NEW r \in Honest, NEW s \in Sessions, AnnounceSession(r, s) PROVE Goal
    <2>1. s \in InSession(r)
        BY <1>6 DEF AnnounceSession, InSession
    <2>2. commands' = [commands EXCEPT ![r] = Append(@, Command(Own(r, s), All))]
        BY <1>6 DEF AnnounceSession, Own
    <2>3. CASE p = r
        <3>1. commands'[p] = Append(commands[p], Command(Own(p, s), All))
            BY <1>1, <2>2, <2>3
        <3> QED
            BY <1>3, <1>4, <2>1, <2>3, <3>1
    <2>4. CASE p # r
        BY <1>1, <1>2, <2>2, <2>4
    <2> QED
        BY <2>3, <2>4
<1>7. ASSUME NEW r \in Honest, NEW s \in Sessions, NEW to \in Recipient, SendData(r, s, to)
      PROVE  Goal
    <2> DEFINE d == Command(DataMessage(s), to)
    <2>1. d \in Commands /\ d.msg = DataMessage(s)
        BY NetworkAssumption, Kinds, CommandsType
    <2>2. Owns(p, d.msg)
        BY <2>1, Kinds DEF Owns
    <2>3. commands' = [commands EXCEPT ![r] = Append(@, d)]
        BY <1>7 DEF SendData
    <2> HIDE DEF d
    <2>4. commands'[p] = Append(commands[p], d) \/ commands'[p] = commands[p]
        BY <1>1, <2>3
    <2> QED
        BY <1>2, <1>3, <2>1, <2>2, <2>4
<1>8. ASSUME NEW r \in Honest, OnCommand(r) PROVE Goal
    <2>1. /\ commands' = [commands EXCEPT ![r] = Tail(commands[r])]
          /\ Range(Tail(commands[r])) \subseteq Range(commands[r])
        BY <1>8, OnCommandLinks
    <2> QED
        BY <1>1, <1>2, <2>1
<1>9. ASSUME NEW r \in Honest, NEW x \in Peers, OnPeerConnected(r, x) PROVE Goal
    <2>1. PICK greeting \in Greetings(r, x) :
             commands' = [commands EXCEPT ![r] = @ \o greeting]
        BY <1>9 DEF OnPeerConnected
    <2>2. CASE p = r
        <3>1. /\ greeting \in Seq(Commands)
              /\ Range(greeting) = {Command(Own(p, s), x) : s \in InSession(p)}
            BY <2>2, GreetingsType
        <3>2. commands'[p] = commands[p] \o greeting
            BY <1>1, <2>1, <2>2
        <3>3. Range(commands[p] \o greeting) = Range(commands[p]) \cup Range(greeting)
            BY <1>1, <3>1, RangeConcatenation
        <3> QED
            BY <1>4, <3>1, <3>2, <3>3
    <2>3. CASE p # r
        BY <1>1, <1>2, <2>1, <2>3
    <2> QED
        BY <2>2, <2>3
<1>10. ASSUME NEW r \in Honest, NEW x \in Peers, NEW s \in Sessions,
              OnAuthenticationRequest(r, x, s)
       PROVE  Goal
    <2>1. CASE p = r /\ s \in InSession(r)
        <3>1. commands'[p] = Append(commands[p], Command(Own(p, s), x))
            BY <1>1, <1>10, <2>1 DEF OnAuthenticationRequest, Own
        <3> QED
            BY <1>3, <1>4, <2>1, <3>1
    <2>2. CASE p # r \/ s \notin InSession(r)
        <3>1. commands'[p] = commands[p]
            BY <1>1, <1>10, <2>2 DEF OnAuthenticationRequest
        <3> QED
            BY <1>2, <3>1
    <2> QED
        BY <2>1, <2>2
<1>11. ASSUME NEW r \in Honest, NEW x \in Peers, NEW s \in Sessions, OnIncomingData(r, x, s)
       PROVE  Goal
    <2> DEFINE d == Command(AuthenticationRequest(s), x)
    <2>1. d \in Commands /\ d.msg = AuthenticationRequest(s)
        BY Kinds, CommandsType
    <2>2. Owns(p, d.msg)
        BY <2>1, Kinds DEF Owns
    <2>3. commands' = commands \/ commands' = [commands EXCEPT ![r] = Append(@, d)]
        BY <1>11 DEF OnIncomingData
    <2> HIDE DEF d
    <2>4. commands'[p] = Append(commands[p], d) \/ commands'[p] = commands[p]
        BY <1>1, <2>3
    <2> QED
        BY <1>2, <1>3, <2>1, <2>2, <2>4
<1>12. ASSUME UNCHANGED commands PROVE Goal
    BY <1>2, <1>12
<1> QED
    BY <1>5, <1>6, <1>7, <1>8, <1>9, <1>10, <1>11, <1>12 DEF Next, OnEvent, Connect, Disconnect,
       SendFaulty, StartSession, EndSession, OnPeerDisconnected, OnIncomingAuthentication

LEMMA NextOwn == TypeOK /\ Members /\ OwnMessages /\ [Next]_vars => OwnMessages'
<1> SUFFICES ASSUME TypeOK, Members, OwnMessages, [Next]_vars PROVE OwnMessages'
    OBVIOUS
<1>1. CASE UNCHANGED vars
    BY <1>1 DEF OwnMessages, vars
<1>2. CASE Next
    <2>1. ASSUME NEW p \in Honest, NEW c \in Range(commands'[p]) PROVE Owns(p, c.msg)
        BY <1>2, <2>1, NextCommands DEF OwnMessages
    <2>2. ASSUME NEW p \in Honest, NEW q \in Honest, NEW m \in Range(links'[p][q])
          PROVE  Owns(p, m)
        <3>1. Owns(p, Opened) /\ Owns(p, Closed)
            BY DEF Owns, Opened, Closed
        <3> QED
            BY <1>2, <3>1, NextLinks DEF OwnMessages
    <2> QED
        BY <2>1, <2>2 DEF OwnMessages
<1> QED
    BY <1>1, <1>2
-----------------------------------------------------------------------------
(* Routes *)

\* A peer is authenticated only as a node whose key it has or is given.
AuthsVerified ==
    \A p \in Honest, q \in Peers, s \in Sessions :
        auths[p][q][s] # NoNode => Verified(s, q, auths[p][q][s])

RoutesInv == AuthsVerified /\ RoutesToOwner /\ RoutesAreAuthenticated

\* A node that sees a connection open has no route over it yet.
LEMMA NoRouteBefore ==
    ASSUME TypeOK, SeenInv, RoutesInv, NEW p \in Honest, NEW q \in Honest,
           Receive(p, q, Opened)
    PROVE  \A s \in Sessions, i \in Nodes : toPeer[p][s][i] # q
<1>1. q \in Peers /\ links[q][p] \in Seq(Wire) /\ links[q][p] # <<>> /\ Head(links[q][p]) = Opened
    BY ReceiveType DEF Honest
<1>2. Seen(links[q][p], {p, q} \in linked, q \in allPeers[p])
    BY <1>1 DEF SeenInv
<1>3. ({p, q} \in linked) \in BOOLEAN /\ (q \in allPeers[p]) \in BOOLEAN
    OBVIOUS
<1>4. q \notin allPeers[p]
    BY <1>1, <1>2, <1>3, SeenNext
<1> QED
    BY <1>4 DEF RoutesInv, RoutesAreAuthenticated

LEMMA NextRoutes ==
    TypeOK /\ SeenInv /\ OwnMessages /\ RoutesInv /\ [Next]_vars => RoutesInv'
<1> SUFFICES ASSUME TypeOK, SeenInv, OwnMessages, RoutesInv, [Next]_vars PROVE RoutesInv'
    OBVIOUS
<1>1. /\ links \in [Peers -> [Honest -> Seq(Wire)]] /\ Honest \subseteq Peers
      /\ allPeers \in [Honest -> SUBSET Peers]
      /\ auths \in [Honest -> [Peers -> [Sessions -> Nodes \cup {NoNode}]]]
      /\ toPeer \in [Honest -> [Sessions -> [Nodes -> Peers \cup {NoPeer}]]]
      /\ NoPeer \notin Peers /\ NoNode \notin Nodes
    BY NetworkAssumption DEF TypeOK, Wire, Honest
<1>2. ASSUME UNCHANGED peersOf PROVE RoutesInv'
    BY <1>2 DEF RoutesInv, AuthsVerified, RoutesToOwner, RoutesAreAuthenticated, peersOf
<1>3. ASSUME NEW r \in Honest, Restart(r) PROVE RoutesInv'
    <2>1. /\ allPeers' = [allPeers EXCEPT ![r] = {}]
          /\ auths' = [auths EXCEPT ![r] = [q \in Peers |-> NoAuths]]
          /\ toPeer' = [toPeer EXCEPT ![r] = NoRoutes]
        BY <1>3 DEF Restart
    <2>2. ASSUME NEW p \in Honest, NEW q \in Peers, NEW s \in Sessions
          PROVE  auths'[p][q][s] = IF p = r THEN NoNode ELSE auths[p][q][s]
        BY <1>1, <2>1 DEF NoAuths
    <2>3. ASSUME NEW p \in Honest, NEW s \in Sessions, NEW i \in Nodes
          PROVE  toPeer'[p][s][i] = IF p = r THEN NoPeer ELSE toPeer[p][s][i]
        BY <1>1, <2>1 DEF NoRoutes
    <2>4. ASSUME NEW p \in Honest PROVE p # r => allPeers'[p] = allPeers[p]
        BY <1>1, <2>1
    <2>5. AuthsVerified'
        BY <2>2 DEF RoutesInv, AuthsVerified
    <2>6. ASSUME NEW p \in Honest, NEW q \in Honest, NEW s \in Sessions, NEW i \in Nodes,
                 toPeer'[p][s][i] = q
          PROVE  Index[s][q] = i /\ q \in allPeers'[p] /\ auths'[p][q][s] = i
        <3>1. q \in Peers /\ q # NoPeer
            BY <1>1
        <3>2. p # r /\ toPeer[p][s][i] = q
            BY <2>3, <2>6, <3>1
        <3>3. Index[s][q] = i /\ q \in allPeers[p] /\ auths[p][q][s] = i
            BY <3>2 DEF RoutesInv, RoutesToOwner, RoutesAreAuthenticated
        <3>4. allPeers'[p] = allPeers[p] /\ auths'[p][q][s] = auths[p][q][s]
            BY <2>2, <2>4, <3>1, <3>2
        <3> QED
            BY <3>3, <3>4
    <2>7. RoutesToOwner' /\ RoutesAreAuthenticated'
        BY <2>6 DEF RoutesToOwner, RoutesAreAuthenticated
    <2> QED
        BY <2>5, <2>7 DEF RoutesInv
<1>4. ASSUME NEW r \in Honest, NEW x \in Peers, OnPeerConnected(r, x) PROVE RoutesInv'
    <2>1. /\ allPeers' = [allPeers EXCEPT ![r] = @ \cup {x}]
          /\ auths' = [auths EXCEPT ![r][x] = NoAuths]
          /\ toPeer' = toPeer /\ Receive(r, x, Opened)
        BY <1>4 DEF OnPeerConnected
    <2>2. ASSUME NEW p \in Honest, NEW q \in Peers, NEW s \in Sessions
          PROVE  auths'[p][q][s] = IF p = r /\ q = x THEN NoNode ELSE auths[p][q][s]
        BY <1>1, <2>1 DEF NoAuths
    <2>3. ASSUME NEW p \in Honest PROVE allPeers[p] \subseteq allPeers'[p]
        BY <1>1, <2>1
    <2>4. x \in Honest => \A s \in Sessions, i \in Nodes : toPeer[r][s][i] # x
        BY <2>1, NoRouteBefore
    <2>5. AuthsVerified'
        BY <2>2 DEF RoutesInv, AuthsVerified
    <2>6. RoutesToOwner'
        BY <2>1 DEF RoutesInv, RoutesToOwner
    <2>7. RoutesAreAuthenticated'
        BY <1>1, <2>1, <2>2, <2>3, <2>4 DEF RoutesInv, RoutesAreAuthenticated
    <2> QED
        BY <2>5, <2>6, <2>7 DEF RoutesInv
<1>5. ASSUME NEW r \in Honest, NEW x \in Peers, OnPeerDisconnected(r, x) PROVE RoutesInv'
    <2>1. /\ allPeers' = [allPeers EXCEPT ![r] = @ \ {x}]
          /\ auths' = [auths EXCEPT ![r][x] = NoAuths]
          /\ toPeer' = [toPeer EXCEPT ![r] = [s \in Sessions |-> [i \in Nodes |->
                           IF auths[r][x][s] = i THEN NoPeer ELSE toPeer[r][s][i]]]]
        BY <1>5 DEF OnPeerDisconnected
    <2>2. ASSUME NEW p \in Honest, NEW q \in Peers, NEW s \in Sessions
          PROVE  auths'[p][q][s] = IF p = r /\ q = x THEN NoNode ELSE auths[p][q][s]
        BY <1>1, <2>1 DEF NoAuths
    <2>3. ASSUME NEW p \in Honest, NEW s \in Sessions, NEW i \in Nodes
          PROVE  toPeer'[p][s][i] = IF p = r /\ auths[r][x][s] = i THEN NoPeer ELSE toPeer[p][s][i]
        BY <1>1, <2>1
    <2>4. ASSUME NEW p \in Honest, NEW q \in Peers, p # r \/ q # x
          PROVE  q \in allPeers[p] => q \in allPeers'[p]
        BY <1>1, <2>1, <2>4
    <2>5. AuthsVerified'
        BY <2>2 DEF RoutesInv, AuthsVerified
    <2>6. RoutesToOwner'
        <3> SUFFICES ASSUME NEW p \in Honest, NEW q \in Honest, NEW s \in Sessions, NEW i \in Nodes,
                            toPeer'[p][s][i] = q
                     PROVE  Index[s][q] = i
            BY DEF RoutesToOwner
        <3>1. q \in Peers /\ q # NoPeer
            BY <1>1
        <3>2. toPeer[p][s][i] = q
            BY <2>3, <3>1
        <3> QED
            BY <3>2 DEF RoutesInv, RoutesToOwner
    <2>7. RoutesAreAuthenticated'
        <3> SUFFICES ASSUME NEW p \in Honest, NEW q \in Honest, NEW s \in Sessions, NEW i \in Nodes,
                            toPeer'[p][s][i] = q
                     PROVE  q \in allPeers'[p] /\ auths'[p][q][s] = i
            BY DEF RoutesAreAuthenticated
        <3>1. toPeer[p][s][i] = q /\ ~(p = r /\ auths[r][x][s] = i)
            BY <1>1, <2>3
        <3>2. q \in allPeers[p] /\ auths[p][q][s] = i
            BY <3>1 DEF RoutesInv, RoutesAreAuthenticated
        <3>3. p # r \/ q # x
            BY <3>1, <3>2
        <3> QED
            BY <1>1, <2>2, <2>4, <3>2, <3>3
    <2> QED
        BY <2>5, <2>6, <2>7 DEF RoutesInv
<1>6. ASSUME NEW r \in Honest, NEW x \in Peers, NEW m \in Meta,
             OnIncomingAuthentication(r, x, m), AcceptsAuthentication(r, x, m)
      PROVE  RoutesInv'
    <2> DEFINE t == m.session
               j == m.node
    <2>1. /\ m.kind = "auth" /\ m.peer = x /\ t \in Sessions /\ j \in Nodes /\ Verified(t, x, j)
        BY <1>6, Kinds DEF OnIncomingAuthentication, AcceptsAuthentication
    <2>2. /\ allPeers' = [allPeers EXCEPT ![r] = @ \cup {x}]
          /\ auths' = [auths EXCEPT ![r][x][t] = j]
          /\ toPeer' = [toPeer EXCEPT ![r][t][j] = x]
        BY <1>6, <2>1 DEF OnIncomingAuthentication
    <2>3. x \in Honest => j = Index[t][x]
        <3> SUFFICES ASSUME x \in Honest PROVE j = Index[t][x]
            OBVIOUS
        <3>1. /\ links[x][r] \in Seq(Wire) /\ links[x][r] # <<>> /\ m = Head(links[x][r])
            BY <1>1, <1>6, ReceiveType DEF OnIncomingAuthentication
        <3>2. m \in Range(links[x][r])
            BY <3>1, TailRange
        <3>3. m = Own(x, t)
            BY <2>1, <3>2 DEF OwnMessages, Owns
        <3> QED
            BY <3>3 DEF Own, Authentication
    <2> HIDE DEF t, j
    <2>4. ASSUME NEW p \in Honest, NEW q \in Peers, NEW s \in Sessions
          PROVE  auths'[p][q][s] = IF p = r /\ q = x /\ s = t THEN j ELSE auths[p][q][s]
        BY <1>1, <2>1, <2>2
    <2>5. ASSUME NEW p \in Honest, NEW s \in Sessions, NEW i \in Nodes
          PROVE  toPeer'[p][s][i] = IF p = r /\ s = t /\ i = j THEN x ELSE toPeer[p][s][i]
        BY <1>1, <2>1, <2>2
    <2>6. ASSUME NEW p \in Honest
          PROVE  allPeers[p] \subseteq allPeers'[p] /\ x \in allPeers'[r]
        BY <1>1, <2>2
    <2>7. AuthsVerified'
        BY <2>1, <2>4 DEF RoutesInv, AuthsVerified
    <2>8. RoutesToOwner'
        BY <2>3, <2>5 DEF RoutesInv, RoutesToOwner
    <2>9. RoutesAreAuthenticated'
        <3> SUFFICES ASSUME NEW p \in Honest, NEW q \in Honest, NEW s \in Sessions, NEW i \in Nodes,
                            toPeer'[p][s][i] = q
                     PROVE  q \in allPeers'[p] /\ auths'[p][q][s] = i
            BY DEF RoutesAreAuthenticated
        <3>1. q \in Peers
            BY <1>1
        <3>2. Index[s][q] = i
            BY <2>8 DEF RoutesToOwner
        <3>3. CASE p = r /\ s = t /\ i = j
            BY <2>4, <2>5, <2>6, <3>1, <3>3
        <3>4. CASE ~(p = r /\ s = t /\ i = j)
            <4>1. q \in allPeers[p] /\ auths[p][q][s] = i
                BY <2>5, <3>4 DEF RoutesInv, RoutesAreAuthenticated
            <4> QED
                BY <2>3, <2>4, <2>6, <3>1, <3>2, <3>4, <4>1
        <3> QED
            BY <3>3, <3>4
    <2> QED
        BY <2>7, <2>8, <2>9 DEF RoutesInv
<1>7. ASSUME NEW r \in Honest, NEW x \in Peers, OnEvent(r, x) PROVE RoutesInv'
    BY <1>2, <1>4, <1>5, <1>6, <1>7 DEF OnEvent, OnIncomingAuthentication,
       OnAuthenticationRequest, OnIncomingData
<1>8. CASE UNCHANGED vars
    BY <1>2, <1>8 DEF vars
<1> QED
    BY <1>2, <1>3, <1>7, <1>8 DEF Next, Connect, Disconnect, SendFaulty, StartSession,
       AnnounceSession, EndSession, SendData, OnCommand
-----------------------------------------------------------------------------
(* Meeting *)

\* No two peers are the same node.
Distinct ==
    \A s \in Sessions, p, q \in Peers :
        p # q /\ Index[s][p] # NoNode => Index[s][p] # Index[s][q]

\* m is on its way and arrives before the connection is seen to close.
Arriving(w, m) == \E k \in DOMAIN w : w[k] = m /\ \A j \in DOMAIN w : k < j => w[j] # Closed

\* p's authentication for s is still to come to q: p has still to see the
\* connection open, and greets q then; or the command is in p's queue, and if
\* it is for everybody then q is among them; or it has been sent.
Owed(p, q, s) ==
    \/ Opened \in Range(links[q][p])
    \/ Command(Own(p, s), q) \in Range(commands[p])
    \/ /\ Command(Own(p, s), All) \in Range(commands[p])
       /\ q \in allPeers[p] /\ Closed \notin Range(links[q][p])
    \/ Arriving(links[p][q], Own(p, s))

\* p sends q its data, and this connection will not make it stop.
Routed(p, q, s) == toPeer[p][s][Index[s][q]] = q /\ Closed \notin Range(links[q][p])

MeetInv ==
    \A p, q \in Honest, s \in Sessions :
        Together(p, q, s) => Owed(p, q, s) \/ Owed(q, p, s) \/ Routed(p, q, s) \/ Routed(q, p, s)

LEMMA ArrivingAppend ==
    ASSUME NEW w \in Seq(Wire), NEW e \in Wire, e # Closed
    PROVE  /\ Arriving(Append(w, e), e)
           /\ \A m : Arriving(w, m) => Arriving(Append(w, e), m)
<1> DEFINE v == Append(w, e)
           n == Len(w)
<1>1. /\ n \in Nat /\ DOMAIN w = 1..n /\ DOMAIN v = 1..(n + 1)
      /\ \A k \in 1..n : v[k] = w[k]
      /\ v[n + 1] = e
    BY AppendProperties
<1> HIDE DEF v, n
<1>2. Arriving(v, e)
    BY <1>1 DEF Arriving
<1>3. ASSUME NEW m, Arriving(w, m) PROVE Arriving(v, m)
    BY <1>1, <1>3 DEF Arriving
<1> QED
    BY <1>2, <1>3 DEF v

LEMMA ArrivingTail ==
    ASSUME NEW w \in Seq(Wire), w # <<>>, NEW m, Arriving(w, m)
    PROVE  Arriving(Tail(w), m) \/ (Head(w) = m /\ Closed \notin Range(Tail(w)))
<1> DEFINE v == Tail(w)
           n == Len(w)
<1>1. /\ n \in Nat \ {0} /\ DOMAIN w = 1..n /\ DOMAIN v = 1..(n - 1) /\ Head(w) = w[1]
      /\ \A k \in 1..(n - 1) : v[k] = w[k + 1]
    BY HeadTailProperties, EmptySeq
<1>2. PICK k \in DOMAIN w : w[k] = m /\ \A j \in DOMAIN w : k < j => w[j] # Closed
    BY DEF Arriving
<1> HIDE DEF v, n
<1>3. CASE k = 1
    <2>1. \A j \in DOMAIN v : v[j] # Closed
        BY <1>1, <1>2, <1>3
    <2> QED
        BY <1>1, <1>2, <1>3, <2>1 DEF Range, v
<1>4. CASE k # 1
    <2>1. k \in 2..n /\ w[k] = m
        BY <1>1, <1>2, <1>4
    <2>2. k - 1 \in DOMAIN v /\ v[k - 1] = m
        BY <1>1, <2>1
    <2>3. ASSUME NEW j \in DOMAIN v, k - 1 < j PROVE v[j] # Closed
        <3>1. j + 1 \in DOMAIN w /\ k < j + 1 /\ v[j] = w[j + 1]
            BY <1>1, <2>1, <2>3
        <3> QED
            BY <1>2, <3>1
    <2> QED
        BY <2>2, <2>3 DEF Arriving, v
<1> QED
    BY <1>3, <1>4

\* A debt stays where nothing is taken away.
LEMMA OwedKept ==
    ASSUME NEW p \in Honest, NEW q \in Honest, NEW s \in Sessions, Owed(p, q, s),
           Opened \in Range(links[q][p]) => Opened \in Range(links'[q][p]),
           Closed \in Range(links'[q][p]) => Closed \in Range(links[q][p]),
           Range(commands[p]) \subseteq Range(commands'[p]),
           q \in allPeers[p] => q \in allPeers'[p],
           Arriving(links[p][q], Own(p, s)) => Arriving(links'[p][q], Own(p, s))
    PROVE  Owed(p, q, s)'
BY DEF Owed, Own

\* An event takes nothing away but itself.
LEMMA OwedReceive ==
    ASSUME TypeOK, NEW r \in Honest, NEW x \in Peers, NEW m, Receive(r, x, m),
           NEW p \in Honest, NEW q \in Honest, NEW s \in Sessions, p # q, Owed(p, q, s),
           Range(commands[p]) \subseteq Range(commands'[p]),
           m # Closed \/ r # p \/ x # q => (q \in allPeers[p] => q \in allPeers'[p]),
           m = Opened /\ r = p /\ x = q => Command(Own(p, s), q) \in Range(commands'[p])
    PROVE  Owed(p, q, s)' \/ (r = q /\ x = p /\ m = Own(p, s) /\ Closed \notin Range(links'[p][q]))
<1>1. /\ links[x][r] \in Seq(Wire) /\ links[x][r] # <<>> /\ m = Head(links[x][r])
      /\ links' = [links EXCEPT ![x][r] = Tail(links[x][r])]
      /\ links \in [Peers -> [Honest -> Seq(Wire)]]
    <2>1. links \in [Peers -> [Honest -> Seq(Wire)]]
        BY DEF TypeOK, Wire
    <2> QED
        BY <2>1, ReceiveType
<1>2. Range(links[x][r]) = {m} \cup Range(Tail(links[x][r]))
    BY <1>1, TailRange
<1>3. p \in Peers /\ q \in Peers
    BY DEF Honest
<1>4. \A a \in Peers, b \in Honest :
         links'[a][b] = IF a = x /\ b = r THEN Tail(links[x][r]) ELSE links[a][b]
    BY <1>1
<1>5. CASE r = p /\ x = q
    <2>1. links'[p][q] = links[p][q]
        BY <1>3, <1>4, <1>5
    <2>2. links'[q][p] = Tail(links[q][p])
        BY <1>3, <1>4, <1>5
    <2>3. Range(links[q][p]) = {m} \cup Range(links'[q][p])
        BY <1>2, <1>5, <2>2
    <2>4. CASE m = Opened
        BY <1>5, <2>4 DEF Owed, Own
    <2>5. CASE m = Closed
        <3>1. \/ Opened \in Range(links'[q][p])
              \/ Command(Own(p, s), q) \in Range(commands'[p])
              \/ Arriving(links'[p][q], Own(p, s))
            BY <2>1, <2>3, <2>5, Kinds DEF Owed
        <3> QED
            BY <3>1 DEF Owed, Own
    <2>6. CASE m # Opened /\ m # Closed
        BY <2>1, <2>3, <2>6, OwedKept
    <2> QED
        BY <2>4, <2>5, <2>6
<1>6. CASE r = q /\ x = p
    <2>1. links'[q][p] = links[q][p]
        BY <1>3, <1>4, <1>6
    <2>2. links'[p][q] = Tail(links[p][q])
        BY <1>3, <1>4, <1>6
    <2>3. q \in allPeers[p] => q \in allPeers'[p]
        BY <1>6
    <2>4. CASE Arriving(links[p][q], Own(p, s)) => Arriving(links'[p][q], Own(p, s))
        BY <2>1, <2>3, <2>4, OwedKept
    <2>5. CASE Arriving(links[p][q], Own(p, s)) /\ ~Arriving(links'[p][q], Own(p, s))
        <3>1. links[p][q] \in Seq(Wire) /\ links[p][q] # <<>>
            BY <1>1, <1>6
        <3>2. Head(links[p][q]) = Own(p, s) /\ Closed \notin Range(Tail(links[p][q]))
            BY <2>2, <2>5, <3>1, ArrivingTail
        <3> QED
            BY <1>1, <1>6, <2>2, <3>2
    <2> QED
        BY <2>4, <2>5
<1>7. CASE ~(r = p /\ x = q) /\ ~(r = q /\ x = p)
    <2>1. links'[p][q] = links[p][q] /\ links'[q][p] = links[q][p]
        BY <1>3, <1>4, <1>7
    <2>2. q \in allPeers[p] => q \in allPeers'[p]
        BY <1>7
    <2> QED
        BY <2>1, <2>2, OwedKept
<1> QED
    BY <1>5, <1>6, <1>7

LEMMA NextOwed ==
    ASSUME TypeOK, Members, Next, NEW p \in Honest, NEW q \in Honest, NEW s \in Sessions,
           Together(p, q, s), Together(p, q, s)', Owed(p, q, s)
    PROVE  Owed(p, q, s)' \/ Routed(q, p, s)'
<1> DEFINE Goal == Owed(p, q, s)' \/ Routed(q, p, s)'
<1>1. /\ p # q /\ p \in Peers /\ q \in Peers /\ {p, q} \in linked /\ {p, q} \in linked'
      /\ s \in InSession(p) /\ s \in InSession(q)
    BY DEF Together, InSession, Honest
<1>2. /\ links \in [Peers -> [Honest -> Seq(Wire)]]
      /\ commands \in [Honest -> Seq(Commands)] /\ commands[p] \in Seq(Commands)
      /\ allPeers \in [Honest -> SUBSET Peers]
    BY DEF TypeOK, Wire
<1>3. ASSUME links'[p][q] = links[p][q], links'[q][p] = links[q][p],
             Range(commands[p]) \subseteq Range(commands'[p]), allPeers'[p] = allPeers[p]
      PROVE  Goal
    BY <1>1, <1>3, OwedKept
<1>4. ASSUME NEW r \in Honest, NEW c \in Commands,
             commands' = [commands EXCEPT ![r] = Append(commands[r], c)]
      PROVE  Range(commands[p]) \subseteq Range(commands'[p])
    <2>1. commands'[p] = Append(commands[p], c) \/ commands'[p] = commands[p]
        BY <1>2, <1>4
    <2>2. Range(Append(commands[p], c)) = Range(commands[p]) \cup {c}
        BY <1>2, AppendRange
    <2> QED
        BY <2>1, <2>2
<1>5. ASSUME NEW a \in Peers, NEW b \in Peers, Connect(a, b) PROVE Goal
    <2>1. {p, q} # {a, b} /\ {q, p} # {a, b}
        BY <1>1, <1>5 DEF Connect
    <2>2. links'[p][q] = links[p][q] /\ links'[q][p] = links[q][p]
        BY <1>1, <1>5, <2>1 DEF Connect
    <2>3. commands' = commands /\ allPeers' = allPeers
        BY <1>5 DEF Connect, peersOf
    <2> QED
        BY <1>3, <2>2, <2>3
<1>6. ASSUME NEW a \in Peers, NEW b \in Peers, Disconnect(a, b) PROVE Goal
    <2>1. {p, q} # {a, b} /\ {q, p} # {a, b}
        BY <1>1, <1>6 DEF Disconnect
    <2>2. links'[p][q] = links[p][q] /\ links'[q][p] = links[q][p]
        BY <1>1, <1>6, <2>1 DEF Disconnect
    <2>3. commands' = commands /\ allPeers' = allPeers
        BY <1>6 DEF Disconnect, peersOf
    <2> QED
        BY <1>3, <2>2, <2>3
<1>7. ASSUME NEW f \in Faulty, NEW r \in Honest, NEW m \in Messages, SendFaulty(f, r, m)
      PROVE  Goal
    <2>1. p # f /\ q # f /\ f \in Peers
        BY NetworkAssumption DEF Honest
    <2>2. links' = [links EXCEPT ![f][r] = <<m>>]
        BY <1>7 DEF SendFaulty
    <2>3. links'[p][q] = links[p][q] /\ links'[q][p] = links[q][p]
        BY <1>1, <1>2, <2>1, <2>2
    <2>4. commands' = commands /\ allPeers' = allPeers
        BY <1>7 DEF SendFaulty, peersOf
    <2> QED
        BY <1>3, <2>3, <2>4
<1>8. ASSUME NEW r \in Honest, Restart(r) PROVE Goal
    <2>1. linked' = {l \in linked : r \notin l}
        BY <1>8 DEF Restart
    <2>2. r # p /\ r # q
        BY <1>1, <2>1
    <2>3. links'[p][q] = links[p][q] /\ links'[q][p] = links[q][p]
        BY <1>1, <1>8, <2>2 DEF Restart
    <2>4. commands'[p] = commands[p] /\ allPeers'[p] = allPeers[p]
        BY <1>2, <1>8, <2>2 DEF Restart
    <2> QED
        BY <1>3, <2>3, <2>4
<1>9. ASSUME UNCHANGED <<links, commands, allPeers>> PROVE Goal
    BY <1>3, <1>9
<1>10. ASSUME NEW r \in Honest, NEW t \in Sessions, AnnounceSession(r, t) PROVE Goal
    <2> DEFINE c == Command(Own(r, t), All)
    <2>1. t \in InSession(r) /\ links' = links /\ allPeers' = allPeers
        BY <1>10 DEF AnnounceSession, InSession, peersOf
    <2>2. c \in Commands
        BY <2>1, OwnType, CommandsType
    <2>3. commands' = [commands EXCEPT ![r] = Append(commands[r], c)]
        BY <1>10 DEF AnnounceSession, Own
    <2> HIDE DEF c
    <2> QED
        BY <1>3, <1>4, <2>1, <2>2, <2>3
<1>11. ASSUME NEW r \in Honest, NEW t \in Sessions, NEW to \in Recipient, SendData(r, t, to)
       PROVE  Goal
    <2> DEFINE c == Command(DataMessage(t), to)
    <2>1. links' = links /\ allPeers' = allPeers
        BY <1>11 DEF SendData, peersOf
    <2>2. c \in Commands
        BY NetworkAssumption, CommandsType, Kinds
    <2>3. commands' = [commands EXCEPT ![r] = Append(commands[r], c)]
        BY <1>11 DEF SendData
    <2> HIDE DEF c
    <2> QED
        BY <1>3, <1>4, <2>1, <2>2, <2>3
<1>12. ASSUME NEW r \in Honest, OnCommand(r) PROVE Goal
    <2> DEFINE c == Head(commands[r])
    <2>1. /\ c \in Commands /\ c.msg \in Messages /\ commands[r] \in Seq(Commands)
          /\ commands' = [commands EXCEPT ![r] = Tail(commands[r])]
          /\ Range(commands[r]) = {c} \cup Range(Tail(commands[r]))
          /\ \A b \in Honest : links'[r][b] =
                IF b \in Recipients(r, c) /\ {r, b} \in linked
                THEN Append(links[r][b], c.msg) ELSE links[r][b]
          /\ \A a \in Peers \ {r}, b \in Honest : links'[a][b] = links[a][b]
        BY <1>12, OnCommandLinks
    <2>2. allPeers' = allPeers
        BY <1>12 DEF OnCommand, peersOf
    <2>3. c.msg \in Wire /\ c.msg # Opened /\ c.msg # Closed
        BY <2>1, Kinds
    <2> HIDE DEF c
    <2>4. /\ links[p][q] \in Seq(Wire) /\ links[q][p] \in Seq(Wire)
          /\ links'[p][q] = links[p][q] \/ links'[p][q] = Append(links[p][q], c.msg)
          /\ links'[q][p] = links[q][p] \/ links'[q][p] = Append(links[q][p], c.msg)
        BY <1>1, <1>2, <2>1
    <2>5. Range(links'[q][p]) = Range(links[q][p]) \/ Range(links'[q][p]) = Range(links[q][p]) \cup {c.msg}
        <3> DEFINE w == links[q][p]
                   m == c.msg
        <3>1. w \in Seq(Wire) /\ m \in Wire
            BY <2>3, <2>4
        <3> HIDE DEF w, m
        <3>2. Range(Append(w, m)) = Range(w) \cup {m}
            BY <3>1, AppendRange
        <3> QED
            BY <2>4, <3>2 DEF w, m
    <2>6. Arriving(links[p][q], Own(p, s)) => Arriving(links'[p][q], Own(p, s))
        BY <2>3, <2>4, ArrivingAppend
    <2>7. CASE r # p
        <3>1. commands'[p] = commands[p]
            BY <1>2, <2>1, <2>7
        <3> QED
            BY <2>2, <2>3, <2>5, <2>6, <3>1, OwedKept
    <2>8. CASE r = p
        <3>1. commands'[p] = Tail(commands[p])
            BY <1>2, <2>1, <2>8
        <3>2. Range(commands[p]) = {c} \cup Range(commands'[p])
            BY <2>1, <2>8, <3>1
        <3>3. Own(p, s) \in Meta
            BY <1>1, OwnType
        <3>4. ASSUME NEW to \in {q, All}, c = Command(Own(p, s), to), to = All => q \in allPeers[p]
              PROVE  Goal
            <4>1. c.msg = Own(p, s) /\ c.to = to
                BY <1>1, <3>3, <3>4, CommandsType
            <4>2. c.msg.kind # "data"
                BY <3>3, <4>1, Kinds
            <4>3. q \in Recipients(p, c)
                BY <3>4, <4>1, <4>2, NetworkAssumption DEF Recipients
            <4>4. links'[p][q] = Append(links[p][q], Own(p, s))
                BY <1>1, <2>1, <2>8, <4>1, <4>3
            <4>5. Arriving(links'[p][q], Own(p, s))
                BY <2>3, <2>4, <4>1, <4>4, ArrivingAppend
            <4> QED
                BY <4>5 DEF Owed, Own
        <3>5. CASE Opened \in Range(links[q][p]) \/ Arriving(links[p][q], Own(p, s))
            BY <2>5, <2>6, <3>5 DEF Owed, Own
        <3>6. CASE Command(Own(p, s), q) \in Range(commands[p])
            <4>1. CASE Command(Own(p, s), q) = c
                BY <1>1, <3>4, <4>1, NetworkAssumption
            <4>2. CASE Command(Own(p, s), q) # c
                <5>1. Command(Own(p, s), q) \in Range(commands'[p])
                    BY <3>2, <3>6, <4>2
                <5> QED
                    BY <5>1 DEF Owed, Own
            <4> QED
                BY <4>1, <4>2
        <3>7. CASE /\ Command(Own(p, s), All) \in Range(commands[p])
                   /\ q \in allPeers[p] /\ Closed \notin Range(links[q][p])
            <4>1. CASE Command(Own(p, s), All) = c
                BY <3>4, <3>7, <4>1
            <4>2. CASE Command(Own(p, s), All) # c
                <5>1. Command(Own(p, s), All) \in Range(commands'[p])
                    BY <3>2, <3>7, <4>2
                <5>2. q \in allPeers'[p] /\ Closed \notin Range(links'[q][p])
                    BY <2>2, <2>3, <2>5, <3>7
                <5> QED
                    BY <5>1, <5>2 DEF Owed, Own
            <4> QED
                BY <4>1, <4>2
        <3> QED
            BY <3>5, <3>6, <3>7 DEF Owed
    <2> QED
        BY <2>7, <2>8
<1>13. Own(p, s) \in Meta /\ Own(p, s).kind = "auth" /\ Own(p, s) # Opened /\ Own(p, s) # Closed
       /\ Own(p, s).session = s /\ Own(p, s).peer = p /\ Own(p, s).node = Index[s][p]
       /\ Index[s][p] \in Nodes
    <2>1. Own(p, s) \in Meta /\ Index[s][p] \in Nodes
        BY <1>1, OwnType
    <2> QED
        BY <1>1, <2>1, Kinds DEF Own, Messages
<1>14. ASSUME NEW r \in Honest, NEW x \in Peers, OnPeerConnected(r, x) PROVE Goal
    <2>1. PICK greeting \in Greetings(r, x) :
             commands' = [commands EXCEPT ![r] = commands[r] \o greeting]
        BY <1>14 DEF OnPeerConnected
    <2>2. Receive(r, x, Opened) /\ allPeers' = [allPeers EXCEPT ![r] = @ \cup {x}]
        BY <1>14 DEF OnPeerConnected
    <2>3. allPeers[p] \subseteq allPeers'[p]
        BY <1>2, <2>2
    <2>4. /\ greeting \in Seq(Commands)
          /\ Range(greeting) = {Command(Own(r, t), x) : t \in InSession(r)}
        BY GreetingsType
    <2>5. p = r => Range(commands'[p]) = Range(commands[p]) \cup Range(greeting)
        BY <1>2, <2>1, <2>4, RangeConcatenation
    <2>6. Range(commands[p]) \subseteq Range(commands'[p])
        BY <1>2, <2>1, <2>5
    <2>7. r = p /\ x = q => Command(Own(p, s), q) \in Range(commands'[p])
        BY <1>1, <2>4, <2>5
    <2> QED
        BY <1>1, <1>13, <2>2, <2>3, <2>6, <2>7, OwedReceive
<1>15. ASSUME NEW r \in Honest, NEW x \in Peers, OnPeerDisconnected(r, x) PROVE Goal
    <2>1. /\ Receive(r, x, Closed) /\ allPeers' = [allPeers EXCEPT ![r] = @ \ {x}]
          /\ commands' = commands
        BY <1>15 DEF OnPeerDisconnected
    <2>2. r # p \/ x # q => (q \in allPeers[p] => q \in allPeers'[p])
        BY <1>2, <2>1
    <2> QED
        BY <1>1, <1>13, <2>1, <2>2, Kinds, OwedReceive
<1>16. ASSUME NEW r \in Honest, NEW x \in Peers, NEW m \in Meta, OnIncomingAuthentication(r, x, m)
       PROVE  Goal
    <2>1. Receive(r, x, m) /\ m.kind = "auth" /\ commands' = commands
        BY <1>16 DEF OnIncomingAuthentication
    <2>2. m # Opened /\ m # Closed
        BY Kinds DEF Messages
    <2>3. allPeers[p] \subseteq allPeers'[p]
        BY <1>2, <1>16 DEF OnIncomingAuthentication, peersOf
    <2>4. CASE r = q /\ x = p /\ m = Own(p, s) /\ Closed \notin Range(links'[p][q])
        <3>1. AcceptsAuthentication(q, p, m)
            BY <1>1, <1>13, <2>4 DEF AcceptsAuthentication, Verified
        <3>2. toPeer' = [toPeer EXCEPT ![q][s][Index[s][p]] = p]
            BY <1>13, <1>16, <2>4, <3>1 DEF OnIncomingAuthentication
        <3>3. toPeer'[q][s][Index[s][p]] = p
            BY <1>13, <3>2 DEF TypeOK
        <3> QED
            BY <2>4, <3>3 DEF Routed
    <2> QED
        BY <1>1, <2>1, <2>2, <2>3, <2>4, OwedReceive
<1>17. ASSUME NEW r \in Honest, NEW x \in Peers, NEW t \in Sessions, OnAuthenticationRequest(r, x, t)
       PROVE  Goal
    <2> DEFINE c == Command(Own(r, t), x)
               m == AuthenticationRequest(t)
    <2>1. Receive(r, x, m) /\ allPeers' = allPeers
        BY <1>17 DEF OnAuthenticationRequest, peersOf
    <2>2. m # Opened /\ m # Closed /\ m # Own(p, s)
        BY <1>13, Kinds DEF Messages
    <2>3. Range(commands[p]) \subseteq Range(commands'[p])
        <3>1. CASE t \in InSession(r)
            <4>1. c \in Commands
                BY <3>1, OwnType, CommandsType
            <4>2. commands' = [commands EXCEPT ![r] = Append(commands[r], c)]
                BY <1>17, <3>1 DEF OnAuthenticationRequest, Own
            <4> HIDE DEF c
            <4> QED
                BY <1>4, <4>1, <4>2
        <3>2. CASE t \notin InSession(r)
            BY <1>17, <3>2 DEF OnAuthenticationRequest
        <3> QED
            BY <3>1, <3>2
    <2> HIDE DEF m
    <2> QED
        BY <1>1, <2>1, <2>2, <2>3, OwedReceive
<1>18. ASSUME NEW r \in Honest, NEW x \in Peers, NEW t \in Sessions, OnIncomingData(r, x, t)
       PROVE  Goal
    <2> DEFINE c == Command(AuthenticationRequest(t), x)
               m == DataMessage(t)
    <2>1. Receive(r, x, m) /\ allPeers' = allPeers
        BY <1>18 DEF OnIncomingData, peersOf
    <2>2. m # Opened /\ m # Closed /\ m # Own(p, s)
        BY <1>13, Kinds DEF Messages
    <2>3. Range(commands[p]) \subseteq Range(commands'[p])
        <3>1. c \in Commands
            BY Kinds, CommandsType
        <3>2. commands' = commands \/ commands' = [commands EXCEPT ![r] = Append(commands[r], c)]
            BY <1>18 DEF OnIncomingData
        <3> HIDE DEF c
        <3> QED
            BY <1>4, <3>1, <3>2
    <2> HIDE DEF m
    <2> QED
        BY <1>1, <2>1, <2>2, <2>3, OwedReceive
<1>19. CASE \E r \in Honest, x \in Peers : OnEvent(r, x)
    BY <1>14, <1>15, <1>16, <1>17, <1>18, <1>19 DEF OnEvent
<1>20. CASE \E r \in Honest, t \in Sessions : StartSession(r, t) \/ EndSession(r, t)
    BY <1>9, <1>20 DEF StartSession, EndSession, peersOf
<1> QED
    BY <1>5, <1>6, <1>7, <1>8, <1>10, <1>11, <1>12, <1>19, <1>20 DEF Next, Messages

LEMMA NextRouted ==
    ASSUME TypeOK, Members, Distinct, AuthsVerified, Next,
           NEW p \in Honest, NEW q \in Honest, NEW s \in Sessions,
           Together(p, q, s), Together(p, q, s)', Routed(p, q, s)
    PROVE  Routed(p, q, s)'
<1> DEFINE i == Index[s][q]
<1>1. /\ p # q /\ p \in Peers /\ q \in Peers /\ {p, q} \in linked /\ {p, q} \in linked'
      /\ s \in InSession(q)
    BY DEF Together, InSession, Honest
<1>2. /\ links \in [Peers -> [Honest -> Seq(Wire)]]
      /\ auths \in [Honest -> [Peers -> [Sessions -> Nodes \cup {NoNode}]]]
      /\ toPeer \in [Honest -> [Sessions -> [Nodes -> Peers \cup {NoPeer}]]]
    BY DEF TypeOK, Wire
<1>3. i \in Nodes /\ i # NoNode
    BY <1>1, OwnType, NetworkAssumption
<1>4. ASSUME NEW x \in Peers, Verified(s, x, i) PROVE x = q
    BY <1>1, <1>3, <1>4, NetworkAssumption DEF Distinct, Verified, Honest
<1>5. toPeer[p][s][i] = q /\ Closed \notin Range(links[q][p])
    BY DEF Routed
<1> HIDE DEF i
<1>6. ASSUME Closed \in Range(links'[q][p]) => Closed \in Range(links[q][p]),
             toPeer'[p][s][i] = q
      PROVE  Routed(p, q, s)'
    BY <1>5, <1>6 DEF Routed, i
<1>7. ASSUME NEW a \in Peers, NEW b \in Peers, Connect(a, b) PROVE Routed(p, q, s)'
    <2>1. {q, p} # {a, b}
        BY <1>1, <1>7 DEF Connect
    <2>2. links'[q][p] = links[q][p] /\ toPeer' = toPeer
        BY <1>1, <1>7, <2>1 DEF Connect, peersOf
    <2> QED
        BY <1>5, <1>6, <2>2
<1>8. ASSUME NEW a \in Peers, NEW b \in Peers, Disconnect(a, b) PROVE Routed(p, q, s)'
    <2>1. {q, p} # {a, b}
        BY <1>1, <1>8 DEF Disconnect
    <2>2. links'[q][p] = links[q][p] /\ toPeer' = toPeer
        BY <1>1, <1>8, <2>1 DEF Disconnect, peersOf
    <2> QED
        BY <1>5, <1>6, <2>2
<1>9. ASSUME NEW f \in Faulty, NEW r \in Honest, NEW m \in Messages, SendFaulty(f, r, m)
      PROVE  Routed(p, q, s)'
    <2>1. q # f
        BY DEF Honest
    <2>2. links' = [links EXCEPT ![f][r] = <<m>>] /\ toPeer' = toPeer
        BY <1>9 DEF SendFaulty, peersOf
    <2>3. links'[q][p] = links[q][p]
        BY <1>1, <1>2, <2>1, <2>2
    <2> QED
        BY <1>5, <1>6, <2>2, <2>3
<1>10. ASSUME NEW r \in Honest, Restart(r) PROVE Routed(p, q, s)'
    <2>1. linked' = {l \in linked : r \notin l} /\ toPeer' = [toPeer EXCEPT ![r] = NoRoutes]
        BY <1>10 DEF Restart
    <2>2. r # p /\ r # q
        BY <1>1, <2>1
    <2>3. links'[q][p] = links[q][p]
        BY <1>1, <1>10, <2>2 DEF Restart
    <2>4. toPeer'[p] = toPeer[p]
        BY <1>2, <2>1, <2>2
    <2> QED
        BY <1>5, <1>6, <2>3, <2>4
<1>11. ASSUME UNCHANGED <<links, peersOf>> PROVE Routed(p, q, s)'
    BY <1>5, <1>6, <1>11 DEF peersOf
<1>12. ASSUME NEW r \in Honest, OnCommand(r) PROVE Routed(p, q, s)'
    <2> DEFINE m == Head(commands[r]).msg
               w == links[q][p]
    <2>1. /\ m \in Messages
          /\ links'[q][p] = w \/ links'[q][p] = Append(w, m)
        <3>1. /\ m \in Messages
              /\ \A b \in Honest : \/ links'[r][b] = Append(links[r][b], m)
                                 \/ links'[r][b] = links[r][b]
              /\ \A a \in Peers \ {r}, b \in Honest : links'[a][b] = links[a][b]
            BY <1>12, OnCommandLinks
        <3>2. CASE q = r
            BY <3>1, <3>2
        <3>3. CASE q # r
            BY <1>1, <3>1, <3>3
        <3> QED
            BY <3>1, <3>2, <3>3
    <2>2. w \in Seq(Wire) /\ m \in Wire /\ m # Closed /\ toPeer' = toPeer
        BY <1>1, <1>2, <1>12, <2>1, Kinds DEF OnCommand, peersOf
    <2> HIDE DEF m
    <2>3. Closed \in Range(links'[q][p]) => Closed \in Range(w)
        <3> HIDE DEF w
        <3>1. Range(Append(w, m)) = Range(w) \cup {m}
            BY <2>2, AppendRange
        <3> QED
            BY <2>1, <2>2, <3>1
    <2> QED
        BY <1>5, <1>6, <2>2, <2>3
<1>13. ASSUME NEW r \in Honest, NEW x \in Peers, NEW m, Receive(r, x, m)
       PROVE  /\ Closed \in Range(links'[q][p]) => Closed \in Range(links[q][p])
              /\ r = p /\ x = q => m # Closed
    <2>1. /\ links[x][r] \in Seq(Wire) /\ links[x][r] # <<>> /\ m = Head(links[x][r])
          /\ links' = [links EXCEPT ![x][r] = Tail(links[x][r])]
        BY <1>13, ReceiveType
    <2>2. Range(links[x][r]) = {m} \cup Range(Tail(links[x][r]))
        BY <2>1, TailRange
    <2>3. CASE r = p /\ x = q
        <3>1. links'[q][p] = Tail(links[x][r])
            BY <1>1, <1>2, <2>1, <2>3
        <3> QED
            BY <1>5, <2>2, <2>3, <3>1
    <2>4. CASE r # p \/ x # q
        <3>1. links'[q][p] = links[q][p]
            BY <1>1, <1>2, <2>1, <2>4
        <3> QED
            BY <2>4, <3>1
    <2> QED
        BY <2>3, <2>4
<1>14. ASSUME NEW r \in Honest, NEW x \in Peers, NEW m, Receive(r, x, m), toPeer' = toPeer
       PROVE  Routed(p, q, s)'
    BY <1>5, <1>6, <1>13, <1>14
<1>15. ASSUME NEW r \in Honest, NEW x \in Peers, OnPeerDisconnected(r, x) PROVE Routed(p, q, s)'
    <2>1. /\ Receive(r, x, Closed)
          /\ toPeer' = [toPeer EXCEPT ![r] = [t \in Sessions |-> [j \in Nodes |->
                           IF auths[r][x][t] = j THEN NoPeer ELSE toPeer[r][t][j]]]]
        BY <1>15 DEF OnPeerDisconnected
    <2>2. toPeer'[p][s][i] = IF p = r /\ auths[r][x][s] = i THEN NoPeer ELSE toPeer[p][s][i]
        BY <1>2, <1>3, <2>1
    <2>3. ~(p = r /\ auths[r][x][s] = i)
        <3> SUFFICES ASSUME p = r, auths[r][x][s] = i PROVE FALSE
            OBVIOUS
        <3>1. Verified(s, x, i)
            BY <1>3 DEF AuthsVerified
        <3> QED
            BY <1>4, <1>13, <2>1, <3>1
    <2> QED
        BY <1>5, <1>6, <1>13, <2>1, <2>2, <2>3
<1>16. ASSUME NEW r \in Honest, NEW x \in Peers, NEW m \in Meta, OnIncomingAuthentication(r, x, m)
       PROVE  Routed(p, q, s)'
    <2>1. Receive(r, x, m) /\ m.kind = "auth"
        BY <1>16 DEF OnIncomingAuthentication
    <2>2. CASE ~AcceptsAuthentication(r, x, m)
        BY <1>14, <1>16, <2>1, <2>2 DEF OnIncomingAuthentication, peersOf
    <2>3. CASE AcceptsAuthentication(r, x, m)
        <3> DEFINE t == m.session
                   j == m.node
        <3>1. t \in Sessions /\ j \in Nodes /\ m.peer = x /\ Verified(t, x, j)
            BY <2>1, <2>3, Kinds DEF AcceptsAuthentication
        <3>2. toPeer' = [toPeer EXCEPT ![r][t][j] = x]
            BY <1>16, <2>3, <3>1 DEF OnIncomingAuthentication
        <3> HIDE DEF t, j
        <3>3. toPeer'[p][s][i] = IF p = r /\ s = t /\ i = j THEN x ELSE toPeer[p][s][i]
            BY <1>2, <1>3, <3>1, <3>2
        <3>4. s = t /\ i = j => x = q
            BY <1>4, <3>1
        <3> QED
            BY <1>5, <1>6, <1>13, <2>1, <3>3, <3>4
    <2> QED
        BY <2>2, <2>3
<1>17. CASE \E r \in Honest, x \in Peers : OnEvent(r, x)
    <2>1. ASSUME NEW r \in Honest, NEW x \in Peers, OnPeerConnected(r, x) PROVE Routed(p, q, s)'
        BY <1>14, <2>1 DEF OnPeerConnected
    <2>2. ASSUME NEW r \in Honest, NEW x \in Peers, NEW t \in Sessions,
                 OnAuthenticationRequest(r, x, t) \/ OnIncomingData(r, x, t)
          PROVE  Routed(p, q, s)'
        BY <1>14, <2>2 DEF OnAuthenticationRequest, OnIncomingData, peersOf
    <2> QED
        BY <1>15, <1>16, <1>17, <2>1, <2>2 DEF OnEvent
<1>18. CASE \E r \in Honest, t \in Sessions :
               \/ StartSession(r, t) \/ AnnounceSession(r, t) \/ EndSession(r, t)
               \/ \E to \in Recipient : SendData(r, t, to)
    BY <1>11, <1>18 DEF StartSession, AnnounceSession, EndSession, SendData
<1> QED
    BY <1>7, <1>8, <1>9, <1>10, <1>12, <1>17, <1>18 DEF Next, Messages

\* A session that opens owes its authentication to everyone connected.
LEMMA AnnounceOwes ==
    ASSUME TypeOK, SeenInv, NEW p \in Honest, NEW q \in Honest, NEW s \in Sessions,
           AnnounceSession(p, s), {p, q} \in linked
    PROVE  Owed(p, q, s)'
<1>1. /\ commands[p] \in Seq(Commands) /\ commands \in [Honest -> Seq(Commands)]
      /\ q \in Peers /\ p \in Peers
    BY DEF TypeOK, Honest
<1>2. /\ commands' = [commands EXCEPT ![p] = Append(commands[p], Command(Own(p, s), All))]
      /\ links' = links /\ allPeers' = allPeers
    BY DEF AnnounceSession, Own, peersOf
<1>3. Command(Own(p, s), All) \in Range(commands'[p])
    <2> DEFINE c == Command(Own(p, s), All)
               w == commands[p]
    <2>1. Len(w) \in Nat /\ Len(Append(w, c)) = Len(w) + 1 /\ Append(w, c)[Len(w) + 1] = c
          /\ DOMAIN Append(w, c) = 1..(Len(w) + 1)
        BY <1>1
    <2>2. c \in Range(Append(w, c))
        BY <2>1 DEF Range
    <2>3. commands'[p] = Append(w, c)
        BY <1>1, <1>2
    <2> QED
        BY <2>2, <2>3
<1>4. Begins(links[q][p], {p, q} \in linked, q \in allPeers[p])
    BY <1>1 DEF SeenInv, Seen
<1>5. Opened \in Range(links[q][p]) \/ (q \in allPeers[p] /\ Closed \notin Range(links[q][p]))
    BY <1>4 DEF Begins, Range
<1> QED
    BY <1>2, <1>3, <1>5 DEF Owed, Own

LEMMA NewTogether ==
    ASSUME TypeOK, SeenInv, Next, NEW p \in Honest, NEW q \in Honest, NEW s \in Sessions,
           ~Together(p, q, s), Together(p, q, s)'
    PROVE  Owed(p, q, s)' \/ Owed(q, p, s)'
<1> DEFINE Goal == Owed(p, q, s)' \/ Owed(q, p, s)'
<1>1. /\ p # q /\ {p, q} \in linked' /\ session'[p][s] = "open" /\ session'[q][s] = "open"
      /\ p \in Peers /\ q \in Peers
    BY DEF Together, Honest
<1>2. session \in [Honest -> [Sessions -> {"absent", "starting", "open", "closed", "removed"}]]
    BY DEF TypeOK
<1>3. {p, q} \notin linked \/ session[p][s] # "open" \/ session[q][s] # "open"
    BY <1>1 DEF Together
<1>4. ASSUME linked' \subseteq linked, UNCHANGED session PROVE Goal
    BY <1>1, <1>3, <1>4
<1>5. ASSUME linked' \subseteq linked, NEW r \in Honest, NEW t \in Sessions, NEW v, v # "open",
             session' = [session EXCEPT ![r][t] = v]
      PROVE  Goal
    BY <1>1, <1>2, <1>3, <1>5
<1>6. ASSUME NEW a \in Peers, NEW b \in Peers, Connect(a, b) PROVE Goal
    <2>1. /\ session' = session /\ linked' = linked \cup {{a, b}}
          /\ links' = [x \in Peers |-> [y \in Honest |->
                         IF {x, y} = {a, b} THEN Append(links[x][y], Opened) ELSE links[x][y]]]
        BY <1>6 DEF Connect
    <2>2. {q, p} = {a, b}
        BY <1>1, <1>3, <2>1
    <2>3. links'[q][p] = Append(links[q][p], Opened) /\ links[q][p] \in Seq(Wire)
        <3>1. links \in [Peers -> [Honest -> Seq(Wire)]]
            BY DEF TypeOK, Wire
        <3> QED
            BY <1>1, <2>1, <2>2, <3>1
    <2>4. Opened \in Range(links'[q][p])
        <3> DEFINE w == links[q][p]
        <3>1. w \in Seq(Wire) /\ Opened \in Wire /\ links'[q][p] = Append(w, Opened)
            BY <2>3 DEF Wire
        <3> HIDE DEF w
        <3> QED
            BY <3>1, AppendRange
    <2> QED
        BY <2>4 DEF Owed
<1>7. ASSUME NEW r \in Honest, NEW t \in Sessions, AnnounceSession(r, t) PROVE Goal
    <2>1. session' = [session EXCEPT ![r][t] = "open"] /\ linked' = linked
        BY <1>7 DEF AnnounceSession
    <2>2. {p, q} \in linked /\ {q, p} \in linked
        BY <1>1, <2>1
    <2>3. t = s /\ (r = p \/ r = q)
        BY <1>1, <1>2, <1>3, <2>1, <2>2
    <2> QED
        BY <1>7, <2>2, <2>3, AnnounceOwes
<1>8. ASSUME NEW r \in Honest, Restart(r) PROVE Goal
    <2>1. linked' = {l \in linked : r \notin l}
          /\ session' = [session EXCEPT ![r] = [t \in Sessions |-> "absent"]]
        BY <1>8 DEF Restart
    <2>2. r # p /\ r # q /\ {p, q} \in linked
        BY <1>1, <2>1
    <2>3. session'[p] = session[p] /\ session'[q] = session[q]
        BY <1>2, <2>1, <2>2
    <2> QED
        BY <1>1, <1>3, <2>2, <2>3
<1>9. ASSUME NEW r \in Honest, NEW x \in Peers, OnEvent(r, x) PROVE Goal
    <2>1. linked' = linked
        BY <1>9 DEF OnEvent, OnPeerConnected, OnPeerDisconnected, OnIncomingAuthentication,
           OnAuthenticationRequest, OnIncomingData, Receive
    <2>2. session' = session \/ \E t \in Sessions : session' = [session EXCEPT ![r][t] = "removed"]
        BY <1>9 DEF OnEvent, OnPeerConnected, OnPeerDisconnected, OnIncomingAuthentication,
           OnAuthenticationRequest, OnIncomingData
    <2> QED
        BY <1>4, <1>5, <2>1, <2>2
<1>10. ASSUME NEW a \in Peers, NEW b \in Peers, Disconnect(a, b) PROVE Goal
    BY <1>4, <1>10 DEF Disconnect
<1>11. ASSUME NEW r \in Honest, NEW t \in Sessions, StartSession(r, t) \/ EndSession(r, t)
       PROVE  Goal
    BY <1>5, <1>11 DEF StartSession, EndSession
<1>12. CASE \/ \E f \in Faulty, r \in Honest, m \in Messages : SendFaulty(f, r, m)
            \/ \E r \in Honest, t \in Sessions : \E to \in Recipient : SendData(r, t, to)
            \/ \E r \in Honest : OnCommand(r)
    BY <1>4, <1>12 DEF SendFaulty, SendData, OnCommand
<1> QED
    BY <1>6, <1>7, <1>8, <1>9, <1>10, <1>11, <1>12 DEF Next, Messages

LEMMA NextMeet ==
    TypeOK /\ Members /\ Distinct /\ SeenInv /\ AuthsVerified /\ MeetInv /\ [Next]_vars => MeetInv'
<1> SUFFICES ASSUME TypeOK, Members, Distinct, SeenInv, AuthsVerified, MeetInv, [Next]_vars
             PROVE  MeetInv'
    OBVIOUS
<1>1. CASE UNCHANGED vars
    BY <1>1 DEF MeetInv, Together, Owed, Routed, vars, peersOf, Own
<1>2. CASE Next
    <2> SUFFICES ASSUME NEW p \in Honest, NEW q \in Honest, NEW s \in Sessions, Together(p, q, s)'
                 PROVE  Owed(p, q, s)' \/ Owed(q, p, s)' \/ Routed(p, q, s)' \/ Routed(q, p, s)'
        BY DEF MeetInv
    <2>1. CASE ~Together(p, q, s)
        BY <1>2, <2>1, NewTogether
    <2>2. CASE Together(p, q, s)
        <3>1. Together(q, p, s) /\ Together(q, p, s)'
            <4>1. {p, q} = {q, p}
                OBVIOUS
            <4> QED
                BY <2>2, <4>1 DEF Together
        <3>2. Owed(p, q, s) \/ Owed(q, p, s) \/ Routed(p, q, s) \/ Routed(q, p, s)
            BY <2>2 DEF MeetInv
        <3> QED
            BY <1>2, <2>2, <3>1, <3>2, NextOwed, NextRouted
    <2> QED
        BY <2>1, <2>2
<1> QED
    BY <1>1, <1>2
-----------------------------------------------------------------------------
(* The theorems *)

NetworkInv == TypeOK /\ Members /\ Pairs /\ SeenInv /\ OwnMessages /\ RoutesInv

LEMMA InitNetwork == Init => NetworkInv
<1> SUFFICES ASSUME Init PROVE NetworkInv
    OBVIOUS
<1>1. Honest \subseteq Peers /\ NoPeer \notin Peers /\ NoNode \notin Nodes
    BY NetworkAssumption DEF Honest
<1>2. Pairs
    BY DEF Init, Pairs
<1>3. SeenInv
    <2> SUFFICES ASSUME NEW p \in Honest, NEW q \in Peers
                 PROVE  Seen(links[q][p], {p, q} \in linked, q \in allPeers[p])
        BY DEF SeenInv
    <2>1. links[q][p] = <<>>
        BY DEF Init
    <2>2. ({p, q} \in linked) = FALSE
        BY DEF Init
    <2>3. (q \in allPeers[p]) = FALSE
        BY DEF Init
    <2> QED
        BY <2>1, <2>2, <2>3, SeenEmpty
<1>4. OwnMessages
    <2>1. \A p \in Honest : Range(commands[p]) = {}
        BY DEF Init, Range
    <2>2. \A p \in Honest, q \in Honest : Range(links[p][q]) = {}
        BY <1>1 DEF Init, Range
    <2> QED
        BY <2>1, <2>2 DEF OwnMessages
<1>5. RoutesInv
    <2>1. \A p \in Honest, q \in Peers, s \in Sessions : auths[p][q][s] = NoNode
        BY DEF Init, NoAuths
    <2>2. \A p \in Honest, s \in Sessions, i \in Nodes : toPeer[p][s][i] = NoPeer
        BY DEF Init, NoRoutes
    <2> QED
        BY <1>1, <2>1, <2>2 DEF RoutesInv, AuthsVerified, RoutesToOwner, RoutesAreAuthenticated
<1> QED
    BY <1>2, <1>3, <1>4, <1>5, InitType DEF NetworkInv

THEOREM NetworkInvariant == Spec => []NetworkInv
<1>1. Init => NetworkInv
    BY InitNetwork
<1>2. NetworkInv /\ [Next]_vars => NetworkInv'
    BY NextType, NextPairs, NextSeen, NextOwn, NextRoutes DEF NetworkInv
<1> QED
    BY <1>1, <1>2, PTL DEF Spec

\* The network's state has its type: the queues hold events, messages and
\* commands of the kinds the handlers match on.
THEOREM NetworkTypeCorrect == Spec => []TypeOK
<1>1. NetworkInv => TypeOK
    BY DEF NetworkInv
<1> QED
    BY <1>1, NetworkInvariant, PTL

\* Peers keeps its two maps together: where it routes a session's data to an
\* honest peer, that peer is connected and authenticated as the node.
THEOREM RoutesAgree == Spec => []RoutesAreAuthenticated
<1>1. NetworkInv => RoutesAreAuthenticated
    BY DEF NetworkInv, RoutesInv
<1> QED
    BY <1>1, NetworkInvariant, PTL

\* Data meant for a member never goes to an honest peer that has not the
\* member's key, whatever the faulty peers send.
THEOREM OwnersGetTheirData == Spec => []RoutesToOwner
<1>1. NetworkInv => RoutesToOwner
    BY DEF NetworkInv, RoutesInv
<1> QED
    BY <1>1, NetworkInvariant, PTL

\* A peer of all_peers is connected, or the node has still to see it go.
THEOREM NobodyStaysForever == Spec => []NoGhosts
<1>1. NetworkInv => NoGhosts
    <2> SUFFICES ASSUME NetworkInv, NEW p \in Honest, NEW q \in Peers, q \in allPeers[p],
                        {p, q} \notin linked
                 PROVE  Closed \in Range(links[q][p])
        BY DEF NoGhosts
    <2>1. GoesAway(links[q][p], {p, q} \in linked, q \in allPeers[p])
        BY DEF NetworkInv, SeenInv, Seen
    <2>2. \E j \in DOMAIN links[q][p] : links[q][p][j] = Closed
        BY <2>1 DEF GoesAway
    <2> QED
        BY <2>2 DEF Range
<1> QED
    BY <1>1, NetworkInvariant, PTL
\* Where no two peers are the same node, two peers that run a session over an
\* open connection never both stop sending each other its data for good: with
\* nothing left to come to either of them, one of them routes to the other.
THEOREM PeersMeet == Distinct => (Spec => []NoMutualStrangers)
<1> SUFFICES ASSUME Distinct PROVE Spec => []NoMutualStrangers
    OBVIOUS
<1>1. Init => MeetInv
    BY DEF Init, MeetInv, Together
<1>2. NetworkInv /\ MeetInv /\ [Next]_vars => MeetInv'
    BY NextMeet DEF NetworkInv, RoutesInv
<1>3. MeetInv => NoMutualStrangers
    <2> SUFFICES ASSUME MeetInv, NEW p \in Honest, NEW q \in Honest, NEW s \in Sessions,
                        Together(p, q, s), Idle(p, q), Idle(q, p),
                        Stranger(p, q, s), Stranger(q, p, s)
                 PROVE  FALSE
        BY DEF NoMutualStrangers
    <2>1. \A m : m \notin Range(<<>>) /\ ~Arriving(<<>>, m)
        BY DEF Range, Arriving
    <2>2. ~Owed(p, q, s) /\ ~Owed(q, p, s)
        BY <2>1 DEF Idle, Owed
    <2> QED
        BY <2>2 DEF MeetInv, Stranger, Routed
<1> QED
    BY <1>1, <1>2, <1>3, NetworkInvariant, PTL DEF Spec
=============================================================================
