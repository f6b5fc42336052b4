-------------------------- MODULE HidTesterProofs --------------------------
(* Proofs about HidTester, for any threads, sockets, bytes and backlog. *)
EXTENDS HidTester, SequenceTheorems, WellFoundedInduction, TLAPS

-----------------------------------------------------------------------------
(* The backlog of the server. *)

\* The first place of an element is a place of it.
LEMMA FirstPlace ==
  ASSUME NEW S, NEW s \in Seq(S), NEW e, NEW i \in 1..Len(s), s[i] = e
  PROVE  \E m \in 1..Len(s) : s[m] = e /\ RemoveFirst(s, e) = RemoveAt(s, m)
<1> DEFINE I == {j \in 1..Len(s) : s[j] = e}
           m == SelectInSeq(s, LAMBDA v : v = e)
<1>1. I # {} /\ I \subseteq Nat
  OBVIOUS
<1>2. PICK x \in I : \A y \in I : ~ (<<y, x>> \in OpToRel(<, Nat))
  <2> HIDE DEF I
  <2> QED
    BY <1>1, NatLessThanWellFounded, WFMin
<1>3. ASSUME NEW y \in I PROVE x <= y
  <2>1. x \in Nat /\ y \in Nat
    BY <1>1
  <2>2. ~ (y < x)
    <3> HIDE DEF I
    <3> QED
      BY <1>2, <1>3, <2>1 DEF OpToRel
  <2> QED
    BY <2>1, <2>2
<1>4. Min(I) \in I
  BY <1>3 DEF Min
<1>5. m = Min(I)
  BY <1>1 DEF SelectInSeq
<1>6. RemoveFirst(s, e) = RemoveAt(s, m)
  BY <1>1 DEF RemoveFirst
<1> HIDE DEF m
<1> QED
  BY <1>4, <1>5, <1>6

\* A client that leaves a backlog in which every client is once is in it no
\* more, and nothing else is new.
LEMMA Leaves ==
  ASSUME NEW S, NEW q \in Seq(S), IsInjective(q), NEW c
  PROVE  LET r == RemoveFirst(q, c) IN
         r \in Seq(S) /\ IsInjective(r) /\ Range(r) \subseteq Range(q) \ {c}
<1> DEFINE r == RemoveFirst(q, c)
<1>1. CASE c \notin Range(q)
  <2>1. r = q
    BY <1>1 DEF RemoveFirst, Range
  <2> QED
    BY <1>1, <2>1
<1>2. CASE c \in Range(q)
  <2>1. PICK m \in 1..Len(q) : q[m] = c /\ r = RemoveAt(q, m)
    BY <1>2, FirstPlace DEF Range
  <2> DEFINE a == SubSeq(q, 1, m - 1)
             b == SubSeq(q, m + 1, Len(q))
  <2>2. a \in Seq(S) /\ Len(a) = m - 1 /\ \A i \in 1..(m - 1) : a[i] = q[i]
    BY SubSeqProperties
  <2>3. /\ b \in Seq(S) /\ Len(b) = Len(q) - m
        /\ \A i \in 1..(Len(q) - m) : b[i] = q[m + i]
    BY SubSeqProperties
  <2>4. r = a \o b
    BY <2>1 DEF RemoveAt
  <2> HIDE DEF r, a, b
  <2>5. r \in Seq(S) /\ Len(r) = Len(q) - 1
    BY <2>2, <2>3, <2>4, ConcatProperties
  <2>6. \A i \in 1..Len(r) : r[i] = IF i < m THEN q[i] ELSE q[i + 1]
    <3>1. \A i \in 1..Len(r) : r[i] = IF i <= Len(a) THEN a[i] ELSE b[i - Len(a)]
      BY <2>2, <2>3, <2>4, <2>5, ConcatProperties
    <3>2. ASSUME NEW i \in 1..Len(r) PROVE r[i] = IF i < m THEN q[i] ELSE q[i + 1]
      <4>1. CASE i < m
        BY <2>2, <3>1, <4>1
      <4>2. CASE ~ (i < m)
        <5>1. i - (m - 1) \in 1..(Len(q) - m) /\ m + (i - (m - 1)) = i + 1
          BY <2>5, <4>2
        <5>2. r[i] = b[i - (m - 1)]
          BY <2>2, <3>1, <4>2
        <5> QED
          BY <2>3, <4>2, <5>1, <5>2
      <4> QED
        BY <4>1, <4>2
    <3> QED
      BY <3>2
  <2>7. \A i, j \in 1..Len(q) : q[i] = q[j] => i = j
    BY DEF IsInjective
  <2>8. \A i, j \in 1..Len(r) : r[i] = r[j] => i = j
    BY <2>5, <2>6, <2>7
  <2>9. \A i \in 1..Len(r) : r[i] # c /\ r[i] \in Range(q)
    <3> SUFFICES ASSUME NEW i \in 1..Len(r) PROVE r[i] # c /\ r[i] \in Range(q)
      OBVIOUS
    <3>1. PICK j \in 1..Len(q) : j # m /\ r[i] = q[j]
      <4>1. CASE i < m
        BY <2>5, <2>6, <4>1
      <4>2. CASE ~ (i < m)
        <5>1. i + 1 \in 1..Len(q) /\ i + 1 # m
          BY <2>5, <4>2
        <5> QED
          BY <2>6, <4>2, <5>1
      <4> QED
        BY <4>1, <4>2
    <3> QED
      BY <2>1, <2>7, <3>1 DEF Range
  <2>10. DOMAIN r = 1..Len(r)
    BY <2>5
  <2>11. IsInjective(r)
    BY <2>8, <2>10 DEF IsInjective
  <2>12. Range(r) \subseteq Range(q) \ {c}
    BY <2>9, <2>10 DEF Range
  <2> QED
    BY <2>5, <2>11, <2>12 DEF r
<1> QED
  BY <1>1, <1>2

\* A client that joins was not there.
LEMMA Joins ==
  ASSUME NEW S, NEW q \in Seq(S), IsInjective(q), NEW c \in S, c \notin Range(q)
  PROVE  LET r == Append(q, c) IN
         r \in Seq(S) /\ IsInjective(r) /\ Range(r) \subseteq Range(q) \cup {c}
<1> DEFINE r == Append(q, c)
<1>1. /\ r \in Seq(S) /\ Len(r) = Len(q) + 1
      /\ \A i \in 1..Len(q) : r[i] = q[i]
      /\ r[Len(q) + 1] = c
  BY AppendProperties
<1>2. \A i \in 1..Len(q) : q[i] # c /\ q[i] \in Range(q)
  BY DEF Range
<1>3. \A i, j \in 1..Len(q) : q[i] = q[j] => i = j
  BY DEF IsInjective
<1> HIDE DEF r
<1>4. \A i, j \in 1..Len(r) : r[i] = r[j] => i = j
  BY <1>1, <1>2, <1>3
<1>5. \A i \in 1..Len(r) : r[i] \in Range(q) \cup {c}
  BY <1>1, <1>2
<1>6. DOMAIN r = 1..Len(r)
  BY <1>1
<1>7. IsInjective(r)
  BY <1>4, <1>6 DEF IsInjective
<1>8. Range(r) \subseteq Range(q) \cup {c}
  BY <1>5, <1>6 DEF Range
<1> QED
  BY <1>1, <1>7, <1>8 DEF r

\* The client that is accepted is in the backlog no more.
LEMMA Accepted ==
  ASSUME NEW S, NEW q \in Seq(S), IsInjective(q), q # <<>>
  PROVE  /\ Head(q) \in S /\ Head(q) \in Range(q)
         /\ Tail(q) \in Seq(S) /\ IsInjective(Tail(q))
         /\ Range(Tail(q)) \subseteq Range(q) \ {Head(q)}
<1> DEFINE r == Tail(q)
<1>1. /\ r \in Seq(S) /\ Len(r) = Len(q) - 1 /\ Head(q) \in S
      /\ \A i \in 1..Len(r) : r[i] = q[i + 1]
  BY HeadTailProperties
<1>2. Head(q) = q[1] /\ Len(q) \in Nat \ {0}
  BY EmptySeq
<1>3. \A i, j \in 1..Len(q) : q[i] = q[j] => i = j
  BY DEF IsInjective
<1>4. \A i \in 1..Len(q) : q[i] \in Range(q)
  BY DEF Range
<1>5. DOMAIN r = 1..Len(r)
  BY <1>1
<1> HIDE DEF r
<1>6. \A i, j \in 1..Len(r) : r[i] = r[j] => i = j
  BY <1>1, <1>2, <1>3
<1>7. \A i \in 1..Len(r) : r[i] \in Range(q) /\ r[i] # q[1]
  <2> SUFFICES ASSUME NEW i \in 1..Len(r) PROVE r[i] \in Range(q) /\ r[i] # q[1]
    OBVIOUS
  <2>1. i + 1 \in 1..Len(q) /\ 1 \in 1..Len(q) /\ i + 1 # 1
    BY <1>1, <1>2
  <2> QED
    BY <1>1, <1>3, <1>4, <2>1
<1>8. IsInjective(r)
  BY <1>5, <1>6 DEF IsInjective
<1>9. Range(r) \subseteq Range(q) \ {Head(q)}
  BY <1>2, <1>5, <1>7 DEF Range
<1>10. Head(q) \in Range(q)
  BY <1>2, <1>4
<1> QED
  BY <1>1, <1>8, <1>9, <1>10 DEF r

-----------------------------------------------------------------------------
(* The server. *)

\* Every client is in the backlog once, or served.
ServerType ==
  /\ serverPc \in {"start", "accept", "read", "write", "close", "ended"}
  /\ backlog \in Seq(Sockets) /\ IsInjective(backlog)
  /\ client \in Sockets \cup {NoClient, Ended} /\ client \notin Range(backlog)
  /\ requests \subseteq Sockets /\ answers \subseteq Sockets
  /\ serverPc \in {"read", "write"} => client # NoClient

\* A client of the server is connected; an answer waits in a channel that was
\* connected, and its client is about to be disconnected, if it is not yet.
Clients ==
  /\ \A s \in Sockets : s \in Range(backlog) \/ client = s => link[s] = "connected"
  /\ \A s \in answers : /\ link[s] \in {"connected", "lost"}
                        /\ s \notin Range(backlog)
                        /\ client = s => serverPc = "close"

ServerInv == ServerType /\ Clients

LinkType == link \in [Sockets -> {"none", "unconnected", "connected", "lost"}]

LEMMA RangeType ==
  ASSUME NEW S, NEW q \in Seq(S)
  PROVE  Range(q) \subseteq S
BY DEF Range

\* A channel is closed or lost.
LEMMA GoneStep ==
  ASSUME ServerInv, LinkType, NEW s \in Sockets, NEW l, Gone(s),
         link' = [link EXCEPT ![s] = l]
  PROVE  ServerInv'
<1>1. /\ backlog' \in Seq(Sockets) /\ IsInjective(backlog')
      /\ Range(backlog') \subseteq Range(backlog) \ {s}
  BY Leaves DEF Gone, ServerInv, ServerType
<1>2. /\ client' = IF client = s THEN Ended ELSE client
      /\ requests' = requests \ {s} /\ answers' = answers \ {s}
      /\ serverPc' = serverPc
  BY DEF Gone
<1>3. Ended \notin Range(backlog') /\ Ended \notin Sockets /\ Ended # NoClient
  BY <1>1, RangeType, HidTesterAssumption, EchoServerAssumption
<1>4. ServerType'
  BY <1>1, <1>2, <1>3 DEF ServerInv, ServerType
<1>5. \A c \in Sockets \ {s} : link'[c] = link[c]
  BY DEF LinkType
<1>6. client' # s
  BY <1>2, <1>3
<1>7. \A c \in Sockets : c \in Range(backlog') \/ client' = c => link'[c] = "connected"
  BY <1>1, <1>2, <1>3, <1>5, <1>6 DEF ServerInv, Clients
<1>8. \A c \in answers' : /\ link'[c] \in {"connected", "lost"}
                          /\ c \notin Range(backlog')
                          /\ client' = c => serverPc' = "close"
  BY <1>1, <1>2, <1>3, <1>5 DEF ServerInv, ServerType, Clients
<1> QED
  BY <1>4, <1>7, <1>8 DEF ServerInv, Clients

\* A client connects; it is not the server's yet.
LEMMA ArriveStep ==
  ASSUME ServerInv, LinkType, NEW s \in Sockets, Arrive(s), link[s] = "unconnected",
         link' = [link EXCEPT ![s] = "connected"]
  PROVE  ServerInv'
<1>1. s \notin Range(backlog) /\ client # s /\ s \notin answers
  BY DEF ServerInv, Clients
<1>2. /\ backlog' \in Seq(Sockets) /\ IsInjective(backlog')
      /\ Range(backlog') \subseteq Range(backlog) \cup {s}
  BY <1>1, Joins DEF Arrive, ServerInv, ServerType
<1>3. UNCHANGED <<serverPc, client, requests, answers>>
  BY DEF Arrive
<1>4. link'[s] = "connected" /\ \A c \in Sockets \ {s} : link'[c] = link[c]
  BY DEF LinkType
<1>5. ServerType'
  BY <1>1, <1>2, <1>3 DEF ServerInv, ServerType
<1> QED
  BY <1>1, <1>2, <1>3, <1>4, <1>5 DEF ServerInv, ServerType, Clients

\* The server's own steps, with what they disconnect.
LEMMA ServerStep ==
  ASSUME ServerInv, LinkType, Server
  PROVE  ServerInv'
<1> USE DEF ServerInv, ServerType, Clients
<1>1. CASE (Listen \/ Read) /\ UNCHANGED link
  BY <1>1 DEF Listen, Read
<1>2. CASE Accept /\ UNCHANGED link
  <2>1. /\ client' \in Sockets /\ client' \in Range(backlog)
        /\ backlog' \in Seq(Sockets) /\ IsInjective(backlog')
        /\ Range(backlog') \subseteq Range(backlog) \ {client'}
    BY <1>2, Accepted DEF Accept
  <2>2. serverPc' = "read" /\ client' # NoClient
    BY <1>2, <2>1, HidTesterAssumption DEF Accept
  <2> QED
    BY <1>2, <2>1, <2>2 DEF Accept
<1>3. CASE Answer /\ UNCHANGED link
  <2>1. /\ serverPc = "write" /\ serverPc' = "close"
        /\ answers' \subseteq answers \cup ({client} \ {Ended})
        /\ UNCHANGED <<backlog, client, requests>>
    BY <1>3 DEF Answer
  <2>2. ServerType'
    BY <2>1
  <2>3. \A s \in answers' : s \in Sockets /\ (s \in answers \/ s = client)
    BY <2>1
  <2> QED
    BY <1>3, <2>1, <2>2, <2>3
<1>4. ASSUME NEW dropped \in SUBSET Sockets, AcceptFails(dropped), Disconnected(dropped)
      PROVE  ServerInv'
  <2>1. backlog' = <<>> /\ dropped = Range(backlog)
    BY <1>4 DEF AcceptFails
  <2>2. backlog' \in Seq(Sockets) /\ IsInjective(backlog') /\ Range(backlog') = {}
    BY <2>1 DEF IsInjective, Range
  <2>3. /\ serverPc' = "ended" /\ serverPc = "accept"
        /\ UNCHANGED <<client, answers>> /\ requests' \subseteq requests
    BY <1>4 DEF AcceptFails
  <2>4. \A s \in Sockets : link'[s] = IF s \in Range(backlog) THEN "lost" ELSE link[s]
    BY <1>4, <2>1 DEF Disconnected
  <2> QED
    BY <2>2, <2>3, <2>4
<1>5. ASSUME NEW dropped \in SUBSET Sockets, CloseClient(dropped), Disconnected(dropped)
      PROVE  ServerInv'
  <2>1. /\ serverPc' = "accept" /\ client' = NoClient /\ serverPc = "close"
        /\ UNCHANGED <<backlog, requests, answers>>
        /\ dropped = {client} \ {Ended}
    BY <1>5 DEF CloseClient
  <2>2. \A s \in Sockets : link'[s] = IF s \in dropped THEN "lost" ELSE link[s]
    BY <1>5 DEF Disconnected
  <2>3. NoClient \notin Sockets /\ NoClient \notin Range(backlog)
    BY RangeType, HidTesterAssumption
  <2> QED
    BY <2>1, <2>2, <2>3
<1> QED
  BY <1>1, <1>2, <1>3, <1>4, <1>5 DEF Server

-----------------------------------------------------------------------------
(* The type invariant. *)

Type ==
  /\ kind \in {"keyboard", "raw", "l2cap"} /\ swapping \in BOOLEAN
  /\ made \subseteq Sockets
  /\ ctrlSocket \in made \cup {Null} /\ intrSocket \in made \cup {Null}
  /\ LinkType
  /\ busy \in [Sockets -> Threads \cup {Null}]
  /\ down \in [Sockets -> Keys \cup {NoKey}]
  /\ pc \in [Threads -> Points]
  /\ target \in [Threads -> made \cup {Null}]
  /\ key \in [Threads -> Keys \cup {NoKey}]

\* A thread goes on.
LEMMA GotoType ==
  ASSUME Type, NEW t \in Threads, NEW point \in Points, Goto(t, point)
  PROVE  /\ pc' \in [Threads -> Points]
         /\ target' \in [Threads -> made \cup {Null}]
         /\ pc'[t] = point /\ target'[t] = Null
         /\ \A u \in Threads \ {t} : pc'[u] = pc[u] /\ target'[u] = target[u]
BY DEF Type, Goto

LEMMA ThrowPoint ==
  ASSUME NEW t, Throw(t)
  PROVE  \E point \in Points : Goto(t, point) /\ point \in {"closeCtrl", "closeIntr"}
<1>1. "closeCtrl" \in Points /\ "closeIntr" \in Points
  BY DEF Points
<1> QED
  BY <1>1 DEF Throw

\* A link changes, and with it the key that is down.
LEMMA SetLinkType ==
  ASSUME Type, NEW s \in Sockets, NEW l \in {"none", "unconnected", "connected", "lost"},
         SetLink(s, l)
  PROVE  /\ LinkType' /\ down' \in [Sockets -> Keys \cup {NoKey}]
         /\ link'[s] = l /\ down'[s] = NoKey
         /\ \A r \in Sockets \ {s} : link'[r] = link[r] /\ down'[r] = down[r]
BY DEF Type, LinkType, SetLink

LEMMA TestType ==
  ASSUME Type, NEW t \in Threads, Test(t)
  PROVE  Type'
<1> USE DEF gui, object
<1>1. CASE Enter(t)
  <2>1. UNCHANGED <<gui, object, key>>
    BY <1>1 DEF Enter
  <2>2. CASE Throw(t)
    BY <2>1, <2>2, ThrowPoint, GotoType DEF Type, LinkType
  <2>3. CASE /\ target' = [target EXCEPT ![t] = Field(pc[t])] /\ UNCHANGED pc
             /\ Field(pc[t]) # Null
    <3>1. Field(pc[t]) \in made
      BY <2>3 DEF Field, Type
    <3> QED
      BY <2>1, <2>3, <3>1 DEF Type, LinkType
  <2> QED
    BY <1>1, <2>2, <2>3 DEF Enter
<1>2. CASE NoSocket(t)
  <2>1. UNCHANGED <<gui, object, key>>
    BY <1>2 DEF NoSocket
  <2>2. \E point \in Points : Goto(t, point)
    BY <1>2, ThrowPoint DEF NoSocket, Points
  <2> QED
    BY <2>1, <2>2, GotoType DEF Type, LinkType
<1> DEFINE s == target[t]
<1>3. Locks(t) => s \in Sockets
  BY DEF Locks, Type
<1>4. CASE BeginConnect(t)
  <2>1. UNCHANGED <<gui, key>> /\ s \in Sockets
    BY <1>3, <1>4 DEF BeginConnect
  <2>2. \E l \in {"none", "unconnected", "connected", "lost"} : SetLink(s, l)
    BY <1>4 DEF BeginConnect
  <2>3. LinkType' /\ down' \in [Sockets -> Keys \cup {NoKey}]
    BY <2>1, <2>2, SetLinkType
  <2>4. CASE Throw(t) /\ UNCHANGED busy
    BY <2>1, <2>3, <2>4, ThrowPoint, GotoType DEF Type
  <2>5. CASE /\ busy' = [busy EXCEPT ![s] = t] /\ UNCHANGED target
             /\ pc' = [pc EXCEPT ![t] = IF pc[t] = "ctrlConnect" THEN "ctrlConnecting"
                                        ELSE "intrConnecting"]
    <3>1. pc' \in [Threads -> Points]
      BY <2>5 DEF Type, Points
    <3> QED
      BY <2>1, <2>3, <2>5, <3>1 DEF Type
  <2> QED
    BY <1>4, <2>4, <2>5 DEF BeginConnect
<1>5. CASE EndConnect(t)
  <2>1. UNCHANGED <<gui, down>>
    BY <1>5 DEF EndConnect
  <2>2. busy' \in [Sockets -> Threads \cup {Null}]
    BY <1>5 DEF EndConnect, Type
  <2>3. CASE Throw(t) /\ UNCHANGED <<link, key>>
    BY <2>1, <2>2, <2>3, ThrowPoint, GotoType DEF Type, LinkType
  <2>4. CASE /\ link' = [link EXCEPT ![s] = "connected"]
             /\ Goto(t, Streamed(pc[t]))
             /\ \E k \in FirstKey : key' = [key EXCEPT ![t] = k]
    <3>1. LinkType'
      BY <2>4 DEF Type, LinkType
    <3>2. FirstKey \subseteq Keys \cup {NoKey}
      BY DEF FirstKey
    <3>3. key' \in [Threads -> Keys \cup {NoKey}]
      BY <2>4, <3>2 DEF Type
    <3>4. Streamed(pc[t]) \in Points
      BY DEF Streamed, Type, Points
    <3> QED
      BY <2>1, <2>2, <2>4, <3>1, <3>3, <3>4, GotoType DEF Type
  <2> QED
    BY <1>5, <2>3, <2>4 DEF EndConnect
<1>6. CASE Write(t)
  <2>1. UNCHANGED <<gui, link, busy, key>>
    BY <1>6 DEF Write
  <2>2. down' \in [Sockets -> Keys \cup {NoKey}]
    BY <1>6 DEF Write, Type
  <2>3. \E point \in Points : Goto(t, point)
    BY <1>6, ThrowPoint DEF Write, Points
  <2> QED
    BY <2>1, <2>2, <2>3, GotoType DEF Type, LinkType
<1>7. CASE L2capWrite(t)
  <2>1. \E point \in Points : Goto(t, point)
    BY <1>7, ThrowPoint DEF L2capWrite, Points
  <2> QED
    BY <1>7, <2>1, GotoType DEF L2capWrite, Type, LinkType
<1>8. CASE BeginRead(t)
  BY <1>8 DEF BeginRead, Type, LinkType, Points
<1>9. CASE EndRead(t)
  <2>1. Goto(t, "closeCtrl") /\ "closeCtrl" \in Points
    BY <1>9 DEF EndRead, Points
  <2>2. busy' \in [Sockets -> Threads \cup {Null}]
    BY <1>9 DEF EndRead, Type
  <2> QED
    BY <1>9, <2>1, <2>2, GotoType DEF EndRead, Type, LinkType
<1>10. CASE CloseIntr(t) \/ CloseCtrl(t)
  <2>1. UNCHANGED <<gui, busy, key>> /\ s \in Sockets
    BY <1>3, <1>10 DEF CloseIntr, CloseCtrl
  <2>2. \E point \in Points : Goto(t, point)
    BY <1>10 DEF CloseIntr, CloseCtrl, Points
  <2>3. SetLink(s, "none") \/ UNCHANGED <<link, down>>
    BY <1>10 DEF CloseIntr, CloseCtrl
  <2>4. LinkType' /\ down' \in [Sockets -> Keys \cup {NoKey}]
    BY <2>1, <2>3, SetLinkType DEF Type, LinkType
  <2> QED
    BY <2>1, <2>2, <2>4, GotoType DEF Type
<1> QED
  BY <1>1, <1>2, <1>4, <1>5, <1>6, <1>7, <1>8, <1>9, <1>10 DEF Test

LEMMA TypeStep ==
  ASSUME Type, [Next]_vars
  PROVE  Type'
<1> USE DEF gui, object, thread
<1>1. ASSUME NEW t \in Threads, RunTest(t)
      PROVE  Type'
  <2>1. Goto(t, "ctrlConnect") /\ "ctrlConnect" \in Points
    BY <1>1 DEF RunTest, Points
  <2> QED
    BY <1>1, <2>1, GotoType DEF RunTest, Type, LinkType
<1>2. ASSUME NEW car \in Chars, Offer(car)
      PROVE  Type'
  <2>1. PICK t \in Threads : /\ Goto(t, "press")
                             /\ key' = [key EXCEPT ![t] = Translate(car)]
    BY <1>2 DEF Offer
  <2>2. "press" \in Points /\ Translate(car) \in Keys \cup {NoKey}
    BY DEF Points, Keys
  <2>3. key' \in [Threads -> Keys \cup {NoKey}]
    BY <2>1, <2>2 DEF Type
  <2> QED
    BY <1>2, <2>1, <2>2, <2>3, GotoType DEF Offer, Type, LinkType
<1>3. CASE SwapCtrl \/ SwapIntr
  <2>1. PICK s \in Sockets \ made :
          /\ made' = made \cup {s}
          /\ \/ ctrlSocket' = s /\ intrSocket' = intrSocket
             \/ intrSocket' = s /\ ctrlSocket' = ctrlSocket
    BY <1>3 DEF SwapCtrl, SwapIntr
  <2>2. UNCHANGED <<kind, object, thread>> /\ swapping' \in BOOLEAN
    BY <1>3 DEF SwapCtrl, SwapIntr
  <2>3. target \in [Threads -> made' \cup {Null}]
    BY <2>1 DEF Type
  <2> QED
    BY <2>1, <2>2, <2>3 DEF Type, LinkType
<1>4. CASE ClearPsm
  BY <1>4 DEF ClearPsm, Type, LinkType, Points
<1>5. ASSUME NEW s \in Sockets, LinkLost(s)
      PROVE  Type'
  <2>1. SetLink(s, "lost")
    BY <1>5 DEF LinkLost
  <2>2. LinkType' /\ down' \in [Sockets -> Keys \cup {NoKey}]
    BY <2>1, SetLinkType
  <2> QED
    BY <1>5, <2>2 DEF LinkLost, Type
<1>6. CASE Server
  <2>1. LinkType'
    BY <1>6 DEF Server, Disconnected, Type, LinkType
  <2> QED
    BY <1>6, <2>1 DEF Server, Type
<1>7. CASE UNCHANGED vars
  BY <1>7 DEF vars, Type, LinkType
<1> QED
  BY <1>1, <1>2, <1>3, <1>4, <1>5, <1>6, <1>7, TestType DEF Next

-----------------------------------------------------------------------------
(* Who holds which object. *)

L2capPoints ==
  {"idle", "ctrlConnect", "ctrlConnecting", "write", "read", "reading", "closeCtrl",
   "dead"}

KindPoints ==
  IF kind = "l2cap" THEN L2capPoints ELSE Points \ {"write", "read", "reading", "dead"}

\* L2capTester has one socket and a server; the others have neither.
Kinds ==
  /\ \A t \in Threads : pc[t] \in KindPoints
  /\ kind # "l2cap" => serverPc = "ended"
  /\ kind = "l2cap" => ~swapping /\ intrSocket = Null

Connecting == {"ctrlConnecting", "intrConnecting"}

\* A thread that is in connect(2) or read(2) has its object locked.
HoldsIts(t) ==
  /\ pc[t] \in {"idle", "dead"} => target[t] = Null
  /\ pc[t] \in Connecting \cup {"reading"} =>
       target[t] \in Sockets /\ busy[target[t]] = t
  /\ pc[t] \in Connecting => link[target[t]] = "unconnected"

Held == \A t \in Threads : HoldsIts(t)

\* Objects that were never made have no descriptor.
Made == \A s \in Sockets : link[s] # "none" => s \in made

FieldOf(point) ==
  IF point \in {"ctrlConnecting", "reading"} THEN ctrlSocket ELSE Field(point)

\* As long as nobody swaps sockets under a test, a thread is at work on the
\* field its point says.
Targets ==
  "swapped" \notin lapses =>
    /\ swapping => \A t \in Threads : pc[t] = "idle"
    /\ \A t \in Threads : target[t] # Null => target[t] = FieldOf(pc[t])

\* A step of one thread on one object it may lock.
LEMMA HeldStep ==
  ASSUME Type, Held, NEW t \in Threads, NEW s, HoldsIts(t)',
         s \in Sockets => busy[s] \in {Null, t},
         \A u \in Threads \ {t} : pc'[u] = pc[u] /\ target'[u] = target[u],
         \A r \in Sockets \ {s} : link'[r] = link[r] /\ busy'[r] = busy[r]
  PROVE  Held'
<1> SUFFICES ASSUME NEW u \in Threads \ {t}
             PROVE  HoldsIts(u)'
  BY DEF Held
<1>1. HoldsIts(u) /\ pc'[u] = pc[u] /\ target'[u] = target[u] /\ u # Null
  BY HidTesterAssumption DEF Held
<1>2. ASSUME pc[u] \in Connecting \cup {"reading"}
      PROVE  target[u] \in Sockets \ {s}
  BY <1>1, <1>2 DEF HoldsIts
<1> QED
  BY <1>1, <1>2 DEF HoldsIts

\* The server disconnects clients that are connected, and nobody else.
LEMMA Dropped ==
  ASSUME Type, ServerInv, Server, NEW s \in Sockets
  PROVE  link'[s] = link[s] \/ (link[s] = "connected" /\ link'[s] = "lost")
<1>1. ASSUME NEW dropped \in SUBSET Sockets, Disconnected(dropped),
             AcceptFails(dropped) \/ CloseClient(dropped)
      PROVE  link'[s] = link[s] \/ (link[s] = "connected" /\ link'[s] = "lost")
  <2>1. s \in dropped => s \in Range(backlog) \/ s = client
    BY <1>1 DEF AcceptFails, CloseClient
  <2>2. s \in dropped => link[s] = "connected"
    BY <2>1 DEF ServerInv, Clients
  <2>3. link'[s] = IF s \in dropped THEN "lost" ELSE link[s]
    BY <1>1 DEF Disconnected
  <2> QED
    BY <2>2, <2>3
<1> QED
  BY <1>1 DEF Server

\* A test thread moves itself, and touches no object but its own.
LEMMA Alone ==
  ASSUME Type, NEW t \in Threads, Test(t)
  PROVE  /\ \A u \in Threads \ {t} : pc'[u] = pc[u] /\ target'[u] = target[u]
         /\ UNCHANGED <<gui, serverPc>>
         /\ \A r \in Sockets \ {target[t]} :
              link'[r] = link[r] /\ busy'[r] = busy[r] /\ down'[r] = down[r]
<1>1. ASSUME NEW point, Goto(t, point)
      PROVE  \A u \in Threads \ {t} : pc'[u] = pc[u] /\ target'[u] = target[u]
  BY <1>1 DEF Goto, Type
<1>2. ASSUME Throw(t)
      PROVE  \A u \in Threads \ {t} : pc'[u] = pc[u] /\ target'[u] = target[u]
  BY <1>1, <1>2, ThrowPoint
<1>3. ASSUME NEW l, SetLink(target[t], l)
      PROVE  \A r \in Sockets \ {target[t]} : link'[r] = link[r] /\ down'[r] = down[r]
  BY <1>3 DEF SetLink, Type, LinkType
<1>4. \A u \in Threads \ {t} : pc'[u] = pc[u] /\ target'[u] = target[u]
  <2>1. CASE Enter(t)
    BY <1>2, <2>1 DEF Enter, Type
  <2>2. CASE NoSocket(t) \/ Write(t)
    <3>1. Throw(t) \/ \E point : Goto(t, point)
      BY <2>2 DEF NoSocket, Write
    <3> QED
      BY <1>1, <1>2, <3>1
  <2>3. CASE BeginConnect(t) \/ EndConnect(t)
    BY <1>1, <1>2, <2>3 DEF BeginConnect, EndConnect, Type
  <2>4. CASE L2capWrite(t) \/ BeginRead(t) \/ EndRead(t) \/ CloseIntr(t) \/ CloseCtrl(t)
    BY <1>1, <1>2, <2>4 DEF L2capWrite, BeginRead, EndRead, CloseIntr, CloseCtrl, Type
  <2> QED
    BY <2>1, <2>2, <2>3, <2>4 DEF Test
<1>5. UNCHANGED <<gui, serverPc>>
  BY DEF Test, Enter, NoSocket, BeginConnect, EndConnect, Write, L2capWrite, BeginRead,
         EndRead, CloseIntr, CloseCtrl, SetLink, Gone, Arrive, Ask, Receive, server
<1>6. \A r \in Sockets \ {target[t]} :
        link'[r] = link[r] /\ busy'[r] = busy[r] /\ down'[r] = down[r]
  <2>1. CASE Enter(t) \/ NoSocket(t) \/ L2capWrite(t)
    BY <2>1 DEF Enter, NoSocket, L2capWrite, object
  <2>2. CASE BeginConnect(t)
    <3>1. \E l : SetLink(target[t], l)
      BY <2>2 DEF BeginConnect
    <3>2. \A r \in Sockets \ {target[t]} : busy'[r] = busy[r]
      BY <2>2 DEF BeginConnect, Type
    <3> QED
      BY <1>3, <3>1, <3>2
  <2>3. CASE EndConnect(t)
    BY <2>3 DEF EndConnect, Type, LinkType
  <2>4. CASE Write(t) \/ BeginRead(t) \/ EndRead(t)
    BY <2>4 DEF Write, BeginRead, EndRead, Type
  <2>5. CASE CloseIntr(t) \/ CloseCtrl(t)
    <3>1. UNCHANGED object \/ (busy' = busy /\ \E l : SetLink(target[t], l))
      BY <2>5 DEF CloseIntr, CloseCtrl
    <3> QED
      BY <1>3, <3>1 DEF object
  <2> QED
    BY <2>1, <2>2, <2>3, <2>4, <2>5 DEF Test
<1> QED
  BY <1>4, <1>5, <1>6

\* A thread holds what its new point needs.
LEMMA TestHeld ==
  ASSUME Type, Kinds, Held, NEW t \in Threads, Test(t)
  PROVE  Held'
<1>1. target[t] \in Sockets => busy[target[t]] \in {Null, t}
  <2>1. CASE Enter(t) \/ NoSocket(t)
    BY <2>1, HidTesterAssumption DEF Enter, NoSocket
  <2>2. CASE EndConnect(t) \/ EndRead(t)
    BY <2>2 DEF EndConnect, EndRead, Held, HoldsIts, Connecting
  <2>3. Locks(t) => busy[target[t]] = Null
    BY DEF Locks
  <2> QED
    BY <2>1, <2>2, <2>3
       DEF Test, BeginConnect, Write, L2capWrite, BeginRead, CloseIntr, CloseCtrl
<1> SUFFICES HoldsIts(t)'
  BY <1>1, Alone, HeldStep
<1>2. ASSUME NEW point \in Points \ (Connecting \cup {"reading"}), Goto(t, point)
      PROVE  HoldsIts(t)'
  BY <1>2, GotoType DEF HoldsIts, Connecting
<1>3. ASSUME Throw(t)
      PROVE  HoldsIts(t)'
  <2>1. {"closeCtrl", "closeIntr"} \subseteq Points \ (Connecting \cup {"reading"})
    BY DEF Points, Connecting
  <2> QED
    BY <1>2, <1>3, <2>1, ThrowPoint
<1>4. \A point \in {"idle", "intrConnect", "take", "press", "release", "write", "read",
                    "closeIntr", "closeCtrl"} :
        point \in Points \ (Connecting \cup {"reading"})
  BY DEF Points, Connecting
<1>5. CASE Enter(t)
  BY <1>3, <1>5 DEF Enter, Type, HoldsIts, Connecting
<1>6. CASE NoSocket(t)
  BY <1>2, <1>3, <1>4, <1>6 DEF NoSocket
<1>7. CASE BeginConnect(t)
  <2>1. target[t] \in Sockets
    BY <1>7 DEF BeginConnect, Locks, Type
  <2>2. CASE Throw(t)
    BY <1>3, <2>2
  <2>3. CASE /\ SetLink(target[t], "unconnected")
             /\ busy' = [busy EXCEPT ![target[t]] = t]
             /\ UNCHANGED target
             /\ pc' = [pc EXCEPT ![t] = IF pc[t] = "ctrlConnect" THEN "ctrlConnecting"
                                        ELSE "intrConnecting"]
    <3>1. busy'[target[t]] = t
      BY <2>1, <2>3 DEF Type
    <3>2. link'[target[t]] = "unconnected"
      BY <2>1, <2>3, SetLinkType
    <3>3. pc'[t] \in Connecting
      BY <2>3 DEF Type, Connecting
    <3>4. pc'[t] \notin {"idle", "dead"}
      BY <3>3 DEF Connecting
    <3> QED
      BY <2>1, <2>3, <3>1, <3>2, <3>4 DEF HoldsIts
  <2> QED
    BY <1>7, <2>2, <2>3 DEF BeginConnect
<1>8. CASE EndConnect(t)
  <2>1. Streamed(pc[t]) \in {"intrConnect", "write", "press", "take"}
    BY DEF Streamed, Type
  <2> QED
    BY <1>2, <1>3, <1>4, <1>8, <2>1 DEF EndConnect
<1>9. CASE Write(t)
  BY <1>2, <1>3, <1>4, <1>9 DEF Write
<1>10. CASE L2capWrite(t) \/ EndRead(t) \/ CloseIntr(t) \/ CloseCtrl(t)
  BY <1>2, <1>3, <1>4, <1>10 DEF L2capWrite, EndRead, CloseIntr, CloseCtrl
<1>11. CASE BeginRead(t)
  <2>1. target[t] \in Sockets
    BY <1>11 DEF BeginRead, Locks, Type
  <2> QED
    BY <1>11, <2>1 DEF BeginRead, Type, HoldsIts, Connecting
<1> QED
  BY <1>5, <1>6, <1>7, <1>8, <1>9, <1>10, <1>11 DEF Test

Order == Kinds /\ Held /\ Made /\ Targets

\* Where a thread may go.
LEMMA TestKinds ==
  ASSUME Type, Kinds, NEW t \in Threads, Test(t)
  PROVE  Kinds'
<1>1. /\ kind' = kind /\ swapping' = swapping
      /\ intrSocket' = intrSocket /\ serverPc' = serverPc
  BY Alone DEF gui
<1>2. pc[t] \in KindPoints
  BY DEF Kinds
<1> SUFFICES pc'[t] \in KindPoints
  BY <1>1, Alone DEF Kinds, KindPoints
<1>3. ASSUME NEW point \in Points \cap KindPoints, Goto(t, point)
      PROVE  pc'[t] \in KindPoints
  BY <1>3, GotoType
<1>4. ASSUME Throw(t)
      PROVE  pc'[t] \in KindPoints
  <2>1. (IF kind = "l2cap" THEN "closeCtrl" ELSE "closeIntr") \in Points \cap KindPoints
    BY DEF Points, KindPoints, L2capPoints
  <2> QED
    BY <1>3, <1>4, <2>1 DEF Throw
<1>5. {"idle", "closeCtrl"} \subseteq Points \cap KindPoints
  BY DEF Points, KindPoints, L2capPoints
<1>6. CASE Enter(t) \/ NoSocket(t)
  BY <1>2, <1>3, <1>4, <1>5, <1>6 DEF Enter, NoSocket
<1>7. CASE BeginConnect(t)
  <2>1. CASE Throw(t)
    BY <1>4, <2>1
  <2>2. CASE pc' = [pc EXCEPT ![t] = IF pc[t] = "ctrlConnect" THEN "ctrlConnecting"
                                     ELSE "intrConnecting"]
    BY <1>2, <1>7, <2>2 DEF BeginConnect, Type, KindPoints, L2capPoints, Points
  <2> QED
    BY <1>7, <2>1, <2>2 DEF BeginConnect
<1>8. CASE EndConnect(t)
  <2>1. Streamed(pc[t]) \in Points \cap KindPoints
    <3>1. pc[t] \in {"ctrlConnecting", "intrConnecting"}
      BY <1>8 DEF EndConnect
    <3> QED
      BY <1>2, <3>1 DEF Streamed, Type, KindPoints, L2capPoints, Points
  <2> QED
    BY <1>3, <1>4, <1>8, <2>1 DEF EndConnect
<1>9. CASE Write(t)
  <2>1. kind # "l2cap"
    BY <1>2, <1>9 DEF Write, KindPoints, L2capPoints
  <2>2. {"press", "release", "take", "closeIntr"} \subseteq Points \cap KindPoints
    BY <2>1 DEF Points, KindPoints
  <2> QED
    BY <1>3, <1>4, <1>9, <2>2 DEF Write
<1>10. CASE L2capWrite(t) \/ BeginRead(t)
  <2>1. kind = "l2cap"
    BY <1>2, <1>10 DEF L2capWrite, BeginRead, KindPoints, L2capPoints
  <2>2. {"read", "reading"} \subseteq Points \cap KindPoints
    BY <2>1 DEF Points, KindPoints, L2capPoints
  <2>3. CASE L2capWrite(t)
    BY <1>3, <1>4, <2>2, <2>3 DEF L2capWrite
  <2>4. CASE BeginRead(t)
    BY <2>2, <2>4 DEF BeginRead, Type
  <2> QED
    BY <1>10, <2>3, <2>4
<1>11. CASE EndRead(t) \/ CloseIntr(t) \/ CloseCtrl(t)
  BY <1>3, <1>5, <1>11 DEF EndRead, CloseIntr, CloseCtrl
<1> QED
  BY <1>6, <1>7, <1>8, <1>9, <1>10, <1>11 DEF Test

\* A thread that enters a call has read the field its point says.
LEMMA TestTargets ==
  ASSUME Type, Targets, NEW t \in Threads, Test(t)
  PROVE  Targets'
<1>1. /\ UNCHANGED gui
      /\ \A u \in Threads \ {t} : pc'[u] = pc[u] /\ target'[u] = target[u]
  BY Alone
<1>2. lapses \subseteq lapses' /\ pc[t] # "idle"
  BY DEF Test, Enter, NoSocket, BeginConnect, EndConnect, Write, L2capWrite, BeginRead,
         EndRead, CloseIntr, CloseCtrl, Locks
<1> SUFFICES ASSUME "swapped" \notin lapses, target'[t] # Null
             PROVE  target'[t] = FieldOf(pc'[t])
  BY <1>1, <1>2 DEF Targets, gui, FieldOf, Field
<1>3. ASSUME NEW point \in Points, Goto(t, point)
      PROVE  FALSE
  BY <1>3, GotoType
<1>4. ~ Throw(t)
  BY <1>3, ThrowPoint
<1>5. CASE Enter(t)
  BY <1>4, <1>5 DEF Enter, Type, FieldOf
<1>6. CASE NoSocket(t)
  BY <1>3, <1>4, <1>6 DEF NoSocket, Points
<1>7. CASE BeginConnect(t)
  <2>1. /\ UNCHANGED target /\ pc[t] \in {"ctrlConnect", "intrConnect"}
        /\ pc'[t] = IF pc[t] = "ctrlConnect" THEN "ctrlConnecting" ELSE "intrConnecting"
    BY <1>4, <1>7 DEF BeginConnect, Type
  <2> QED
    BY <2>1 DEF Targets, FieldOf, Field
<1>8. CASE EndConnect(t)
  <2>1. Streamed(pc[t]) \in Points
    BY DEF Streamed, Type, Points
  <2> QED
    BY <1>3, <1>4, <1>8, <2>1 DEF EndConnect
<1>9. CASE Write(t)
  BY <1>3, <1>4, <1>9 DEF Write, Points
<1>10. CASE BeginRead(t)
  <2>1. UNCHANGED target /\ pc[t] = "read" /\ pc'[t] = "reading"
    BY <1>10 DEF BeginRead, Type
  <2> QED
    BY <2>1 DEF Targets, FieldOf, Field
<1>11. CASE L2capWrite(t) \/ EndRead(t) \/ CloseIntr(t) \/ CloseCtrl(t)
  BY <1>3, <1>4, <1>11 DEF L2capWrite, EndRead, CloseIntr, CloseCtrl, Points
<1> QED
  BY <1>5, <1>6, <1>7, <1>8, <1>9, <1>10, <1>11 DEF Test

\* Only an object a thread has read from a field is opened.
LEMMA TestMade ==
  ASSUME Type, Made, Held, NEW t \in Threads, Test(t)
  PROVE  Made'
<1>1. \A r \in Sockets \ {target[t]} : link'[r] = link[r]
  BY Alone
<1>2. made' = made
  BY Alone DEF gui
<1>3. target[t] \in Sockets => target[t] \in made
  BY HidTesterAssumption DEF Type
<1> QED
  BY <1>1, <1>2, <1>3 DEF Made

LEMMA OrderStep ==
  ASSUME Type, ServerInv, Order, [Next]_vars
  PROVE  Order'
<1> USE DEF Order
<1>1. ASSUME NEW t \in Threads, Test(t)
      PROVE  Order'
  BY <1>1, TestKinds, TestTargets, TestHeld, TestMade
<1>2. ASSUME NEW t \in Threads, NEW point, Goto(t, point),
             \/ pc[t] = "idle" /\ ~swapping /\ point = "ctrlConnect"
             \/ pc[t] = "take" /\ point = "press",
             UNCHANGED <<gui, object, server, lapses>>
      PROVE  Order'
  <2>1. point \in Points /\ point \in KindPoints
    BY <1>2 DEF Points, KindPoints, L2capPoints, Kinds
  <2>2. /\ pc'[t] = point /\ target'[t] = Null
        /\ \A u \in Threads \ {t} : pc'[u] = pc[u] /\ target'[u] = target[u]
    BY <1>2, <2>1, GotoType
  <2>3. Kinds' /\ Made'
    BY <1>2, <2>1, <2>2 DEF Kinds, KindPoints, Made, gui, object, server
  <2>4. HoldsIts(t)'
    BY <1>2, <2>2 DEF HoldsIts, Connecting
  <2>5. Held'
    BY <1>2, <2>2, <2>4, HeldStep, HidTesterAssumption DEF object
  <2>6. Targets'
    BY <1>2, <2>2 DEF Targets, gui, FieldOf, Field
  <2> QED
    BY <2>3, <2>5, <2>6
<1>3. ASSUME NEW t \in Threads, RunTest(t)
      PROVE  Order'
  BY <1>2, <1>3 DEF RunTest
<1>4. ASSUME NEW car \in Chars, Offer(car)
      PROVE  Order'
  BY <1>2, <1>4 DEF Offer
<1>5. CASE SwapCtrl \/ SwapIntr
  <2>1. /\ UNCHANGED <<kind, object, thread, server>> /\ made \subseteq made'
    BY <1>5 DEF SwapCtrl, SwapIntr
  <2>2. kind = "l2cap" => ~swapping' /\ intrSocket' = intrSocket
    <3>1. CASE SwapCtrl
      BY <3>1 DEF SwapCtrl
    <3>2. CASE SwapIntr
      BY <3>2 DEF SwapIntr, Kinds
    <3> QED
      BY <1>5, <3>1, <3>2
  <2>3. Kinds' /\ Held' /\ Made'
    BY <2>1, <2>2 DEF Kinds, KindPoints, Held, HoldsIts, Made, object, thread, server
  <2>4. Swapped
    BY <1>5 DEF SwapCtrl, SwapIntr
  <2>5. "swapped" \notin lapses' => \A t \in Threads : pc[t] = "idle"
    BY <2>4 DEF Swapped
  <2>6. Targets'
    BY <2>1, <2>5 DEF Targets, Held, HoldsIts, thread
  <2> QED
    BY <2>3, <2>6
<1>6. CASE ClearPsm
  <2>1. /\ kind = "l2cap" /\ UNCHANGED gui
        /\ \A t \in Threads : pc'[t] = "dead" /\ target'[t] = Null
        /\ \A s \in Sockets : link'[s] = "none"
    BY <1>6 DEF ClearPsm
  <2>2. "dead" \notin Connecting \cup {"reading"} /\ "dead" \in L2capPoints
    BY DEF Connecting, L2capPoints
  <2>3. Kinds' /\ Held' /\ Made'
    BY <2>1, <2>2 DEF Kinds, KindPoints, Held, HoldsIts, Made, gui
  <2>4. lapses \subseteq lapses' /\ ~swapping'
    BY <1>6, <2>1 DEF ClearPsm, Kinds, gui
  <2>5. Targets'
    BY <2>1, <2>4 DEF Targets
  <2> QED
    BY <2>3, <2>5
<1>7. ASSUME UNCHANGED <<gui, busy, thread, lapses>>,
             kind # "l2cap" => serverPc' = serverPc,
             \A s \in Sockets :
               link'[s] = link[s] \/ (link[s] = "connected" /\ link'[s] = "lost")
      PROVE  Order'
  <2>1. Kinds' /\ Targets'
    BY <1>7 DEF Kinds, KindPoints, Targets, FieldOf, Field, gui, thread
  <2>2. Made'
    BY <1>7 DEF Made, gui
  <2>3. ASSUME NEW t \in Threads PROVE HoldsIts(t)'
    <3>1. HoldsIts(t)
      BY DEF Held
    <3>2. pc[t] \in Connecting => target[t] \in Sockets
      BY <3>1 DEF HoldsIts
    <3> QED
      BY <1>7, <3>1, <3>2 DEF HoldsIts, thread
  <2> QED
    BY <2>1, <2>2, <2>3 DEF Held
<1>8. ASSUME NEW s \in Sockets, LinkLost(s)
      PROVE  Order'
  <2>1. SetLink(s, "lost") /\ link[s] = "connected"
    BY <1>8 DEF LinkLost
  <2>2. link'[s] = "lost" /\ \A r \in Sockets \ {s} : link'[r] = link[r]
    BY <2>1, SetLinkType
  <2>3. serverPc' = serverPc
    BY <2>1 DEF SetLink, Gone
  <2> QED
    BY <1>7, <1>8, <2>1, <2>2, <2>3 DEF LinkLost
<1>9. CASE Server
  <2>1. kind # "l2cap" => FALSE
    BY <1>9 DEF Kinds, Server, Listen, Accept, Read, Answer, AcceptFails, CloseClient
  <2> QED
    BY <1>7, <1>9, <2>1, Dropped DEF Server
<1>10. CASE UNCHANGED vars
  <2>1. UNCHANGED <<gui, busy, thread, lapses, link, serverPc>>
    BY <1>10 DEF vars, object, server
  <2> QED
    BY <1>7, <2>1
<1> QED
  BY <1>1, <1>3, <1>4, <1>5, <1>6, <1>8, <1>9, <1>10 DEF Next

-----------------------------------------------------------------------------
(* The server, whatever the tests do. *)

LEMMA ServerInvStep ==
  ASSUME Type, ServerInv, Order, [Next]_vars
  PROVE  ServerInv'
<1>0. LinkType
  BY DEF Type
<1>1. ASSUME UNCHANGED <<link, server>>
      PROVE  ServerInv'
  BY <1>1 DEF ServerInv, ServerType, Clients, server
<1>2. ASSUME NEW s \in Sockets, NEW l, SetLink(s, l)
      PROVE  ServerInv'
  BY <1>0, <1>2, GoneStep DEF SetLink
<1>3. ASSUME NEW t \in Threads, Test(t)
      PROVE  ServerInv'
  <2> DEFINE s == target[t]
  <2>1. Locks(t) => s \in Sockets
    BY DEF Locks, Type
  <2>2. CASE Enter(t) \/ NoSocket(t) \/ Write(t) \/ BeginRead(t)
    BY <1>1, <2>2 DEF Enter, NoSocket, Write, BeginRead, object
  <2>3. CASE BeginConnect(t) \/ CloseIntr(t) \/ CloseCtrl(t)
    <3>1. UNCHANGED <<link, server>> \/ (s \in Sockets /\ \E l : SetLink(s, l))
      BY <2>1, <2>3 DEF BeginConnect, CloseIntr, CloseCtrl, object
    <3> QED
      BY <1>1, <1>2, <3>1
  <2>4. CASE EndConnect(t)
    <3>1. s \in Sockets /\ link[s] = "unconnected"
      BY <2>4 DEF EndConnect, Order, Held, HoldsIts, Connecting
    <3>2. CASE UNCHANGED <<link, server>>
      BY <1>1, <3>2
    <3>3. CASE link' = [link EXCEPT ![s] = "connected"] /\ Arrive(s)
      BY <1>0, <3>1, <3>3, ArriveStep
    <3>4. CASE link' = [link EXCEPT ![s] = "connected"] /\ UNCHANGED server
      <4>1. \A r \in Sockets : link'[r] = link[r] \/ link'[r] = "connected"
        BY <1>0, <3>4 DEF LinkType
      <4> QED
        BY <3>4, <4>1 DEF ServerInv, ServerType, Clients, server
    <3> QED
      BY <2>4, <3>2, <3>3, <3>4 DEF EndConnect
  <2>5. CASE L2capWrite(t)
    <3>1. s \in Sockets /\ UNCHANGED link
      BY <2>1, <2>5 DEF L2capWrite, object
    <3>2. UNCHANGED server \/ Ask(s)
      BY <2>5 DEF L2capWrite
    <3> QED
      BY <3>1, <3>2 DEF Ask, ServerInv, ServerType, Clients, server
  <2>6. CASE EndRead(t)
    <3>1. UNCHANGED link /\ (Receive(s) \/ UNCHANGED server)
      BY <2>6 DEF EndRead
    <3> QED
      BY <1>1, <3>1 DEF Receive, ServerInv, ServerType, Clients
  <2> QED
    BY <1>3, <2>2, <2>3, <2>4, <2>5, <2>6 DEF Test
<1>4. CASE ClearPsm
  <2>1. AllGone /\ \A s \in Sockets : link'[s] = "none"
    BY <1>4 DEF ClearPsm
  <2>2. /\ backlog' = <<>> /\ requests' = {} /\ answers' = {} /\ serverPc' = serverPc
        /\ client' = IF client = NoClient THEN NoClient ELSE Ended
    BY <2>1 DEF AllGone
  <2>3. backlog' \in Seq(Sockets) /\ IsInjective(backlog') /\ Range(backlog') = {}
    BY <2>2 DEF IsInjective, Range
  <2>4. client' \notin Sockets /\ Ended # NoClient
    BY <2>2, HidTesterAssumption, EchoServerAssumption
  <2>5. ServerType'
    BY <2>2, <2>3, <2>4 DEF ServerInv, ServerType
  <2>6. Clients'
    BY <2>2, <2>3, <2>4 DEF Clients
  <2> QED
    BY <2>5, <2>6 DEF ServerInv
<1>5. ASSUME NEW s \in Sockets, LinkLost(s)
      PROVE  ServerInv'
  BY <1>2, <1>5 DEF LinkLost
<1>6. CASE Server
  BY <1>0, <1>6, ServerStep
<1>7. CASE \/ \E t \in Threads : RunTest(t)
           \/ \E car \in Chars : Offer(car)
           \/ SwapCtrl \/ SwapIntr \/ UNCHANGED vars
  BY <1>1, <1>7 DEF RunTest, Offer, SwapCtrl, SwapIntr, vars, object
<1> QED
  BY <1>3, <1>4, <1>5, <1>6, <1>7 DEF Next

-----------------------------------------------------------------------------
(* Who will close what is open. *)

\* The points from which a thread goes on to close the interrupt channel.
IntrPoints == {"intrConnecting", "take", "press", "release", "closeIntr"}

Closer(s) ==
  \/ s = ctrlSocket /\ \E t \in Threads : pc[t] # "idle"
  \/ s = intrSocket /\ \E t \in Threads : pc[t] \in IntrPoints

L2capCloser(s) == s = ctrlSocket /\ \E t \in Threads : pc[t] \notin {"idle", "dead"}

\* Every object with a descriptor is in a field, and some thread has still to
\* come to where it is closed.
Closers ==
  /\ kind # "l2cap" /\ lapses = {} =>
       \A s \in Sockets : link[s] # "none" => Closer(s)
  /\ kind = "l2cap" /\ "swapped" \notin lapses =>
       \A s \in Sockets : link[s] # "none" => L2capCloser(s)

\* What a step of a thread does to the two fields' objects, as long as nobody
\* swapped them.
LEMMA TestLinks ==
  ASSUME Type, Order, "swapped" \notin lapses, NEW t \in Threads, Test(t),
         kind # "l2cap" => "skipped" \notin lapses'
  PROVE  /\ pc[t] # "idle" /\ pc'[t] # "dead"
         /\ pc[t] \in IntrPoints /\ pc'[t] \notin IntrPoints =>
              intrSocket \in Sockets /\ link'[intrSocket] = "none"
         /\ pc'[t] = "idle" => ctrlSocket = Null \/ link'[ctrlSocket] = "none"
         /\ \A s \in Sockets : link[s] = "none" /\ link'[s] # "none" =>
              \/ s = ctrlSocket /\ pc'[t] # "idle"
              \/ s = intrSocket /\ pc'[t] \in IntrPoints
<1>1. target[t] # Null => target[t] = FieldOf(pc[t]) /\ target[t] \in Sockets
  BY DEF Order, Targets, Type
<1>2. pc[t] \in KindPoints
  BY DEF Order, Kinds
<1>3. \A s \in Sockets \ {target[t]} : link'[s] = link[s]
  BY Alone
<1>4. ASSUME NEW point \in Points, Goto(t, point)
      PROVE  pc'[t] = point
  BY <1>4, GotoType
<1>5. ASSUME Throw(t)
      PROVE  pc'[t] = IF kind = "l2cap" THEN "closeCtrl" ELSE "closeIntr"
  BY <1>4, <1>5 DEF Throw, Points
<1>6. "idle" \in Points /\ "closeCtrl" \in Points
  BY DEF Points
<1>7. kind = "l2cap" => pc[t] \notin IntrPoints /\ pc[t] # "closeIntr"
  BY <1>2 DEF KindPoints, L2capPoints, IntrPoints
<1>8. CASE Enter(t)
  <2>1. /\ pc[t] \notin {"idle", "dead"} /\ link' = link
        /\ pc'[t] = pc[t] \/ Throw(t)
    BY <1>8 DEF Enter, object
  <2> QED
    BY <1>5, <1>7, <2>1 DEF IntrPoints
<1>9. CASE NoSocket(t)
  <2>1. pc[t] \in {"ctrlConnect", "intrConnect", "closeCtrl"} /\ link' = link
    BY <1>7, <1>9 DEF NoSocket, object
  <2>2. CASE pc[t] = "closeCtrl"
    <3>1. ctrlSocket = Null /\ pc'[t] = "idle"
      BY <1>4, <1>6, <1>9, <2>2 DEF NoSocket, Field
    <3> QED
      BY <2>1, <2>2, <3>1 DEF IntrPoints
  <2>3. CASE pc[t] \in {"ctrlConnect", "intrConnect"}
    <3>1. Throw(t)
      BY <1>9, <2>3 DEF NoSocket
    <3> QED
      BY <1>5, <2>1, <2>3, <3>1 DEF IntrPoints
  <2> QED
    BY <2>1, <2>2, <2>3
<1>10. CASE BeginConnect(t)
  <2>1. /\ pc[t] \in {"ctrlConnect", "intrConnect"}
        /\ target[t] = Field(pc[t]) /\ target[t] \in Sockets
    BY <1>1, <1>10 DEF BeginConnect, Locks, FieldOf
  <2>2. \/ pc'[t] = IF pc[t] = "ctrlConnect" THEN "ctrlConnecting" ELSE "intrConnecting"
        \/ Throw(t)
    BY <1>10 DEF BeginConnect, Type
  <2>3. pc[t] = "ctrlConnect" => target[t] = ctrlSocket
    BY <2>1 DEF Field
  <2>4. pc[t] = "intrConnect" => target[t] = intrSocket /\ kind # "l2cap"
    BY <1>2, <2>1 DEF Field, KindPoints, L2capPoints
  <2>5. pc'[t] \notin {"idle", "dead"}
    BY <1>5, <2>1, <2>2
  <2>6. pc[t] = "intrConnect" => pc'[t] \in IntrPoints
    BY <1>5, <2>2, <2>4 DEF IntrPoints
  <2>7. pc[t] \notin IntrPoints /\ pc[t] # "idle"
    BY <2>1 DEF IntrPoints
  <2> QED
    BY <1>3, <2>1, <2>3, <2>4, <2>5, <2>6, <2>7
<1>11. CASE EndConnect(t)
  <2>1. pc[t] \in Connecting /\ link[target[t]] = "unconnected"
    BY <1>11 DEF EndConnect, Connecting, Order, Held, HoldsIts
  <2>2. pc[t] = "intrConnecting" => kind # "l2cap"
    BY <1>2 DEF KindPoints, L2capPoints
  <2>3. Streamed(pc[t]) \in {"intrConnect", "write", "press", "take"}
    BY DEF Streamed, Type
  <2>4. pc[t] = "intrConnecting" => Streamed(pc[t]) \in IntrPoints
    BY <2>2 DEF Streamed, IntrPoints, Type
  <2>5. {"intrConnect", "write", "press", "take"} \subseteq Points
    BY DEF Points
  <2>6. pc'[t] = Streamed(pc[t]) \/ Throw(t)
    BY <1>4, <1>11, <2>3, <2>5 DEF EndConnect
  <2>7. pc'[t] \notin {"idle", "dead"}
    BY <1>5, <2>3, <2>6
  <2>8. pc[t] \in IntrPoints => pc'[t] \in IntrPoints
    BY <1>5, <2>1, <2>2, <2>4, <2>6 DEF IntrPoints, Connecting
  <2>9. \A s \in Sockets : link[s] = "none" => link'[s] = "none"
    BY <1>3, <2>1
  <2> QED
    BY <2>1, <2>7, <2>8, <2>9 DEF Connecting
<1>12. CASE Write(t)
  <2>1. kind # "l2cap" /\ pc[t] \in {"press", "release"} /\ link' = link
    BY <1>2, <1>12 DEF Write, KindPoints, L2capPoints
  <2>2. {"press", "release", "take", "closeIntr"} \subseteq Points
    BY DEF Points
  <2>3. pc'[t] \in {"press", "release", "take", "closeIntr"}
    BY <1>4, <1>5, <1>12, <2>1, <2>2 DEF Write
  <2> QED
    BY <2>1, <2>3 DEF IntrPoints
<1>13. CASE L2capWrite(t) \/ BeginRead(t) \/ EndRead(t)
  <2>1. pc[t] \in {"write", "read", "reading"} /\ link' = link
    BY <1>13 DEF L2capWrite, BeginRead, EndRead, object
  <2>2. "read" \in Points
    BY DEF Points
  <2>3. pc'[t] \in {"read", "reading", "closeCtrl"}
    BY <1>2, <1>4, <1>5, <1>6, <1>13, <2>1, <2>2
       DEF L2capWrite, BeginRead, EndRead, Type, KindPoints
  <2> QED
    BY <2>1, <2>3 DEF IntrPoints
<1>14. CASE CloseIntr(t)
  <2>1. /\ pc[t] = "closeIntr" /\ target[t] = intrSocket /\ target[t] \in Sockets
        /\ Goto(t, "closeCtrl") /\ SetLink(target[t], "none")
    BY <1>1, <1>7, <1>14 DEF CloseIntr, Locks, FieldOf, Field
  <2>2. link'[intrSocket] = "none" /\ pc'[t] = "closeCtrl"
    BY <1>4, <1>6, <2>1, SetLinkType
  <2> QED
    BY <1>3, <2>1, <2>2
<1>15. CASE CloseCtrl(t)
  <2>1. /\ pc[t] = "closeCtrl" /\ target[t] = ctrlSocket /\ target[t] \in Sockets
        /\ Goto(t, "idle") /\ SetLink(target[t], "none")
    BY <1>1, <1>15 DEF CloseCtrl, Locks, FieldOf, Field
  <2>2. link'[ctrlSocket] = "none" /\ pc'[t] = "idle"
    BY <1>4, <1>6, <2>1, SetLinkType
  <2> QED
    BY <1>3, <2>1, <2>2 DEF IntrPoints
<1> QED
  BY <1>8, <1>9, <1>10, <1>11, <1>12, <1>13, <1>14, <1>15 DEF Test

LEMMA ClosersStep ==
  ASSUME Type, ServerInv, Order, Closers, [Next]_vars
  PROVE  Closers'
<1>1. ASSUME NEW t \in Threads, Test(t)
      PROVE  Closers'
  <2>1. /\ lapses \subseteq lapses' /\ UNCHANGED gui
        /\ \A u \in Threads \ {t} : pc'[u] = pc[u]
    BY <1>1, Alone
       DEF Test, Enter, NoSocket, BeginConnect, EndConnect, Write, L2capWrite,
           BeginRead, EndRead, CloseIntr, CloseCtrl
  <2>2. ASSUME kind # "l2cap", lapses' = {}, NEW s \in Sockets, link'[s] # "none"
        PROVE  Closer(s)'
    <3>1. /\ lapses = {} /\ UNCHANGED <<ctrlSocket, intrSocket>>
          /\ link[s] # "none" => Closer(s)
      BY <2>1, <2>2 DEF Closers, gui
    <3>2. /\ pc[t] # "idle"
          /\ pc[t] \in IntrPoints /\ pc'[t] \notin IntrPoints => intrSocket # s
          /\ pc'[t] = "idle" => ctrlSocket # s
          /\ link[s] = "none" =>
              \/ s = ctrlSocket /\ pc'[t] # "idle"
              \/ s = intrSocket /\ pc'[t] \in IntrPoints
      BY <1>1, <2>2, <3>1, TestLinks, HidTesterAssumption
    <3> QED
      BY <2>1, <3>1, <3>2 DEF Closer
  <2>3. ASSUME kind = "l2cap", "swapped" \notin lapses', NEW s \in Sockets,
               link'[s] # "none"
        PROVE  L2capCloser(s)'
    <3>1. /\ "swapped" \notin lapses /\ ctrlSocket' = ctrlSocket
          /\ link[s] # "none" => L2capCloser(s)
      BY <2>1, <2>3 DEF Closers, gui
    <3>2. /\ pc'[t] # "dead"
          /\ pc'[t] = "idle" => ctrlSocket # s
          /\ link[s] = "none" => s = ctrlSocket
      <4>1. intrSocket = Null
        BY <2>3 DEF Order, Kinds
      <4> QED
        BY <1>1, <2>3, <3>1, <4>1, TestLinks, HidTesterAssumption
    <3>3. s = ctrlSocket
      BY <3>1, <3>2 DEF L2capCloser
    <3> QED
      BY <3>1, <3>2, <3>3 DEF L2capCloser
  <2>4. kind' = kind
    BY <2>1 DEF gui
  <2> QED
    BY <2>2, <2>3, <2>4 DEF Closers
<1>2. ASSUME UNCHANGED <<kind, ctrlSocket, intrSocket>>, lapses \subseteq lapses',
             \A s \in Sockets : link'[s] # "none" => link[s] # "none",
             \A t \in Threads :
               /\ pc'[t] \in {"idle", "dead"} => pc[t] = pc'[t]
               /\ pc[t] \in IntrPoints => pc'[t] \in IntrPoints
      PROVE  Closers'
  <2>1. \A s : Closer(s) => Closer(s)'
    BY <1>2 DEF Closer
  <2>2. \A s : L2capCloser(s) => L2capCloser(s)'
    BY <1>2 DEF L2capCloser
  <2> QED
    BY <1>2, <2>1, <2>2 DEF Closers
<1>3. ASSUME NEW t \in Threads, RunTest(t)
      PROVE  Closers'
  <2>1. pc[t] = "idle" /\ Goto(t, "ctrlConnect") /\ UNCHANGED <<gui, object, lapses>>
    BY <1>3 DEF RunTest
  <2>2. /\ pc'[t] = "ctrlConnect"
        /\ \A u \in Threads \ {t} : pc'[u] = pc[u]
    BY <2>1 DEF Goto, Type
  <2> QED
    BY <1>2, <2>1, <2>2 DEF gui, object, IntrPoints
<1>4. ASSUME NEW car \in Chars, Offer(car)
      PROVE  Closers'
  <2>1. PICK t \in Threads : pc[t] = "take" /\ Goto(t, "press")
    BY <1>4 DEF Offer
  <2>2. /\ pc'[t] = "press"
        /\ \A u \in Threads \ {t} : pc'[u] = pc[u]
    BY <2>1 DEF Goto, Type
  <2>3. UNCHANGED <<gui, object, lapses>>
    BY <1>4 DEF Offer
  <2> QED
    BY <1>2, <2>1, <2>2, <2>3 DEF gui, object, IntrPoints
<1>5. CASE SwapCtrl \/ SwapIntr
  <2>1. /\ UNCHANGED <<kind, object, thread>> /\ Swapped
    BY <1>5 DEF SwapCtrl, SwapIntr
  <2>2. /\ lapses' = {} => lapses = {} /\ \A t \in Threads : pc[t] = "idle"
        /\ "swapped" \notin lapses' =>
             "swapped" \notin lapses /\ \A t \in Threads : pc[t] = "idle"
    BY <2>1 DEF Swapped
  <2>3. \A s : (\A t \in Threads : pc[t] = "idle") => ~Closer(s) /\ ~L2capCloser(s)
    BY DEF Closer, L2capCloser, IntrPoints
  <2> QED
    BY <2>1, <2>2, <2>3 DEF Closers, object
<1>6. CASE ClearPsm
  BY <1>6 DEF ClearPsm, Closers
<1>7. ASSUME UNCHANGED <<gui, thread, lapses>>,
             \A s \in Sockets :
               link'[s] = link[s] \/ (link[s] = "connected" /\ link'[s] = "lost")
      PROVE  Closers'
  BY <1>2, <1>7 DEF gui, thread
<1>8. ASSUME NEW s \in Sockets, LinkLost(s)
      PROVE  Closers'
  <2>1. SetLink(s, "lost") /\ link[s] = "connected"
    BY <1>8 DEF LinkLost
  <2>2. link'[s] = "lost" /\ \A r \in Sockets \ {s} : link'[r] = link[r]
    BY <2>1, SetLinkType
  <2> QED
    BY <1>7, <1>8, <2>1, <2>2 DEF LinkLost
<1>9. CASE Server
  BY <1>7, <1>9, Dropped DEF Server
<1>10. CASE UNCHANGED vars
  BY <1>7, <1>10 DEF vars, object
<1> QED
  BY <1>1, <1>3, <1>4, <1>5, <1>6, <1>8, <1>9, <1>10 DEF Next

-----------------------------------------------------------------------------
(* Who will wake a reader. *)

Answered(s) ==
  \/ s \in answers \cup requests
  \/ client = s /\ serverPc \in {"write", "close"}

\* The test t writes or closes s next, or reads after it has written nothing.
Attends(t, s) ==
  \/ pc[t] \in {"write", "closeCtrl"}
  \/ s \in mute /\ pc[t] \in {"read", "reading"}

\* The message of a test that is connected is written, or about to be, or was
\* empty, or the test is about to close.
Asked ==
  kind = "l2cap" /\ "swapped" \notin lapses =>
    \A s \in Sockets : s = ctrlSocket /\ link[s] = "connected" =>
      Answered(s) \/ \E t \in Threads : Attends(t, s)

\* Silence ends with a message, or with the connection.
LEMMA Listened ==
  ASSUME Type, NEW t \in Threads, Test(t), NEW s \in Sockets, s \in mute,
         link'[s] = "connected"
  PROVE  s \in mute' \/ Answered(s)'
<1>1. ASSUME NEW l \in {"none", "unconnected"}, SetLink(target[t], l), s = target[t]
      PROVE  FALSE
  BY <1>1, SetLinkType
<1>2. CASE Enter(t) \/ NoSocket(t)
  BY <1>2 DEF Enter, NoSocket, object
<1>3. CASE BeginConnect(t) \/ CloseIntr(t) \/ CloseCtrl(t)
  <2>1. mute' = mute \/ \E l \in {"none", "unconnected"} : SetLink(target[t], l)
    BY <1>3 DEF BeginConnect, CloseIntr, CloseCtrl, object
  <2> QED
    BY <1>1, <2>1 DEF SetLink
<1>4. CASE EndConnect(t) \/ Write(t) \/ BeginRead(t) \/ EndRead(t)
  BY <1>4 DEF EndConnect, Write, BeginRead, EndRead
<1>5. CASE L2capWrite(t)
  BY <1>5 DEF L2capWrite, Ask, Answered
<1> QED
  BY <1>2, <1>3, <1>4, <1>5 DEF Test

LEMMA AskedStep ==
  ASSUME Type, ServerInv, Order, Asked, [Next]_vars
  PROVE  Asked'
<1> SUFFICES ASSUME kind' = "l2cap", "swapped" \notin lapses',
                    NEW s \in Sockets, s = ctrlSocket', link'[s] = "connected"
             PROVE  Answered(s)' \/ \E t \in Threads : Attends(t, s)'
  BY DEF Asked
<1>1. kind = "l2cap" /\ "swapped" \notin lapses
  <2>1. kind' = kind
    BY Alone DEF Next, RunTest, Offer, SwapCtrl, SwapIntr, ClearPsm, LinkLost, Server,
                 gui, vars
  <2>2. lapses \subseteq lapses'
    BY DEF Next, Test, Enter, NoSocket, BeginConnect, EndConnect, Write, L2capWrite,
           BeginRead, EndRead, CloseIntr, CloseCtrl, RunTest, Offer, SwapCtrl, SwapIntr,
           Swapped, ClearPsm, LinkLost, Server, vars
  <2> QED
    BY <2>1, <2>2
<1>2. ASSUME s = ctrlSocket, link[s] = "connected"
      PROVE  Answered(s) \/ \E t \in Threads : Attends(t, s)
  BY <1>1, <1>2 DEF Asked
<1>3. ASSUME NEW t \in Threads, Test(t)
      PROVE  Answered(s)' \/ \E u \in Threads : Attends(u, s)'
  <2>1. /\ ctrlSocket' = ctrlSocket
        /\ \A u \in Threads \ {t} : pc'[u] = pc[u]
        /\ s \in mute /\ link'[s] = "connected" => s \in mute' \/ Answered(s)'
    BY <1>3, Alone, Listened DEF gui
  <2>2. pc[t] \in L2capPoints
    BY <1>1 DEF Order, Kinds, KindPoints
  <2>3. target[t] # Null => target[t] = FieldOf(pc[t]) /\ target[t] \in Sockets
    BY <1>1 DEF Order, Targets, Type
  <2>4. ASSUME pc'[t] \in {"write", "closeCtrl"}
        PROVE  Answered(s)' \/ \E u \in Threads : Attends(u, s)'
    BY <2>4 DEF Attends
  <2>5. ASSUME link[s] = "connected", UNCHANGED server, Attends(t, s) => Attends(t, s)'
        PROVE  Answered(s)' \/ \E u \in Threads : Attends(u, s)'
    <3>1. CASE Answered(s)
      BY <2>5, <3>1 DEF Answered, server
    <3>2. ASSUME NEW u \in Threads, Attends(u, s)
          PROVE  Attends(u, s)' \/ Answered(s)'
      BY <1>3, <2>1, <2>5, <3>2 DEF Attends
    <3> QED
      BY <1>2, <2>1, <2>5, <3>1, <3>2
  <2>6. ASSUME NEW point \in Points, Goto(t, point)
        PROVE  pc'[t] = point
    BY <2>6, GotoType
  <2>7. ASSUME Throw(t)
        PROVE  Answered(s)' \/ \E u \in Threads : Attends(u, s)'
    BY <1>1, <2>4, <2>6, <2>7 DEF Throw, Points
  <2>8. CASE Enter(t)
    <3>1. UNCHANGED <<link, mute, server>>
      BY <2>8 DEF Enter, object
    <3>2. CASE UNCHANGED pc
      BY <2>1, <2>5, <3>1, <3>2 DEF Attends
    <3> QED
      BY <2>7, <2>8, <3>2 DEF Enter
  <2>9. CASE NoSocket(t)
    <3>1. UNCHANGED <<link, server>> /\ pc[t] \notin {"write", "read", "reading"}
      BY <2>9 DEF NoSocket, object
    <3>2. pc[t] = "closeCtrl" => FALSE
      BY <2>1, <2>9, HidTesterAssumption DEF NoSocket, Field
    <3> QED
      BY <2>1, <2>5, <3>1, <3>2 DEF Attends
  <2>10. CASE BeginConnect(t)
    <3>1. /\ pc[t] = "ctrlConnect" /\ target[t] \in Sockets
          /\ target[t] = ctrlSocket
      BY <2>2, <2>3, <2>10 DEF BeginConnect, Locks, FieldOf, Field, L2capPoints
    <3>2. \E l \in {"none", "unconnected"} : SetLink(target[t], l)
      BY <2>10 DEF BeginConnect
    <3>3. link'[target[t]] \in {"none", "unconnected"}
      BY <3>1, <3>2, SetLinkType
    <3> QED
      BY <2>1, <3>1, <3>3
  <2>11. CASE EndConnect(t)
    <3>1. CASE Goto(t, Streamed(pc[t]))
      <4>1. Streamed(pc[t]) = "write"
        BY <1>1 DEF Streamed
      <4>2. pc'[t] = "write"
        BY <2>6, <3>1, <4>1 DEF Points
      <4> QED
        BY <2>4, <4>2
    <3> QED
      BY <2>7, <2>11, <3>1 DEF EndConnect
  <2>12. CASE L2capWrite(t)
    <3>1. target[t] = ctrlSocket
      BY <2>3, <2>12 DEF L2capWrite, Locks, FieldOf, Field
    <3>2. CASE Ask(target[t])
      BY <2>1, <3>1, <3>2 DEF Ask, Answered
    <3>3. CASE mute' = mute \cup {target[t]} /\ Goto(t, "read")
      <4>1. pc'[t] = "read" /\ s \in mute'
        BY <2>1, <2>6, <3>1, <3>3 DEF Points
      <4> QED
        BY <4>1 DEF Attends
    <3> QED
      BY <2>7, <2>12, <3>2, <3>3 DEF L2capWrite
  <2>13. CASE BeginRead(t)
    <3>1. pc[t] = "read" /\ pc'[t] = "reading" /\ UNCHANGED <<link, mute, server>>
      BY <2>13 DEF BeginRead, Type
    <3> QED
      BY <2>1, <2>5, <3>1 DEF Attends
  <2>14. CASE EndRead(t)
    <3>1. Goto(t, "closeCtrl") /\ "closeCtrl" \in Points
      BY <2>14 DEF EndRead, Points
    <3> QED
      BY <2>4, <2>6, <3>1
  <2>15. CASE CloseCtrl(t)
    <3>1. target[t] = ctrlSocket /\ target[t] \in Sockets /\ SetLink(target[t], "none")
      BY <2>3, <2>15 DEF CloseCtrl, Locks, FieldOf, Field
    <3>2. link'[target[t]] = "none"
      BY <3>1, SetLinkType
    <3> QED
      BY <2>1, <3>1, <3>2
  <2>16. ~Write(t) /\ ~CloseIntr(t)
    BY <2>2 DEF Write, CloseIntr, L2capPoints
  <2> QED
    BY <1>3, <2>8, <2>9, <2>10, <2>11, <2>12, <2>13, <2>14, <2>15, <2>16 DEF Test
<1>4. ASSUME NEW t \in Threads, RunTest(t)
      PROVE  Answered(s)' \/ \E u \in Threads : Attends(u, s)'
  <2>1. /\ pc[t] = "idle" /\ Goto(t, "ctrlConnect")
        /\ UNCHANGED <<gui, object, server>>
    BY <1>4 DEF RunTest
  <2>2. \A u \in Threads \ {t} : pc'[u] = pc[u]
    BY <2>1 DEF Goto, Type
  <2>3. ASSUME NEW u \in Threads, Attends(u, s)
        PROVE  Attends(u, s)'
    BY <2>1, <2>2, <2>3 DEF Attends, object
  <2> QED
    BY <1>2, <2>1, <2>2, <2>3 DEF Answered, server, gui, object
<1>5. ASSUME NEW car \in Chars, Offer(car)
      PROVE  FALSE
  <2>1. \A t \in Threads : pc[t] # "take"
    BY <1>1 DEF Order, Kinds, KindPoints, L2capPoints
  <2> QED
    BY <1>5, <2>1 DEF Offer
<1>6. CASE SwapCtrl
  <2>1. ctrlSocket' \notin made /\ UNCHANGED link
    BY <1>6 DEF SwapCtrl, object
  <2> QED
    BY <2>1 DEF Order, Made
<1>7. ~SwapIntr
  BY <1>1 DEF SwapIntr, Order, Kinds
<1>8. CASE ClearPsm
  BY <1>8 DEF ClearPsm
<1>9. ASSUME NEW r \in Sockets, LinkLost(r)
      PROVE  Answered(s)' \/ \E u \in Threads : Attends(u, s)'
  <2>1. SetLink(r, "lost") /\ UNCHANGED <<gui, thread>>
    BY <1>9 DEF LinkLost
  <2>2. link'[r] = "lost" /\ \A x \in Sockets \ {r} : link'[x] = link[x]
    BY <2>1, SetLinkType
  <2>3. /\ r # s /\ requests' = requests \ {r} /\ answers' = answers \ {r}
        /\ client = s => client' = s
        /\ serverPc' = serverPc /\ mute' = mute \ {r}
    BY <2>1, <2>2 DEF SetLink, Gone
  <2>4. ASSUME NEW u \in Threads, Attends(u, s)
        PROVE  Attends(u, s)'
    BY <2>1, <2>3, <2>4 DEF Attends, thread
  <2> QED
    BY <1>2, <2>1, <2>2, <2>3, <2>4 DEF Answered, gui, thread
<1>10. CASE Server
  <2>1. /\ s = ctrlSocket /\ pc' = pc /\ mute' = mute
        /\ link[s] = "connected" /\ (link'[s] = link[s])
    BY <1>10, Dropped DEF Server, gui, thread
  <2>2. Answered(s) \/ \E t \in Threads : Attends(t, s)'
    BY <1>2, <2>1 DEF Attends
  <2>3. ASSUME Answered(s)
        PROVE  Answered(s)'
    <3>1. CASE Listen \/ Accept \/ Answer
      BY <2>3, <3>1, HidTesterAssumption DEF Listen, Accept, Answer, Answered
    <3>2. CASE Read
      BY <2>3, <3>2, HidTesterAssumption DEF Read, Answered
    <3>3. ASSUME NEW dropped \in SUBSET Sockets, AcceptFails(dropped) \/ CloseClient(dropped),
                 Disconnected(dropped)
          PROVE  Answered(s)'
      <4>1. s \notin dropped
        BY <2>1, <3>3 DEF Disconnected
      <4> QED
        BY <2>3, <3>3, <4>1, HidTesterAssumption DEF AcceptFails, CloseClient, Answered
    <3> QED
      BY <1>10, <3>1, <3>2, <3>3 DEF Server
  <2> QED
    BY <2>2, <2>3
<1>11. CASE UNCHANGED vars
  BY <1>2, <1>11 DEF vars, gui, object, thread, server, Answered, Attends
<1> QED
  BY <1>3, <1>4, <1>5, <1>6, <1>7, <1>8, <1>9, <1>10, <1>11 DEF Next

-----------------------------------------------------------------------------
(* Who will release a key. *)

\* A key is down at the host of the interrupt channel only, which is there, and
\* a thread is about to release it or to close that channel.
Releaser == \E t \in Threads : pc[t] \in {"release", "closeIntr"}

Down ==
  kind = "keyboard" /\ "swapped" \notin lapses =>
    \A s \in Sockets :
      down[s] # NoKey => s = intrSocket /\ link[s] # "none" /\ Releaser

LEMMA DownStep ==
  ASSUME Type, Order, Down, [Next]_vars
  PROVE  Down'
<1> SUFFICES ASSUME kind' = "keyboard", "swapped" \notin lapses',
                    NEW s \in Sockets, down'[s] # NoKey
             PROVE  s = intrSocket' /\ link'[s] # "none" /\ Releaser'
  BY DEF Down
<1>1. kind = "keyboard" /\ "swapped" \notin lapses
  <2>1. kind' = kind
    BY Alone DEF Next, RunTest, Offer, SwapCtrl, SwapIntr, ClearPsm, LinkLost, Server,
                 gui, vars
  <2>2. lapses \subseteq lapses'
    BY DEF Next, Test, Enter, NoSocket, BeginConnect, EndConnect, Write, L2capWrite,
           BeginRead, EndRead, CloseIntr, CloseCtrl, RunTest, Offer, SwapCtrl, SwapIntr,
           Swapped, ClearPsm, LinkLost, Server, vars
  <2> QED
    BY <2>1, <2>2
<1>2. ASSUME down[s] # NoKey
      PROVE  s = intrSocket /\ link[s] # "none" /\ Releaser
  BY <1>1, <1>2 DEF Down
<1>3. ASSUME NEW t \in Threads, Test(t)
      PROVE  s = intrSocket' /\ link'[s] # "none" /\ Releaser'
  <2>1. /\ intrSocket' = intrSocket
        /\ \A u \in Threads \ {t} : pc'[u] = pc[u]
    BY <1>3, Alone DEF gui
  <2>2. pc[t] \notin {"write", "read", "reading", "dead"}
    BY <1>1 DEF Order, Kinds, KindPoints
  <2>3. target[t] # Null => target[t] = FieldOf(pc[t]) /\ target[t] \in Sockets
    BY <1>1 DEF Order, Targets, Type
  <2>4. ASSUME NEW point \in Points, Goto(t, point)
        PROVE  pc'[t] = point
    BY <2>4, GotoType
  <2>5. ASSUME Throw(t)
        PROVE  Releaser'
    BY <1>1, <2>4, <2>5 DEF Throw, Points, Releaser
  <2>6. Releaser /\ pc[t] \notin {"release", "closeIntr"} => Releaser'
    BY <2>1 DEF Releaser
  <2>7. ASSUME down'[s] = down[s], link'[s] = link[s], Releaser => Releaser'
        PROVE  s = intrSocket' /\ link'[s] # "none" /\ Releaser'
    BY <1>2, <2>1, <2>7
  <2>8. ASSUME NEW l \in {"none", "unconnected", "connected", "lost"},
               NEW r \in Sockets, SetLink(r, l)
        PROVE  down'[s] = down[s] /\ link'[s] = link[s] /\ r # s
    BY <2>8, SetLinkType
  <2>9. CASE Enter(t)
    <3>1. UNCHANGED <<link, down>>
      BY <2>9 DEF Enter, object
    <3>2. Throw(t) \/ UNCHANGED pc
      BY <2>9 DEF Enter
    <3>3. Releaser => Releaser'
      BY <2>5, <3>2 DEF Releaser
    <3> QED
      BY <2>7, <3>1, <3>3
  <2>10. CASE NoSocket(t)
    <3>1. UNCHANGED <<link, down>>
      BY <2>10 DEF NoSocket, object
    <3>2. pc[t] = "closeIntr" => intrSocket # s
      BY <2>10, HidTesterAssumption DEF NoSocket, Field
    <3>3. pc[t] # "closeIntr" => pc[t] # "release"
      BY <2>10 DEF NoSocket
    <3> QED
      BY <1>2, <2>6, <2>7, <3>1, <3>2, <3>3
  <2>11. CASE BeginConnect(t)
    <3>1. target[t] \in Sockets /\ pc[t] \notin {"release", "closeIntr"}
      BY <2>3, <2>11 DEF BeginConnect, Locks
    <3>2. \E l \in {"none", "unconnected", "connected", "lost"} : SetLink(target[t], l)
      BY <2>11 DEF BeginConnect
    <3> QED
      BY <2>6, <2>7, <2>8, <3>1, <3>2
  <2>12. CASE EndConnect(t)
    <3>1. pc[t] \notin {"release", "closeIntr"} /\ down' = down
      BY <2>12 DEF EndConnect
    <3>2. link'[s] = link[s] \/ link'[s] = "connected"
      BY <2>12 DEF EndConnect, Type, LinkType
    <3> QED
      BY <1>2, <2>1, <2>6, <3>1, <3>2
  <2>13. CASE Write(t)
    <3>1. target[t] = intrSocket /\ target[t] \in Sockets /\ pc[t] \in {"press", "release"}
      BY <2>3, <2>13 DEF Write, Locks, FieldOf, Field
    <3>2. link' = link
      BY <2>13 DEF Write
    <3>3. CASE Throw(t) /\ UNCHANGED down
      BY <2>5, <2>7, <3>2, <3>3
    <3>4. CASE /\ link[target[t]] = "connected"
               /\ down' = [down EXCEPT ![target[t]] = IF pc[t] = "press" THEN key[t]
                                                      ELSE NoKey]
               /\ Goto(t, IF pc[t] = "press" THEN "release" ELSE "take")
      <4>1. pc[t] = "release" => down'[target[t]] = NoKey
        BY <3>1, <3>4 DEF Type
      <4>2. s # target[t] => down'[s] = down[s]
        BY <3>4 DEF Type
      <4>3. s = target[t] /\ pc[t] = "press"
        BY <1>2, <3>1, <4>1, <4>2
      <4>4. pc'[t] = "release"
        BY <2>4, <3>4, <4>3 DEF Points
      <4> QED
        BY <2>1, <3>1, <3>2, <3>4, <4>3, <4>4 DEF Releaser
    <3> QED
      BY <1>1, <2>13, <3>3, <3>4 DEF Write
  <2>14. CASE CloseIntr(t)
    <3>1. target[t] = intrSocket /\ target[t] \in Sockets
      BY <2>3, <2>14 DEF CloseIntr, Locks, FieldOf, Field
    <3>2. CASE link[target[t]] = "none" /\ UNCHANGED object
      BY <1>2, <3>1, <3>2 DEF object
    <3>3. CASE SetLink(target[t], "none")
      BY <1>2, <2>8, <3>1, <3>3
    <3> QED
      BY <2>14, <3>2, <3>3 DEF CloseIntr
  <2>15. CASE CloseCtrl(t)
    <3>1. target[t] \in Sockets /\ SetLink(target[t], "none") /\ pc[t] = "closeCtrl"
      BY <2>3, <2>15 DEF CloseCtrl, Locks
    <3> QED
      BY <2>6, <2>7, <2>8, <3>1
  <2>16. ~L2capWrite(t) /\ ~BeginRead(t) /\ ~EndRead(t)
    BY <2>2 DEF L2capWrite, BeginRead, EndRead
  <2> QED
    BY <1>3, <2>9, <2>10, <2>11, <2>12, <2>13, <2>14, <2>15, <2>16 DEF Test
<1>4. ASSUME NEW t \in Threads, NEW point, Goto(t, point),
             pc[t] \notin {"release", "closeIntr"}, UNCHANGED <<gui, object>>
      PROVE  s = intrSocket' /\ link'[s] # "none" /\ Releaser'
  <2>1. \A u \in Threads \ {t} : pc'[u] = pc[u]
    BY <1>4 DEF Goto, Type
  <2> QED
    BY <1>2, <1>4, <2>1 DEF Releaser, gui, object
<1>5. ASSUME NEW t \in Threads, RunTest(t)
      PROVE  s = intrSocket' /\ link'[s] # "none" /\ Releaser'
  BY <1>4, <1>5 DEF RunTest
<1>6. ASSUME NEW car \in Chars, Offer(car)
      PROVE  s = intrSocket' /\ link'[s] # "none" /\ Releaser'
  BY <1>4, <1>6 DEF Offer
<1>7. CASE SwapCtrl \/ SwapIntr
  <2>1. UNCHANGED <<down, pc>> /\ Swapped
    BY <1>7 DEF SwapCtrl, SwapIntr, object, thread
  <2>2. \A t \in Threads : pc[t] = "idle"
    BY <2>1 DEF Swapped
  <2> QED
    BY <1>2, <2>1, <2>2 DEF Releaser
<1>8. ~ClearPsm
  BY <1>1 DEF ClearPsm
<1>9. ASSUME NEW r \in Sockets, LinkLost(r)
      PROVE  s = intrSocket' /\ link'[s] # "none" /\ Releaser'
  <2>1. SetLink(r, "lost") /\ UNCHANGED <<gui, thread>>
    BY <1>9 DEF LinkLost
  <2>2. r # s /\ down'[s] = down[s] /\ link'[s] = link[s]
    BY <2>1, SetLinkType
  <2> QED
    BY <1>2, <2>1, <2>2 DEF Releaser, gui, thread
<1>10. ~Server
  BY <1>1 DEF Order, Kinds, Server, Listen, Accept, Read, Answer, AcceptFails, CloseClient
<1>11. CASE UNCHANGED vars
  BY <1>2, <1>11 DEF vars, gui, object, thread, Releaser
<1> QED
  BY <1>3, <1>5, <1>6, <1>7, <1>8, <1>9, <1>10, <1>11 DEF Next

-----------------------------------------------------------------------------
(* The theorems. *)

IInv == Type /\ ServerInv /\ Order /\ Closers /\ Asked /\ Down

LEMMA InitIInv == Init => IInv
<1> SUFFICES ASSUME Init PROVE IInv
  OBVIOUS
<1> USE DEF Init
<1>1. Type
  BY DEF Type, LinkType, Points
<1>2. ServerInv
  <2>1. backlog = <<>> /\ client = NoClient /\ requests = {} /\ answers = {}
    BY DEF ServerInit
  <2>2. serverPc \in {"start", "ended"}
    BY DEF ServerInit
  <2>3. IsInjective(backlog) /\ Range(backlog) = {}
    BY <2>1 DEF IsInjective, Range
  <2>4. NoClient \notin Sockets
    BY HidTesterAssumption
  <2>5. ServerType
    BY <2>1, <2>2, <2>3 DEF ServerType
  <2> QED
    BY <2>1, <2>3, <2>4, <2>5 DEF ServerInv, Clients
<1>3. Order
  <2>1. kind # "l2cap" => serverPc = "ended"
    BY DEF ServerInit
  <2> QED
    BY <2>1 DEF Order, Kinds, KindPoints, L2capPoints, Points, Held, HoldsIts, Connecting,
                Made, Targets
<1>4. Closers /\ Asked /\ Down
  BY DEF Closers, Asked, Down
<1> QED
  BY <1>1, <1>2, <1>3, <1>4 DEF IInv

LEMMA Invariance == Spec => []IInv
<1>1. IInv /\ [Next]_vars => IInv'
  BY TypeStep, ServerInvStep, OrderStep, ClosersStep, AskedStep, DownStep DEF IInv
<1> QED
  BY InitIInv, <1>1, PTL DEF Spec

\* However many tests overlap and fail, when all are over every descriptor is
\* closed, unless sockets were swapped under a test or the first close of a
\* cleanUp threw (KeyboardHidTester.java, RawHidTester.java, L2capTester.java).
THEOREM TestsCloseAll == Spec => []AllClosed
<1>1. IInv => AllClosed
  <2> SUFFICES ASSUME IInv, Over, lapses = {}, NEW s \in Sockets, link[s] # "none"
               PROVE  FALSE
    BY DEF AllClosed
  <2>1. CASE kind = "l2cap"
    BY <2>1 DEF IInv, Closers, L2capCloser, Over
  <2>2. CASE kind # "l2cap"
    <3>1. \A t \in Threads : pc[t] = "idle"
      BY <2>2 DEF IInv, Order, Kinds, KindPoints, Over
    <3> QED
      BY <2>2, <3>1 DEF IInv, Closers, Closer, IntrPoints
  <2> QED
    BY <2>1, <2>2
<1> QED
  BY <1>1, Invariance, PTL

\* A key of any test is down at the host only while a thread is about to release
\* it or to close its channel (KeyboardHidTester.java).
THEOREM KeysAreReleased == Spec => []NoStuckKey
<1>1. IInv => NoStuckKey
  BY DEF IInv, Down, Releaser, NoStuckKey
<1> QED
  BY <1>1, Invariance, PTL

\* A test of the L2capTester that waits for its answer while it holds the object
\* locked is not left alone, unless it has written an empty text or a second test
\* waits for the object (L2capTester.java, main.c of l2capServer).
THEOREM ReadersAreWoken == Spec => []ReaderWoken
<1>1. IInv => ReaderWoken
  <2> SUFFICES ASSUME IInv, "swapped" \notin lapses, NEW t \in Threads,
                      pc[t] = "reading", link[target[t]] = "connected"
               PROVE  LET s == target[t] IN
                        \/ s \in answers \cup requests
                        \/ client = s /\ serverPc \in {"write", "close"}
                        \/ s \in mute
                        \/ \E other \in Threads \ {t} :
                             pc[other] \in {"write", "closeCtrl"} /\ ctrlSocket = s
    BY DEF ReaderWoken
  <2>1. target[t] \in Sockets
    BY DEF IInv, Order, Held, HoldsIts
  <2>2. target[t] = ctrlSocket
    BY <2>1, HidTesterAssumption DEF IInv, Order, Targets, FieldOf
  <2>3. kind = "l2cap"
    BY DEF IInv, Order, Kinds, KindPoints
  <2> QED
    BY <2>1, <2>2, <2>3 DEF IInv, Asked, Answered, Attends
<1> QED
  BY <1>1, Invariance, PTL

\* The server waits in read only for a client whose test is still to write or to
\* close, or reads after an empty text (main.c of l2capServer).
THEOREM ServerIsReleased == Spec => []ServerReleased
<1>1. IInv => ServerReleased
  <2> SUFFICES ASSUME IInv, "swapped" \notin lapses, serverPc = "read",
                      client \notin requests \cup {Ended}
               PROVE  \E t \in Threads : Attends(t, client)
    BY DEF ServerReleased, Attends
  <2>1. kind = "l2cap"
    BY DEF IInv, Order, Kinds
  <2>2. client \in Sockets
    BY DEF IInv, ServerInv, ServerType
  <2>3. link[client] = "connected" /\ client \notin answers
    BY <2>2 DEF IInv, ServerInv, Clients
  <2>4. client = ctrlSocket
    BY <2>1, <2>2, <2>3 DEF IInv, Closers, L2capCloser
  <2> QED
    BY <2>1, <2>2, <2>3, <2>4 DEF IInv, Asked, Answered
<1> QED
  BY <1>1, Invariance, PTL
====
