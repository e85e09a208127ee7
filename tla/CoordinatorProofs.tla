------------------------- MODULE CoordinatorProofs -------------------------
(***************************************************************************)
(* Proofs about Coordinator, for any processes, coordinators, deployments  *)
(* and numbers of connections and of changes.                              *)
(***************************************************************************)
EXTENDS Coordinator, NatLemmas, SequenceTheorems, FiniteSetTheorems, TLAPS

(***************************************************************************)
(* The inductive invariant.                                                *)
(***************************************************************************)
ServerLinks == ToolServers \X Coordinators
ClientLinks == Clients \X Coordinators

\* Tool servers send their status and nothing else; only clients are sent lists.
FramesFit ==
  /\ \A l \in Links : \A i \in DOMAIN framesQueue[l] :
       framesQueue[l][i].type = "status" <=> l[1] \in ToolServers
  /\ \A h \in Connections : \A i \in DOMAIN sent[h] :
       sent[h][i].type = "status" <=> h[1] \in ToolServers
  /\ \A h \in Connections : lists[h] # << >> => h[1] \in Clients

\* A thread at work belongs to an open handler: of a client's connection while it replies,
\* of a tool server's otherwise.
ReadersFit ==
  \A h \in Connections : reader[h] # Idle =>
    /\ handlers[h] = "open"
    /\ IF reader[h].at = "replying" THEN h[1] \in Clients ELSE h[1] \in ToolServers

\* A coordinator lists a tool server once, and a thread about to mark an entry points to
\* its own tool server's.
ListedOnce ==
  \A k \in Coordinators : \A i, j \in DOMAIN toolServers[k] :
    toolServers[k][i].ts = toolServers[k][j].ts => i = j

SlotsFit ==
  \A h \in Connections : reader[h].at = "updated" =>
    /\ reader[h].slot \in DOMAIN toolServers[h[2]]
    /\ toolServers[h[2]][reader[h].slot].ts = h[1]

\* An entry is marked with a connection to its own coordinator.
MarkedHere ==
  \A k \in Coordinators : \A i \in DOMAIN toolServers[k] :
    LET g == toolServers[k][i].handler IN g # None => g[2] = k

\* A connection that was not made has no handler; the handlers that are not a connection's
\* doubles are erased.
HandlersFit ==
  /\ \A h \in Connections : h[3] > connects[LinkOf(h)] => handlers[h] = "none"
  /\ \A l \in Links : conn[l] # 0 /\ Current(l) \notin doubled =>
       \A h \in Connections : LinkOf(h) = l /\ h[3] < conn[l] => handlers[h] = "erased"

\* Only workers that run have connections and read lists.
WorkersRun ==
  \A l \in Links : /\ conn[l] # 0 => IsRunning(l)
                   /\ reading[l] # None => IsRunning(l) /\ l[1] \in Clients

\* A link without a connection will announce its info.
WillAnnounce == \A l \in ServerLinks : conn[l] = 0 => l \in needSend

\* A worker that runs has its tool server's latest info, unless it missed the change.
UpToDate ==
  \A l \in ServerLinks : IsRunning(l) /\ l \notin missed => linkInfo[l] = info[l[1]]

\* The last that is queued, or else the last that was sent, or else what is listed, is the
\* latest info of the link.
LatestSeen(l) ==
  IF framesQueue[l] # << >> THEN Last(framesQueue[l]).ver = linkInfo[l]
  ELSE IF sent[Current(l)] # << >> THEN Last(sent[Current(l)]).ver = linkInfo[l]
  ELSE IsListed(l[2], l[1], linkInfo[l])

OnItsWay ==
  \A l \in ServerLinks :
    (/\ conn[l] # 0 /\ handlers[Current(l)] = "open"
     /\ l \notin needSend \cup sending
     /\ Current(l) \notin doubled /\ l[2] \notin dangled)
    => LatestSeen(l)

\* Nothing is stopped before the choice, which leaves one link running, and, when it was
\* made with all workers in m_workers, no other.
Chosen ==
  /\ \A l \in stopped : l[1] \in exclusive
  /\ \A c \in exclusive : \E l \in {c} \X Coordinators :
       /\ IsRunning(l) /\ l \notin stopped
       /\ c \notin early =>
            /\ pushed[c] = Len(Hosts(c))
            /\ \A m \in {c} \X Coordinators : IsRunning(m) /\ m # l => m \in stopped

\* Some thread has changed the list and not copied it yet.
Changing(k) ==
  \E g \in Connections : g[2] = k /\ reader[g].at \in {"updated", "dangling", "marked"}

Served(l) == conn[l] # 0 /\ handlers[Current(l)] = "open"

\* A client knows a tool server, or is about to be told of it.
Told(l, t) ==
  \/ coord[l[1]][t] # 0
  \/ reading[l] # None /\ t \in DOMAIN reading[l]
  \/ \E i \in DOMAIN lists[Current(l)] : t \in DOMAIN lists[Current(l)][i]
  \/ Changing(l[2])
  \/ \E g \in Connections : /\ g[2] = l[2] /\ reader[g].at = "copied"
                            /\ t \in DOMAIN reader[g].list

ClientsAreTold ==
  \A l \in ClientLinks : Served(l) =>
    \A i \in DOMAIN toolServers[l[2]] : Told(l, toolServers[l[2]][i].ts)

\* A list that has all a coordinator lists, as it lists it.
Agrees(list, k) ==
  \A i \in DOMAIN toolServers[k] :
    LET e == toolServers[k][i] IN e.ts \in DOMAIN list /\ list[e.ts] = e.ver

CopiesAgree ==
  \A h \in Connections :
    reader[h].at \in {"copied", "replying"} /\ h[2] \notin overlapped =>
      Agrees(reader[h].list, h[2])

\* The newest list a client has, unless a newer one is being made.
Newest(l) ==
  IF lists[Current(l)] # << >> THEN Last(lists[Current(l)])
  ELSE IF reading[l] # None THEN reading[l]
  ELSE coord[l[1]]

NewestAgrees ==
  \A l \in ClientLinks :
    (/\ Served(l) /\ Len(Hosts(l[1])) = 1 /\ l[2] \notin overlapped
     /\ \A g \in Connections : g[2] = l[2] => reader[g].at \in {"idle", "replying"})
    => Agrees(Newest(l), l[2])

\* The session frames of a client's only connection, as yet unread.
Unread(l) == sent[<<l[1], l[2], 1>>] \o framesQueue[l]
Ends(frame) == frame.type = "session" /\ frame.finished
Once(s, x) == \A i, j \in DOMAIN s : s[i] = x /\ s[j] = x => i = j

\* The end of a session is the last of its frames, and none is unread once it is remembered.
InOrder(q, c, state, active, latest) ==
  /\ \A i \in DOMAIN q : q[i].type = "session" =>
       /\ state # "none"
       /\ q[i].finished => state = "finished"
       /\ c \notin ToSet(latest)
       /\ \A j \in DOMAIN q : j < i => ~Ends(q[j])
  /\ c \in ToSet(latest) => state = "finished" /\ c \notin active
  /\ Once(latest, c)

Sessions ==
  \A l \in ClientLinks :
    /\ connects[l] = 0 =>
         /\ framesQueue[l] = << >> /\ l[1] \notin ToSet(latestSessions[l[2]])
         /\ \A h \in Connections : LinkOf(h) = l => sent[h] = << >>
    /\ connects[l] = 1 /\ session[l[1]] # "late" =>
         InOrder(Unread(l), l[1], session[l[1]], activeSessions[l[2]], latestSessions[l[2]])

IInv ==
  /\ TypeOK /\ FramesFit /\ ReadersFit
  /\ ListedOnce /\ SlotsFit /\ MarkedHere /\ EntriesAreOwned
  /\ HandlersFit /\ WorkersRun /\ WillAnnounce /\ UpToDate /\ OnItsWay
  /\ Chosen
  /\ ClientsAreTold /\ CopiesAgree /\ NewestAgrees
  /\ Sessions

(***************************************************************************)
(* Links, connections, deployments and sequences.                          *)
(***************************************************************************)
LEMMA LinkFacts ==
  ASSUME NEW l \in Links
  PROVE  l[1] \in Processes /\ l[2] \in Coordinators /\ l = <<l[1], l[2]>>
BY DEF Links

LEMMA ServerLinkFacts ==
  /\ ServerLinks \subseteq Links /\ ClientLinks \subseteq Links
  /\ \A l \in Links : l \in ServerLinks <=> l[1] \in ToolServers
  /\ \A l \in Links : l \in ClientLinks <=> l[1] \in Clients
  /\ \A l \in Links : l[1] \in Clients <=> l[1] \notin ToolServers
BY CoordinatorAssumption DEF ServerLinks, ClientLinks, Links, Processes

LEMMA ConnectionIs ==
  ASSUME NEW p \in Processes, NEW k \in Coordinators, NEW n \in 1 .. MaxConnects
  PROVE  <<p, k, n>> \in Connections
<1> DEFINE S == {<<p, k, m>> : m \in 1 .. MaxConnects}
<1>1. S \in {{<<q, j, m>> : m \in 1 .. MaxConnects} : q \in Processes, j \in Coordinators}
  OBVIOUS
<1>2. <<p, k, n>> \in S OBVIOUS
<1> HIDE DEF S
<1> QED BY <1>1, <1>2 DEF Connections

LEMMA ConnectionFacts ==
  ASSUME NEW h \in Connections
  PROVE  /\ h[1] \in Processes /\ h[2] \in Coordinators /\ h[3] \in 1 .. MaxConnects
         /\ h = <<h[1], h[2], h[3]>>
         /\ LinkOf(h) \in Links /\ LinkOf(h)[1] = h[1] /\ LinkOf(h)[2] = h[2]
         /\ h # None
<1>1. PICK p \in Processes, k \in Coordinators, n \in 1 .. MaxConnects : h = <<p, k, n>>
  BY DEF Connections
<1> QED BY <1>1, CoordinatorAssumption DEF LinkOf, Links

LEMMA DeploymentFacts ==
  ASSUME TypeOK
  PROVE  /\ \A p \in Processes :
              /\ Hosts(p) \in Seq(Coordinators) /\ Len(Hosts(p)) \in Nat
              /\ deployment.connects[p] \in 0 .. MaxConnects
              /\ \A i, j \in 1 .. Len(Hosts(p)) : Hosts(p)[i] = Hosts(p)[j] => i = j
         /\ \A t \in ToolServers : deployment.infos[t] \in Infos
<1>1. deployment \in DeploymentRecords BY CoordinatorAssumption DEF TypeOK, WorkerTypes
<1>2. \A p \in Processes : IsInjective(deployment.hosts[p])
  BY CoordinatorAssumption DEF TypeOK, WorkerTypes
<1> QED BY <1>1, <1>2 DEF DeploymentRecords, Hosts, IsInjective

LEMMA CurrentFacts ==
  ASSUME TypeOK, NEW l \in Links, conn[l] # 0
  PROVE  /\ Current(l) \in Connections /\ LinkOf(Current(l)) = l
         /\ Current(l)[1] = l[1] /\ Current(l)[2] = l[2] /\ Current(l)[3] = conn[l]
         /\ conn[l] = connects[l] /\ conn[l] \in 1 .. MaxConnects
<1>1. l[1] \in Processes /\ l[2] \in Coordinators /\ l = <<l[1], l[2]>> BY LinkFacts
<1>2. conn[l] = connects[l] /\ connects[l] <= deployment.connects[l[1]] /\ conn[l] \in Nat
  BY DEF TypeOK, ConnTypes
<1>3. conn[l] \in 1 .. MaxConnects
  <2>1. MaxConnects \in Nat BY CoordinatorAssumption
  <2>2. deployment.connects[l[1]] \in 0 .. MaxConnects BY <2>1, <1>1, DeploymentFacts, Zenon
  <2> QED BY <1>2, <2>1, <2>2
<1>4. Current(l) \in Connections BY <1>1, <1>3, ConnectionIs DEF Current
<1>5. /\ Current(l)[1] = l[1] /\ Current(l)[2] = l[2] /\ Current(l)[3] = conn[l]
  BY DEF Current
<1>6. LinkOf(Current(l)) = l BY <1>1, <1>5 DEF LinkOf
<1> QED BY <1>2, <1>3, <1>4, <1>5, <1>6

LEMMA TailFacts ==
  ASSUME NEW S, NEW s \in Seq(S), s # << >>
  PROVE  /\ Head(s) = s[1] /\ s[1] \in S /\ Len(s) \in Nat \ {0}
         /\ Tail(s) \in Seq(S) /\ Len(Tail(s)) = Len(s) - 1
         /\ \A i \in 1 .. Len(s) - 1 : Tail(s)[i] = s[i + 1]
BY HeadTailProperties, EmptySeq, LenProperties, ElementOfSeq

LEMMA AppendFacts ==
  ASSUME NEW S, NEW s \in Seq(S), NEW x \in S
  PROVE  /\ Append(s, x) \in Seq(S) /\ Len(Append(s, x)) = Len(s) + 1
         /\ Append(s, x) # << >> /\ Last(Append(s, x)) = x
         /\ DOMAIN Append(s, x) = 1 .. Len(s) + 1
         /\ \A i \in 1 .. Len(s) : Append(s, x)[i] = s[i]
         /\ Append(s, x)[Len(s) + 1] = x
         /\ DOMAIN s = 1 .. Len(s) /\ Len(s) \in Nat
BY AppendProperties, LenProperties DEF Last

LEMMA ExceptFacts ==
  ASSUME NEW S, NEW s \in Seq(S), NEW i \in DOMAIN s, NEW x \in S
  PROVE  /\ [s EXCEPT ![i] = x] \in Seq(S) /\ DOMAIN [s EXCEPT ![i] = x] = DOMAIN s
         /\ Len([s EXCEPT ![i] = x]) = Len(s)
         /\ [s EXCEPT ![i] = x][i] = x
         /\ \A j \in DOMAIN s : j # i => [s EXCEPT ![i] = x][j] = s[j]
BY ExceptSeq, LenProperties

LEMMA RemoveAtFacts ==
  ASSUME NEW S, NEW s \in Seq(S), NEW i \in DOMAIN s
  PROVE  /\ RemoveAt(s, i) \in Seq(S) /\ Len(RemoveAt(s, i)) = Len(s) - 1
         /\ DOMAIN RemoveAt(s, i) = 1 .. Len(s) - 1
         /\ DOMAIN s = 1 .. Len(s) /\ Len(s) \in Nat \ {0}
         /\ \A j \in 1 .. Len(s) - 1 :
              RemoveAt(s, i)[j] = IF j < i THEN s[j] ELSE s[j + 1]
<1>1. DOMAIN s = 1 .. Len(s) /\ Len(s) \in Nat /\ i \in 1 .. Len(s) BY LenProperties
<1> DEFINE a == SubSeq(s, 1, i - 1)
           b == SubSeq(s, i + 1, Len(s))
<1>2. a \in Seq(S) /\ Len(a) = i - 1 /\ \A j \in 1 .. i - 1 : a[j] = s[j]
  <2>1. \A j \in 1 .. i - 1 : s[j] \in S BY <1>1, ElementOfSeq
  <2>2. /\ a \in Seq(S) /\ Len(a) = IF 1 <= i - 1 THEN (i - 1) - 1 + 1 ELSE 0
        /\ \A j \in 1 .. (i - 1) - 1 + 1 : a[j] = s[1 + j - 1]
    BY <1>1, <2>1, SubSeqProperties
  <2>3. (i - 1) - 1 + 1 = i - 1 /\ \A j \in 1 .. i - 1 : 1 + j - 1 = j BY <1>1
  <2> HIDE DEF a
  <2> QED BY <1>1, <2>2, <2>3
<1>3. b \in Seq(S) /\ Len(b) = Len(s) - i /\ \A j \in 1 .. Len(s) - i : b[j] = s[i + j]
  <2>1. \A j \in i + 1 .. Len(s) : s[j] \in S BY <1>1, ElementOfSeq
  <2>2. /\ b \in Seq(S) /\ Len(b) = IF i + 1 <= Len(s) THEN Len(s) - (i + 1) + 1 ELSE 0
        /\ \A j \in 1 .. Len(s) - (i + 1) + 1 : b[j] = s[(i + 1) + j - 1]
    BY <1>1, <2>1, SubSeqProperties
  <2>3. /\ Len(s) - (i + 1) + 1 = Len(s) - i
        /\ \A j \in 1 .. Len(s) - i : (i + 1) + j - 1 = i + j
    BY <1>1
  <2> HIDE DEF b
  <2> QED BY <1>1, <2>2, <2>3
<1> DEFINE c == a \o b
<1>4. RemoveAt(s, i) = c BY DEF RemoveAt
<1>5. /\ c \in Seq(S) /\ Len(c) = Len(a) + Len(b)
      /\ \A j \in 1 .. Len(a) + Len(b) : c[j] = IF j <= Len(a) THEN a[j] ELSE b[j - Len(a)]
  BY <1>2, <1>3, ConcatProperties
<1>6. DOMAIN c = 1 .. Len(c) BY <1>5, LenProperties
<1> HIDE DEF a, b, c
<1>7. Len(c) = Len(s) - 1 BY <1>1, <1>2, <1>3, <1>5
<1>8. ASSUME NEW j \in 1 .. Len(s) - 1
      PROVE  c[j] = IF j < i THEN s[j] ELSE s[j + 1]
  <2>1. CASE j < i
    <3>1. j <= Len(a) /\ j \in 1 .. Len(a) + Len(b) /\ a[j] = s[j] BY <2>1, <1>1, <1>2, <1>3
    <3> QED BY <2>1, <1>5, <3>1
  <2>2. CASE j >= i
    <3>1. j - (i - 1) \in 1 .. Len(s) - i BY <2>2, <1>1
    <3>2. b[j - (i - 1)] = s[i + (j - (i - 1))] BY <3>1, <1>3
    <3>3. i + (j - (i - 1)) = j + 1 BY <1>1
    <3>4. c[j] = b[j - (i - 1)]
      <4>1. ~(j <= Len(a)) /\ j \in 1 .. Len(a) + Len(b) BY <2>2, <1>1, <1>2, <1>3
      <4> QED BY <4>1, <1>2, <1>5
    <3> QED BY <2>2, <3>2, <3>3, <3>4, <1>1
  <2> QED BY <2>1, <2>2, <1>1
<1>9. Len(s) \in Nat \ {0} BY <1>1
<1> QED BY <1>1, <1>9, <1>4, <1>5, <1>6, <1>7, <1>8, Zenon

LEMMA ConcatFacts ==
  ASSUME NEW S, NEW s \in Seq(S), NEW t \in Seq(S)
  PROVE  /\ s \o t \in Seq(S) /\ Len(s \o t) = Len(s) + Len(t)
         /\ DOMAIN (s \o t) = 1 .. Len(s) + Len(t) /\ Len(s) \in Nat /\ Len(t) \in Nat
         /\ DOMAIN s = 1 .. Len(s) /\ DOMAIN t = 1 .. Len(t)
         /\ \A i \in DOMAIN s : (s \o t)[i] = s[i]
         /\ \A i \in DOMAIN t : (s \o t)[Len(s) + i] = t[i]
         /\ \A i \in DOMAIN (s \o t) :
              \/ i \in DOMAIN s /\ (s \o t)[i] = s[i]
              \/ \E j \in DOMAIN t : i = Len(s) + j /\ (s \o t)[i] = t[j]
<1> DEFINE c == s \o t
<1>1. /\ c \in Seq(S) /\ Len(c) = Len(s) + Len(t)
      /\ \A i \in 1 .. Len(s) + Len(t) : c[i] = IF i <= Len(s) THEN s[i] ELSE t[i - Len(s)]
  BY ConcatProperties
<1>2. /\ DOMAIN c = 1 .. Len(c) /\ DOMAIN s = 1 .. Len(s) /\ DOMAIN t = 1 .. Len(t)
      /\ Len(s) \in Nat /\ Len(t) \in Nat
  BY <1>1, LenProperties
<1> HIDE DEF c
<1>3. \A i \in DOMAIN s : c[i] = s[i] BY <1>1, <1>2
<1>4. ASSUME NEW i \in DOMAIN t PROVE c[Len(s) + i] = t[i]
  <2>1. Len(s) + i \in 1 .. Len(s) + Len(t) /\ ~(Len(s) + i <= Len(s)) BY <1>2
  <2>2. (Len(s) + i) - Len(s) = i BY <1>2
  <2> QED BY <2>1, <2>2, <1>1
<1>5. ASSUME NEW i \in DOMAIN c
      PROVE  \/ i \in DOMAIN s /\ c[i] = s[i]
             \/ \E j \in DOMAIN t : i = Len(s) + j /\ c[i] = t[j]
  <2>1. CASE i <= Len(s) BY <2>1, <1>1, <1>2
  <2>2. CASE i > Len(s)
    <3>1. i - Len(s) \in DOMAIN t /\ i = Len(s) + (i - Len(s)) BY <2>2, <1>1, <1>2
    <3>2. c[i] = t[i - Len(s)] BY <2>2, <1>1, <1>2
    <3> QED BY <3>1, <3>2
  <2> QED BY <2>1, <2>2, <1>1, <1>2
<1>6. DOMAIN c = 1 .. Len(s) + Len(t) BY <1>1, <1>2
<1> QED BY <1>1, <1>2, <1>3, <1>4, <1>5, <1>6 DEF c

LEMMA ConcatLast ==
  ASSUME NEW S, NEW s \in Seq(S), NEW t \in Seq(S), t # << >>
  PROVE  s \o t # << >> /\ Last(s \o t) = Last(t)
<1>1. Len(t) \in Nat \ {0} BY EmptySeq
<1>2. Len(s \o t) = Len(s) + Len(t) /\ Len(s) \in Nat /\ (s \o t)[Len(s) + Len(t)] = t[Len(t)]
  BY <1>1, ConcatFacts
<1>3. s \o t # << >> BY <1>1, <1>2, EmptySeq
<1> QED BY <1>2, <1>3 DEF Last

LEMMA TailLast ==
  ASSUME NEW S, NEW s \in Seq(S), s # << >>
  PROVE  IF Tail(s) = << >> THEN Last(s) = s[1] ELSE Last(Tail(s)) = Last(s)
<1>1. /\ Len(s) \in Nat \ {0} /\ Tail(s) \in Seq(S) /\ Len(Tail(s)) = Len(s) - 1
      /\ \A i \in 1 .. Len(s) - 1 : Tail(s)[i] = s[i + 1]
  BY TailFacts
<1>2. CASE Tail(s) = << >>
  <2>1. Len(Tail(s)) = 0 BY <1>2, EmptySeq
  <2>2. Len(s) = 1
    <3>1. \A n \in Nat : n - 1 = 0 => n = 1 OBVIOUS
    <3>2. Len(s) \in Nat /\ Len(s) - 1 = 0 BY <1>1, <2>1, Zenon
    <3> QED BY <3>1, <3>2, Zenon
  <2> QED BY <1>2, <2>2 DEF Last
<1>3. CASE Tail(s) # << >>
  <2>1. Len(s) - 1 \in 1 .. Len(s) - 1 BY <1>1, <1>3, EmptySeq
  <2>2. Tail(s)[Len(s) - 1] = s[(Len(s) - 1) + 1] /\ (Len(s) - 1) + 1 = Len(s) BY <1>1, <2>1
  <2> QED BY <1>1, <1>3, <2>2 DEF Last
<1> QED BY <1>2, <1>3

LEMMA ConcatFit ==
  ASSUME NEW s \in Seq(Frames), NEW t \in Seq(Frames), NEW p,
         \A i \in DOMAIN s : s[i].type = "status" <=> p \in ToolServers,
         \A i \in DOMAIN t : t[i].type = "status" <=> p \in ToolServers
  PROVE  \A i \in DOMAIN (s \o t) : (s \o t)[i].type = "status" <=> p \in ToolServers
BY ConcatFacts

(***************************************************************************)
(* Types.                                                                  *)
(***************************************************************************)
LEMMA Initially == Init => TypeOK /\ FramesFit /\ ReadersFit
<1> SUFFICES ASSUME Init PROVE TypeOK /\ FramesFit /\ ReadersFit OBVIOUS
<1>1. WorkerTypes BY CoordinatorAssumption DEF Init, WorkerTypes
<1>2. ConnTypes
  <2>1. \A p \in Processes : deployment.connects[p] \in Nat
    BY CoordinatorAssumption DEF Init, DeploymentRecords
  <2> QED BY <2>1, LinkFacts DEF Init, ConnTypes
<1>3. InfoTypes /\ ClientTypes
  BY CoordinatorAssumption DEF Init, InfoTypes, ClientTypes, Infos, Links, Processes
<1>4. NetTypes /\ ServerTypes BY EmptySeq DEF Init, NetTypes, ServerTypes, ReaderStates
<1>5. SessionTypes /\ HistoryTypes BY EmptySeq DEF Init, SessionTypes, HistoryTypes
<1>6. FramesFit /\ ReadersFit BY DEF Init, FramesFit, ReadersFit
<1> QED BY <1>1, <1>2, <1>3, <1>4, <1>5, <1>6 DEF TypeOK

(***************************************************************************)
(* Which actions change what: a step is one action, and each action leaves *)
(* most of the state alone.                                                *)
(***************************************************************************)
LEMMA NextIsOneAction ==
  ASSUME [Next]_vars
  PROVE  \/ UNCHANGED vars
         \/ \E p \in Processes : StartWorker(p) \/ PushWorker(p)
         \/ \E l \in Links : QuantClear(l) \/ QuantSend(l) \/ QuantRequest(l) \/ Connect(l) \/
            Write(l) \/ ReadList(l) \/ ApplyList(l) \/ LoseConnection(l)
         \/ \E h \in Connections : ReadStatus(h) \/ MarkHandler(h) \/ MarkDangling(h) \/
            CopyList(h) \/ QueueFrameToAll(h) \/ ReadRequest(h) \/ Reply(h) \/ ReadSession(h) \/
            EraseWorker(h) \/ Break(h)
         \/ \E t \in ToolServers : SetToolServerInfo(t)
         \/ \E c \in Clients, finished \in BOOLEAN : SendSession(c, finished)
         \/ \E k \in Coordinators : Crash(k) \/ Restart(k)
BY DEF Next, ProcessStep, ServerStep, Environment

USE DEF vars, processVars, coordinatorVars, netVars, envVars, history, workerVars, connVars,
        infoVars, clientVars, serverVars, listedSessions, Queue, Fails

LEMMA StartWorkerKeeps ==
  ASSUME NEW p \in Processes, StartWorker(p)
  PROVE  UNCHANGED <<deployment, pushed, exclusive, stopped, connects, conn, info, needSend,
                    needRequest, sending, framesQueue, sent, lists, handlers, reader, toolServers,
                    activeSessions, latestSessions, session, reading, coord, losses, up, crashes,
                    overlapped, dangled, doubled, early, missed>>
BY DEF StartWorker

LEMMA PushWorkerKeeps ==
  ASSUME NEW p \in Processes, PushWorker(p)
  PROVE  UNCHANGED <<deployment, running, exclusive, stopped, connects, conn, info, linkInfo,
                    needSend, needRequest, sending, framesQueue, sent, lists, handlers, reader,
                    toolServers, activeSessions, latestSessions, session, reading, coord, losses,
                    up, crashes, overlapped, dangled, doubled, early, missed>>
BY DEF PushWorker

LEMMA QuantClearKeeps ==
  ASSUME NEW l \in Links, QuantClear(l)
  PROVE  UNCHANGED <<deployment, running, pushed, exclusive, stopped, connects, conn, info,
                    linkInfo, needRequest, framesQueue, sent, lists, handlers, reader,
                    toolServers, activeSessions, latestSessions, session, reading, coord, losses,
                    up, crashes, overlapped, dangled, doubled, early, missed>>
BY DEF QuantClear

LEMMA QuantSendKeeps ==
  ASSUME NEW l \in Links, QuantSend(l)
  PROVE  UNCHANGED <<deployment, running, pushed, exclusive, stopped, connects, conn, info,
                    linkInfo, needSend, needRequest, sent, lists, handlers, reader, toolServers,
                    activeSessions, latestSessions, session, reading, coord, losses, up, crashes,
                    overlapped, dangled, doubled, early, missed>>
BY DEF QuantSend

LEMMA QuantRequestKeeps ==
  ASSUME NEW l \in Links, QuantRequest(l)
  PROVE  UNCHANGED <<deployment, running, pushed, exclusive, stopped, connects, conn, info,
                    linkInfo, needSend, sending, sent, lists, handlers, reader, toolServers,
                    activeSessions, latestSessions, session, reading, coord, losses, up, crashes,
                    overlapped, dangled, doubled, early, missed>>
BY DEF QuantRequest

LEMMA ConnectKeeps ==
  ASSUME NEW l \in Links, Connect(l)
  PROVE  UNCHANGED <<deployment, running, pushed, exclusive, stopped, info, linkInfo, needSend,
                    needRequest, sending, framesQueue, sent, reader, toolServers, activeSessions,
                    latestSessions, session, reading, coord, losses, up, crashes, overlapped,
                    dangled, early, missed>>
BY DEF Connect

LEMMA WriteKeeps ==
  ASSUME NEW l \in Links, Write(l)
  PROVE  UNCHANGED <<deployment, running, pushed, exclusive, stopped, connects, conn, info,
                    linkInfo, needSend, needRequest, sending, lists, handlers, reader,
                    toolServers, activeSessions, latestSessions, session, reading, coord, losses,
                    up, crashes, overlapped, dangled, doubled, early, missed>>
BY DEF Write

LEMMA ReadListKeeps ==
  ASSUME NEW l \in Links, ReadList(l)
  PROVE  UNCHANGED <<deployment, running, pushed, exclusive, stopped, connects, conn, info,
                    linkInfo, needSend, needRequest, sending, framesQueue, sent, handlers, reader,
                    toolServers, activeSessions, latestSessions, session, coord, losses, up,
                    crashes, overlapped, dangled, doubled, early, missed>>
BY DEF ReadList

LEMMA ApplyListKeeps ==
  ASSUME NEW l \in Links, ApplyList(l)
  PROVE  UNCHANGED <<deployment, running, pushed, connects, info, linkInfo, needSend, needRequest,
                    sending, framesQueue, sent, lists, handlers, reader, toolServers,
                    activeSessions, latestSessions, session, losses, up, crashes, overlapped,
                    dangled, doubled, missed>>
BY DEF ApplyList, StopExtraClients

LEMMA LoseConnectionKeeps ==
  ASSUME NEW l \in Links, LoseConnection(l)
  PROVE  UNCHANGED <<deployment, running, pushed, exclusive, stopped, connects, info, linkInfo,
                    sending, framesQueue, sent, handlers, reader, toolServers, activeSessions,
                    latestSessions, session, reading, coord, up, crashes, overlapped, dangled,
                    doubled, early, missed>>
BY DEF LoseConnection

LEMMA ReadStatusKeeps ==
  ASSUME NEW h \in Connections, ReadStatus(h)
  PROVE  UNCHANGED <<deployment, running, pushed, exclusive, stopped, connects, conn, info,
                    linkInfo, needSend, needRequest, sending, framesQueue, lists, handlers,
                    activeSessions, latestSessions, session, reading, coord, losses, up, crashes,
                    dangled, doubled, early, missed>>
BY DEF ReadStatus, At, NextFrame

LEMMA MarkHandlerKeeps ==
  ASSUME NEW h \in Connections, MarkHandler(h)
  PROVE  UNCHANGED <<deployment, running, pushed, exclusive, stopped, connects, conn, info,
                    linkInfo, needSend, needRequest, sending, framesQueue, sent, lists, handlers,
                    activeSessions, latestSessions, session, reading, coord, losses, up, crashes,
                    overlapped, dangled, doubled, early, missed>>
BY DEF MarkHandler, At

LEMMA MarkDanglingKeeps ==
  ASSUME NEW h \in Connections, MarkDangling(h)
  PROVE  UNCHANGED <<deployment, running, pushed, exclusive, stopped, connects, conn, info,
                    linkInfo, needSend, needRequest, sending, framesQueue, sent, lists, handlers,
                    activeSessions, latestSessions, session, reading, coord, losses, up, crashes,
                    overlapped, doubled, early, missed>>
BY DEF MarkDangling, At

LEMMA CopyListKeeps ==
  ASSUME NEW h \in Connections, CopyList(h)
  PROVE  UNCHANGED <<deployment, running, pushed, exclusive, stopped, connects, conn, info,
                    linkInfo, needSend, needRequest, sending, framesQueue, sent, lists, handlers,
                    toolServers, activeSessions, latestSessions, session, reading, coord, losses,
                    up, crashes, overlapped, dangled, doubled, early, missed>>
BY DEF CopyList, At

LEMMA QueueFrameToAllKeeps ==
  ASSUME NEW h \in Connections, QueueFrameToAll(h)
  PROVE  UNCHANGED <<deployment, running, pushed, exclusive, stopped, connects, conn, info,
                    linkInfo, needSend, needRequest, sending, framesQueue, sent, handlers,
                    toolServers, activeSessions, latestSessions, session, reading, coord, losses,
                    up, crashes, overlapped, dangled, doubled, early, missed>>
BY DEF QueueFrameToAll, At

LEMMA ReadRequestKeeps ==
  ASSUME NEW h \in Connections, ReadRequest(h)
  PROVE  UNCHANGED <<deployment, running, pushed, exclusive, stopped, connects, conn, info,
                    linkInfo, needSend, needRequest, sending, framesQueue, lists, handlers,
                    toolServers, activeSessions, latestSessions, session, reading, coord, losses,
                    up, crashes, overlapped, dangled, doubled, early, missed>>
BY DEF ReadRequest, At, NextFrame

LEMMA ReplyKeeps ==
  ASSUME NEW h \in Connections, Reply(h)
  PROVE  UNCHANGED <<deployment, running, pushed, exclusive, stopped, connects, conn, info,
                    linkInfo, needSend, needRequest, sending, framesQueue, sent, handlers,
                    toolServers, activeSessions, latestSessions, session, reading, coord, losses,
                    up, crashes, overlapped, dangled, doubled, early, missed>>
BY DEF Reply, At

LEMMA ReadSessionKeeps ==
  ASSUME NEW h \in Connections, ReadSession(h)
  PROVE  UNCHANGED <<deployment, running, pushed, exclusive, stopped, connects, conn, info,
                    linkInfo, needSend, needRequest, sending, framesQueue, lists, handlers,
                    reader, toolServers, session, reading, coord, losses, up, crashes, overlapped,
                    dangled, doubled, early, missed>>
BY DEF ReadSession, NextFrame

LEMMA EraseWorkerKeeps ==
  ASSUME NEW h \in Connections, EraseWorker(h)
  PROVE  UNCHANGED <<deployment, running, pushed, exclusive, stopped, connects, conn, info,
                    linkInfo, needSend, needRequest, sending, framesQueue, sent, lists,
                    activeSessions, latestSessions, session, reading, coord, losses, up, crashes,
                    overlapped, dangled, doubled, early, missed>>
BY DEF EraseWorker

LEMMA BreakKeeps ==
  ASSUME NEW h \in Connections, Break(h)
  PROVE  UNCHANGED <<deployment, running, pushed, exclusive, stopped, connects, conn, info,
                    linkInfo, needSend, needRequest, sending, framesQueue, lists, reader,
                    toolServers, activeSessions, latestSessions, session, reading, coord, up,
                    crashes, overlapped, dangled, doubled, early, missed>>
BY DEF Break

LEMMA SetToolServerInfoKeeps ==
  ASSUME NEW t \in ToolServers, SetToolServerInfo(t)
  PROVE  UNCHANGED <<deployment, running, pushed, exclusive, stopped, connects, conn, needRequest,
                    sending, framesQueue, sent, lists, handlers, reader, toolServers,
                    activeSessions, latestSessions, session, reading, coord, losses, up, crashes,
                    overlapped, dangled, doubled, early>>
BY DEF SetToolServerInfo

LEMMA SendSessionKeeps ==
  ASSUME NEW c \in Clients, NEW finished \in BOOLEAN, SendSession(c, finished)
  PROVE  UNCHANGED <<deployment, running, pushed, exclusive, stopped, connects, conn, info,
                    linkInfo, needSend, needRequest, sending, sent, lists, handlers, reader,
                    toolServers, activeSessions, latestSessions, reading, coord, losses, up,
                    crashes, overlapped, dangled, doubled, early, missed>>
BY DEF SendSession

LEMMA CrashKeeps ==
  ASSUME NEW k \in Coordinators, Crash(k)
  PROVE  UNCHANGED <<deployment, running, pushed, exclusive, stopped, connects, conn, info,
                    linkInfo, needSend, needRequest, sending, framesQueue, lists, session,
                    reading, coord, losses, doubled, early, missed>>
BY DEF Crash

LEMMA RestartKeeps ==
  ASSUME NEW k \in Coordinators, Restart(k)
  PROVE  UNCHANGED <<deployment, running, pushed, exclusive, stopped, connects, conn, info,
                    linkInfo, needSend, needRequest, sending, framesQueue, sent, lists, handlers,
                    reader, toolServers, activeSessions, latestSessions, session, reading, coord,
                    losses, crashes, overlapped, dangled, doubled, early, missed>>
BY DEF Restart

LEMMA DeploymentStays ==
  ASSUME [Next]_vars
  PROVE  UNCHANGED deployment
BY NextIsOneAction, StartWorkerKeeps, PushWorkerKeeps, QuantClearKeeps, QuantSendKeeps,
  QuantRequestKeeps, ConnectKeeps, WriteKeeps, ReadListKeeps, ApplyListKeeps, LoseConnectionKeeps,
  ReadStatusKeeps, MarkHandlerKeeps, MarkDanglingKeeps, CopyListKeeps, QueueFrameToAllKeeps,
  ReadRequestKeeps, ReplyKeeps, ReadSessionKeeps, EraseWorkerKeeps, BreakKeeps,
  SetToolServerInfoKeeps, SendSessionKeeps, CrashKeeps, RestartKeeps

LEMMA WorkersChange ==
  ASSUME [Next]_vars
  PROVE  \/ UNCHANGED <<running, pushed, exclusive, stopped, early>>
         \/ \E p \in Processes : StartWorker(p) \/ PushWorker(p)
         \/ \E l \in Links : ApplyList(l)
BY NextIsOneAction, QuantClearKeeps, QuantSendKeeps, QuantRequestKeeps, ConnectKeeps, WriteKeeps,
  ReadListKeeps, LoseConnectionKeeps, ReadStatusKeeps, MarkHandlerKeeps, MarkDanglingKeeps,
  CopyListKeeps, QueueFrameToAllKeeps, ReadRequestKeeps, ReplyKeeps, ReadSessionKeeps,
  EraseWorkerKeeps, BreakKeeps, SetToolServerInfoKeeps, SendSessionKeeps, CrashKeeps, RestartKeeps

LEMMA ConnsChange ==
  ASSUME [Next]_vars
  PROVE  \/ UNCHANGED <<connects, conn>>
         \/ \E l \in Links : Connect(l) \/ LoseConnection(l) \/ ApplyList(l)
BY NextIsOneAction, StartWorkerKeeps, PushWorkerKeeps, QuantClearKeeps, QuantSendKeeps,
  QuantRequestKeeps, WriteKeeps, ReadListKeeps, ReadStatusKeeps, MarkHandlerKeeps,
  MarkDanglingKeeps, CopyListKeeps, QueueFrameToAllKeeps, ReadRequestKeeps, ReplyKeeps,
  ReadSessionKeeps, EraseWorkerKeeps, BreakKeeps, SetToolServerInfoKeeps, SendSessionKeeps,
  CrashKeeps, RestartKeeps

LEMMA InfosChange ==
  ASSUME [Next]_vars
  PROVE  \/ UNCHANGED <<info, linkInfo, needSend, sending>>
         \/ \E p \in Processes : StartWorker(p)
         \/ \E l \in Links : QuantClear(l) \/ QuantSend(l) \/ LoseConnection(l)
         \/ \E t \in ToolServers : SetToolServerInfo(t)
BY NextIsOneAction, PushWorkerKeeps, QuantRequestKeeps, ConnectKeeps, WriteKeeps, ReadListKeeps,
  ApplyListKeeps, ReadStatusKeeps, MarkHandlerKeeps, MarkDanglingKeeps, CopyListKeeps,
  QueueFrameToAllKeeps, ReadRequestKeeps, ReplyKeeps, ReadSessionKeeps, EraseWorkerKeeps,
  BreakKeeps, SendSessionKeeps, CrashKeeps, RestartKeeps

LEMMA ClientsChange ==
  ASSUME [Next]_vars
  PROVE  \/ UNCHANGED <<needRequest, reading, coord>>
         \/ \E l \in Links : QuantRequest(l) \/ LoseConnection(l) \/ ReadList(l) \/ ApplyList(l)
BY NextIsOneAction, StartWorkerKeeps, PushWorkerKeeps, QuantClearKeeps, QuantSendKeeps,
  ConnectKeeps, WriteKeeps, ReadStatusKeeps, MarkHandlerKeeps, MarkDanglingKeeps, CopyListKeeps,
  QueueFrameToAllKeeps, ReadRequestKeeps, ReplyKeeps, ReadSessionKeeps, EraseWorkerKeeps,
  BreakKeeps, SetToolServerInfoKeeps, SendSessionKeeps, CrashKeeps, RestartKeeps

LEMMA QueuesChange ==
  ASSUME [Next]_vars
  PROVE  \/ UNCHANGED <<framesQueue>>
         \/ \E l \in Links : QuantSend(l) \/ QuantRequest(l) \/ Write(l)
         \/ \E c \in Clients, finished \in BOOLEAN : SendSession(c, finished)
BY NextIsOneAction, StartWorkerKeeps, PushWorkerKeeps, QuantClearKeeps, ConnectKeeps,
  ReadListKeeps, ApplyListKeeps, LoseConnectionKeeps, ReadStatusKeeps, MarkHandlerKeeps,
  MarkDanglingKeeps, CopyListKeeps, QueueFrameToAllKeeps, ReadRequestKeeps, ReplyKeeps,
  ReadSessionKeeps, EraseWorkerKeeps, BreakKeeps, SetToolServerInfoKeeps, CrashKeeps, RestartKeeps

LEMMA SentChange ==
  ASSUME [Next]_vars
  PROVE  \/ UNCHANGED <<sent>>
         \/ \E l \in Links : Write(l)
         \/ \E h \in Connections : Break(h) \/ ReadStatus(h) \/ ReadRequest(h) \/ ReadSession(h)
         \/ \E k \in Coordinators : Crash(k)
BY NextIsOneAction, StartWorkerKeeps, PushWorkerKeeps, QuantClearKeeps, QuantSendKeeps,
  QuantRequestKeeps, ConnectKeeps, ReadListKeeps, ApplyListKeeps, LoseConnectionKeeps,
  MarkHandlerKeeps, MarkDanglingKeeps, CopyListKeeps, QueueFrameToAllKeeps, ReplyKeeps,
  EraseWorkerKeeps, SetToolServerInfoKeeps, SendSessionKeeps, RestartKeeps

LEMMA ListsChange ==
  ASSUME [Next]_vars
  PROVE  \/ UNCHANGED <<lists>>
         \/ \E l \in Links : Connect(l) \/ LoseConnection(l) \/ ReadList(l)
         \/ \E h \in Connections : QueueFrameToAll(h) \/ Reply(h)
BY NextIsOneAction, StartWorkerKeeps, PushWorkerKeeps, QuantClearKeeps, QuantSendKeeps,
  QuantRequestKeeps, WriteKeeps, ApplyListKeeps, ReadStatusKeeps, MarkHandlerKeeps,
  MarkDanglingKeeps, CopyListKeeps, ReadRequestKeeps, ReadSessionKeeps, EraseWorkerKeeps,
  BreakKeeps, SetToolServerInfoKeeps, SendSessionKeeps, CrashKeeps, RestartKeeps

LEMMA HandlersChange ==
  ASSUME [Next]_vars
  PROVE  \/ UNCHANGED <<handlers>>
         \/ \E l \in Links : Connect(l)
         \/ \E h \in Connections : Break(h) \/ EraseWorker(h)
         \/ \E k \in Coordinators : Crash(k)
BY NextIsOneAction, StartWorkerKeeps, PushWorkerKeeps, QuantClearKeeps, QuantSendKeeps,
  QuantRequestKeeps, WriteKeeps, ReadListKeeps, ApplyListKeeps, LoseConnectionKeeps,
  ReadStatusKeeps, MarkHandlerKeeps, MarkDanglingKeeps, CopyListKeeps, QueueFrameToAllKeeps,
  ReadRequestKeeps, ReplyKeeps, ReadSessionKeeps, SetToolServerInfoKeeps, SendSessionKeeps,
  RestartKeeps

LEMMA ServersChange ==
  ASSUME [Next]_vars
  PROVE  \/ UNCHANGED <<reader, toolServers, overlapped, dangled>>
         \/ \E h \in Connections : ReadStatus(h) \/ MarkHandler(h) \/ MarkDangling(h) \/ CopyList(h) \/ QueueFrameToAll(h) \/ ReadRequest(h) \/ Reply(h) \/ EraseWorker(h)
         \/ \E k \in Coordinators : Crash(k)
BY NextIsOneAction, StartWorkerKeeps, PushWorkerKeeps, QuantClearKeeps, QuantSendKeeps,
  QuantRequestKeeps, ConnectKeeps, WriteKeeps, ReadListKeeps, ApplyListKeeps, LoseConnectionKeeps,
  ReadSessionKeeps, BreakKeeps, SetToolServerInfoKeeps, SendSessionKeeps, RestartKeeps

LEMMA ListedChange ==
  ASSUME [Next]_vars
  PROVE  \/ UNCHANGED <<toolServers, overlapped, dangled>>
         \/ \E h \in Connections : ReadStatus(h) \/ MarkHandler(h) \/ MarkDangling(h) \/ EraseWorker(h)
         \/ \E k \in Coordinators : Crash(k)
BY NextIsOneAction, StartWorkerKeeps, PushWorkerKeeps, QuantClearKeeps, QuantSendKeeps,
  QuantRequestKeeps, ConnectKeeps, WriteKeeps, ReadListKeeps, ApplyListKeeps, LoseConnectionKeeps,
  CopyListKeeps, QueueFrameToAllKeeps, ReadRequestKeeps, ReplyKeeps, ReadSessionKeeps, BreakKeeps,
  SetToolServerInfoKeeps, SendSessionKeeps, RestartKeeps

LEMMA SessionsChange ==
  ASSUME [Next]_vars
  PROVE  \/ UNCHANGED <<activeSessions, latestSessions, session>>
         \/ \E h \in Connections : ReadSession(h)
         \/ \E c \in Clients, finished \in BOOLEAN : SendSession(c, finished)
         \/ \E k \in Coordinators : Crash(k)
BY NextIsOneAction, StartWorkerKeeps, PushWorkerKeeps, QuantClearKeeps, QuantSendKeeps,
  QuantRequestKeeps, ConnectKeeps, WriteKeeps, ReadListKeeps, ApplyListKeeps, LoseConnectionKeeps,
  ReadStatusKeeps, MarkHandlerKeeps, MarkDanglingKeeps, CopyListKeeps, QueueFrameToAllKeeps,
  ReadRequestKeeps, ReplyKeeps, EraseWorkerKeeps, BreakKeeps, SetToolServerInfoKeeps, RestartKeeps

LEMMA RestChanges ==
  ASSUME [Next]_vars
  PROVE  \/ UNCHANGED <<losses, up, crashes>>
         \/ \E l \in Links : LoseConnection(l)
         \/ \E h \in Connections : Break(h)
         \/ \E k \in Coordinators : Crash(k)
         \/ \E k \in Coordinators : Restart(k)
BY NextIsOneAction, StartWorkerKeeps, PushWorkerKeeps, QuantClearKeeps, QuantSendKeeps,
  QuantRequestKeeps, ConnectKeeps, WriteKeeps, ReadListKeeps, ApplyListKeeps, ReadStatusKeeps,
  MarkHandlerKeeps, MarkDanglingKeeps, CopyListKeeps, QueueFrameToAllKeeps, ReadRequestKeeps,
  ReplyKeeps, ReadSessionKeeps, EraseWorkerKeeps, SetToolServerInfoKeeps, SendSessionKeeps

LEMMA DoubledChange ==
  ASSUME [Next]_vars
  PROVE  \/ UNCHANGED <<doubled>>
         \/ \E l \in Links : Connect(l)
BY NextIsOneAction, StartWorkerKeeps, PushWorkerKeeps, QuantClearKeeps, QuantSendKeeps,
  QuantRequestKeeps, WriteKeeps, ReadListKeeps, ApplyListKeeps, LoseConnectionKeeps,
  ReadStatusKeeps, MarkHandlerKeeps, MarkDanglingKeeps, CopyListKeeps, QueueFrameToAllKeeps,
  ReadRequestKeeps, ReplyKeeps, ReadSessionKeeps, EraseWorkerKeeps, BreakKeeps,
  SetToolServerInfoKeeps, SendSessionKeeps, CrashKeeps, RestartKeeps

LEMMA MissedChange ==
  ASSUME [Next]_vars
  PROVE  \/ UNCHANGED <<missed>>
         \/ \E t \in ToolServers : SetToolServerInfo(t)
BY NextIsOneAction, StartWorkerKeeps, PushWorkerKeeps, QuantClearKeeps, QuantSendKeeps,
  QuantRequestKeeps, ConnectKeeps, WriteKeeps, ReadListKeeps, ApplyListKeeps, LoseConnectionKeeps,
  ReadStatusKeeps, MarkHandlerKeeps, MarkDanglingKeeps, CopyListKeeps, QueueFrameToAllKeeps,
  ReadRequestKeeps, ReplyKeeps, ReadSessionKeeps, EraseWorkerKeeps, BreakKeeps, SendSessionKeeps,
  CrashKeeps, RestartKeeps

\* A request or a session's frame is a client's.
LEMMA RequestReadFacts ==
  ASSUME IInv, NEW h \in Connections, ReadRequest(h)
  PROVE  /\ h[1] \in Clients /\ handlers[h] = "open" /\ reader[h] = Idle
         /\ sent[h] \in Seq(Frames) /\ sent[h] # << >> /\ sent[h][1].type = "request"
         /\ sent' = [sent EXCEPT ![h] = Tail(@)]
<1>1. /\ handlers[h] = "open" /\ reader[h] = Idle /\ sent[h] # << >>
      /\ Head(sent[h]).type = "request" /\ sent' = [sent EXCEPT ![h] = Tail(@)]
  BY DEF ReadRequest, NextFrame
<1>2. sent[h] \in Seq(Frames) BY DEF IInv, TypeOK, NetTypes
<1>3. Head(sent[h]) = sent[h][1] /\ 1 \in DOMAIN sent[h] BY <1>1, <1>2, TailFacts, LenProperties
<1>4. h[1] \notin ToolServers BY <1>1, <1>3 DEF IInv, FramesFit
<1>5. h[1] \in Clients BY <1>4, ConnectionFacts DEF Processes
<1> QED BY <1>1, <1>2, <1>3, <1>5

LEMMA SessionReadFacts ==
  ASSUME IInv, NEW h \in Connections, ReadSession(h)
  PROVE  /\ h[1] \in Clients /\ h[2] \in Coordinators /\ handlers[h] = "open"
         /\ sent[h] \in Seq(Frames) /\ sent[h] # << >> /\ sent[h][1].type = "session"
         /\ Head(sent[h]) = sent[h][1] /\ sent' = [sent EXCEPT ![h] = Tail(@)]
<1>1. /\ handlers[h] = "open" /\ sent[h] # << >>
      /\ Head(sent[h]).type = "session" /\ sent' = [sent EXCEPT ![h] = Tail(@)]
  BY DEF ReadSession, NextFrame
<1>2. sent[h] \in Seq(Frames) BY DEF IInv, TypeOK, NetTypes
<1>3. Head(sent[h]) = sent[h][1] /\ 1 \in DOMAIN sent[h] BY <1>1, <1>2, TailFacts, LenProperties
<1>4. h[1] \notin ToolServers BY <1>1, <1>3 DEF IInv, FramesFit
<1>5. h[1] \in Clients /\ h[2] \in Coordinators BY <1>4, ConnectionFacts DEF Processes
<1> QED BY <1>1, <1>2, <1>3, <1>5

LEMMA ConnectFacts ==
  ASSUME IInv, NEW l \in Links, Connect(l)
  PROVE  LET n == connects[l] + 1
             h == <<l[1], l[2], n>>
         IN /\ n \in 1 .. MaxConnects /\ h \in Connections /\ LinkOf(h) = l
            /\ conn[l] = 0 /\ IsRunning(l)
            /\ connects' = [connects EXCEPT ![l] = n] /\ conn' = [conn EXCEPT ![l] = n]
            /\ handlers[h] = "none" /\ handlers' = [handlers EXCEPT ![h] = "open"]
            /\ Current(l)' = h
<1> DEFINE n == connects[l] + 1
           h == <<l[1], l[2], n>>
<1>1. /\ IsRunning(l) /\ conn[l] = 0 /\ n <= deployment.connects[l[1]]
      /\ connects' = [connects EXCEPT ![l] = n] /\ conn' = [conn EXCEPT ![l] = n]
      /\ handlers' = [handlers EXCEPT ![h] = "open"]
  BY DEF Connect
<1>2. l[1] \in Processes /\ l[2] \in Coordinators /\ l = <<l[1], l[2]>> BY LinkFacts
<1>3. connects[l] \in Nat /\ conn \in [Links -> Nat] BY DEF IInv, TypeOK, ConnTypes
<1>4. n \in 1 .. MaxConnects
  <2>1. MaxConnects \in Nat BY CoordinatorAssumption
  <2>2. deployment.connects[l[1]] \in 0 .. MaxConnects BY <2>1, <1>2, DeploymentFacts DEF IInv
  <2> QED BY <1>1, <1>3, <2>1, <2>2
<1>5. h \in Connections BY <1>2, <1>4, ConnectionIs
<1>6. LinkOf(h) = l /\ h[3] = n BY <1>2 DEF LinkOf
<1>7. handlers[h] = "none" BY <1>3, <1>5, <1>6 DEF IInv, HandlersFit
<1>8. Current(l)' = h BY <1>1, <1>3 DEF Current
<1> QED BY <1>1, <1>4, <1>5, <1>6, <1>7, <1>8

(***************************************************************************)
(* Types are kept.                                                         *)
(***************************************************************************)
LEMMA WorkerTypesKept ==
  ASSUME IInv, [Next]_vars
  PROVE  WorkerTypes'
<1>0. TypeOK /\ WorkerTypes /\ UNCHANGED deployment BY DeploymentStays DEF IInv, TypeOK
<1>1. \A p \in Processes : Len(deployment.hosts[p]) \in Nat BY <1>0, DeploymentFacts DEF Hosts
<1>2. ASSUME NEW p \in Processes, StartWorker(p) PROVE WorkerTypes'
  BY <1>0, <1>1, <1>2 DEF WorkerTypes, StartWorker, Hosts
<1>3. ASSUME NEW p \in Processes, PushWorker(p) PROVE WorkerTypes'
  BY <1>0, <1>1, <1>3 DEF WorkerTypes, PushWorker
<1>4. ASSUME NEW l \in Links, ApplyList(l) PROVE WorkerTypes'
  <2>1. l[1] \in Clients BY <1>4 DEF IInv, WorkersRun, ApplyList
  <2>2. Extra(l) \subseteq Links BY <2>1 DEF Extra, Links, Processes
  <2> QED BY <1>0, <1>4, <2>1, <2>2 DEF WorkerTypes, ApplyList, StopExtraClients
<1>5. CASE UNCHANGED <<running, pushed, exclusive, stopped, early>>
  BY <1>0, <1>5 DEF WorkerTypes
<1> QED BY <1>2, <1>3, <1>4, <1>5, WorkersChange

LEMMA ConnTypesKept ==
  ASSUME IInv, [Next]_vars
  PROVE  ConnTypes'
<1>0. TypeOK /\ ConnTypes /\ UNCHANGED deployment BY DeploymentStays DEF IInv, TypeOK
<1>1. ASSUME NEW l \in Links, Connect(l) PROVE ConnTypes'
  BY <1>0, <1>1 DEF ConnTypes, Connect
<1>2. ASSUME NEW l \in Links, LoseConnection(l) PROVE ConnTypes'
  BY <1>0, <1>2 DEF ConnTypes, LoseConnection
<1>3. ASSUME NEW l \in Links, ApplyList(l) PROVE ConnTypes'
  <2>1. /\ UNCHANGED connects
        /\ \/ UNCHANGED conn
           \/ conn' = [m \in Links |-> IF m \in Extra(l) THEN 0 ELSE conn[m]]
    BY <1>3 DEF ApplyList, StopExtraClients
  <2>2. conn' \in [Links -> Nat] /\ \A m \in Links : conn'[m] \in {0, conn[m]}
    BY <1>0, <2>1 DEF ConnTypes
  <2> QED BY <1>0, <2>1, <2>2 DEF ConnTypes
<1>4. CASE UNCHANGED <<connects, conn>> BY <1>0, <1>4 DEF ConnTypes
<1> QED BY <1>1, <1>2, <1>3, <1>4, ConnsChange

LEMMA InfoTypesKept ==
  ASSUME IInv, [Next]_vars
  PROVE  InfoTypes'
<1>0. TypeOK /\ InfoTypes BY DEF IInv, TypeOK
<1>1. MaxInfo \in Nat /\ \A t \in ToolServers : deployment.infos[t] \in Infos
  BY <1>0, DeploymentFacts, CoordinatorAssumption
<1>2. ASSUME NEW p \in Processes, StartWorker(p) PROVE InfoTypes'
  BY <1>0, <1>2, ServerLinkFacts DEF InfoTypes, StartWorker, ServerLinks
<1>3. ASSUME NEW t \in ToolServers, SetToolServerInfo(t) PROVE InfoTypes'
  <2>1. info[t] + 1 \in Infos BY <1>0, <1>1, <1>3 DEF SetToolServerInfo, InfoTypes, Infos
  <2>2. needSend' \in SUBSET Links
    BY <1>0, <1>3 DEF SetToolServerInfo, InfoTypes, Links, Processes
  <2>3. linkInfo' \in [ToolServers \X Coordinators -> Infos]
    BY <1>0, <1>3, <2>1 DEF SetToolServerInfo, InfoTypes
  <2> QED BY <1>0, <1>3, <2>1, <2>2, <2>3 DEF SetToolServerInfo, InfoTypes
<1>4. ASSUME NEW l \in Links, QuantClear(l) \/ QuantSend(l) \/ LoseConnection(l)
      PROVE  InfoTypes'
  BY <1>0, <1>4, LinkFacts DEF InfoTypes, QuantClear, QuantSend, LoseConnection
<1>5. CASE UNCHANGED <<info, linkInfo, needSend, sending>> BY <1>0, <1>5 DEF InfoTypes
<1> QED BY <1>2, <1>3, <1>4, <1>5, InfosChange

LEMMA ClientTypesKept ==
  ASSUME IInv, [Next]_vars
  PROVE  ClientTypes'
<1>0. TypeOK /\ ClientTypes /\ NetTypes BY DEF IInv, TypeOK
<1>1. ASSUME NEW l \in Links, QuantRequest(l) \/ LoseConnection(l) PROVE ClientTypes'
  BY <1>0, <1>1 DEF ClientTypes, QuantRequest, LoseConnection
<1>2. ASSUME NEW l \in Links, ReadList(l) PROVE ClientTypes'
  <2>1. Current(l) \in Connections BY <1>0, <1>2, CurrentFacts DEF ReadList, ClientState
  <2>2. Head(lists[Current(l)]) \in Lists BY <1>0, <1>2, <2>1, TailFacts DEF ReadList, NetTypes
  <2> QED BY <1>0, <1>2, <2>2 DEF ClientTypes, ReadList
<1>3. ASSUME NEW l \in Links, ApplyList(l) PROVE ClientTypes'
  <2>1. l[1] \in Clients /\ reading[l] \in Lists
    BY <1>0, <1>3 DEF IInv, WorkersRun, ApplyList, ClientTypes
  <2>2. ASSUME NEW known \in [ToolServers -> {0} \cup Infos], NEW list \in Lists
        PROVE  Updated(known, list) \in [ToolServers -> {0} \cup Infos]
    <3>1. PICK S \in SUBSET ToolServers : list \in [S -> Infos] BY DEF Lists
    <3> QED BY <3>1 DEF Updated
  <2>3. Updated(coord[l[1]], reading[l]) \in [ToolServers -> {0} \cup Infos]
    BY <1>0, <2>1, <2>2 DEF ClientTypes
  <2> QED BY <1>0, <1>3, <2>3 DEF ClientTypes, ApplyList
<1>4. CASE UNCHANGED <<needRequest, reading, coord>> BY <1>0, <1>4 DEF ClientTypes
<1> QED BY <1>1, <1>2, <1>3, <1>4, ClientsChange

\* A list that is copied is as the coordinator's, if that has every tool server once.
LEMMA InfosOfFacts ==
  ASSUME IInv, NEW k \in Coordinators
  PROVE  /\ InfosOf(k) \in Lists
         /\ \A i \in DOMAIN toolServers[k] :
              /\ toolServers[k][i].ts \in DOMAIN InfosOf(k)
              /\ InfosOf(k)[toolServers[k][i].ts] = toolServers[k][i].ver
<1> DEFINE s == toolServers[k]
           S == {e.ts : e \in ToSet(s)}
           Of(t) == CHOOSE e \in ToSet(s) : e.ts = t
<1>1. s \in Seq(Entry) BY DEF IInv, TypeOK, ServerTypes
<1>2. \A i \in DOMAIN s : s[i] \in Entry BY <1>1, LenProperties
<1>3. \A e \in ToSet(s) : e \in Entry BY <1>2 DEF ToSet
<1>4. \A i \in DOMAIN s : s[i] \in ToSet(s) BY DEF ToSet
<1>5. ASSUME NEW t \in S PROVE Of(t) \in ToSet(s) /\ Of(t).ts = t OBVIOUS
<1>6. S \in SUBSET ToolServers BY <1>3 DEF Entry
<1>7. ASSUME NEW t \in S PROVE Of(t).ver \in Infos BY <1>5, <1>3 DEF Entry
<1>8. InfosOf(k) = [t \in S |-> Of(t).ver] BY DEF InfosOf
<1>9. InfosOf(k) \in [S -> Infos] BY <1>7, <1>8
<1>10. ASSUME NEW i \in DOMAIN s PROVE s[i].ts \in S /\ Of(s[i].ts) = s[i]
  <2>1. s[i].ts \in S BY <1>4
  <2>2. PICK j \in DOMAIN s : Of(s[i].ts) = s[j] BY <2>1, <1>5 DEF ToSet
  <2>3. s[j].ts = s[i].ts BY <2>1, <2>2, <1>5
  <2>4. j = i BY <2>3 DEF IInv, ListedOnce
  <2> QED BY <2>1, <2>2, <2>4
<1> HIDE DEF s, S, Of
<1>11. InfosOf(k) \in Lists BY <1>6, <1>9 DEF Lists
<1>12. DOMAIN InfosOf(k) = S BY <1>8
<1>13. \A i \in DOMAIN s : s[i].ts \in DOMAIN InfosOf(k) /\ InfosOf(k)[s[i].ts] = s[i].ver
  BY <1>8, <1>10, <1>12
<1> QED BY <1>11, <1>13 DEF s

LEMMA NetTypesKept ==
  ASSUME IInv, [Next]_vars
  PROVE  NetTypes'
<1>0. TypeOK /\ NetTypes /\ InfoTypes /\ ServerTypes BY DEF IInv, TypeOK
<1>1. framesQueue' \in [Links -> Seq(Frames)]
  <2>1. ASSUME NEW l \in Links, QuantSend(l) PROVE framesQueue' \in [Links -> Seq(Frames)]
    <3>1. linkInfo[l] \in Infos BY <1>0, <2>1 DEF QuantSend, InfoTypes
    <3>2. [type |-> "status", ver |-> linkInfo[l]] \in Frames BY <3>1 DEF Frames
    <3> QED BY <1>0, <2>1, <3>2, AppendFacts DEF QuantSend, NetTypes
  <2>2. ASSUME NEW l \in Links, QuantRequest(l) PROVE framesQueue' \in [Links -> Seq(Frames)]
    <3>1. [type |-> "request"] \in Frames BY DEF Frames
    <3> QED BY <1>0, <2>2, <3>1, AppendFacts DEF QuantRequest, NetTypes
  <2>3. ASSUME NEW l \in Links, Write(l) PROVE framesQueue' \in [Links -> Seq(Frames)]
    BY <1>0, <2>3, EmptySeq DEF Write, NetTypes
  <2>4. ASSUME NEW c \in Clients, NEW finished \in BOOLEAN, SendSession(c, finished)
        PROVE  framesQueue' \in [Links -> Seq(Frames)]
    <3>1. [type |-> "session", finished |-> finished] \in Frames BY DEF Frames
    <3>2. \A l \in Links :
            Append(framesQueue[l], [type |-> "session", finished |-> finished]) \in Seq(Frames)
      BY <1>0, <3>1, AppendFacts DEF NetTypes
    <3> QED BY <1>0, <2>4, <3>2 DEF SendSession, NetTypes
  <2> QED BY <1>0, <2>1, <2>2, <2>3, <2>4, QueuesChange DEF NetTypes
<1>2. sent' \in [Connections -> Seq(Frames)]
  <2>1. ASSUME NEW l \in Links, Write(l) PROVE sent' \in [Connections -> Seq(Frames)]
    <3>1. Current(l) \in Connections BY <1>0, <2>1, CurrentFacts DEF Write, ClientState
    <3>2. sent[Current(l)] \o framesQueue[l] \in Seq(Frames)
      BY <1>0, <3>1, ConcatProperties DEF NetTypes
    <3> QED BY <1>0, <2>1, <3>2 DEF Write, NetTypes
  <2>2. ASSUME NEW h \in Connections, ReadStatus(h) \/ ReadRequest(h) \/ ReadSession(h)
        PROVE  sent' \in [Connections -> Seq(Frames)]
    <3>1. sent[h] # << >> /\ sent' = [sent EXCEPT ![h] = Tail(@)]
      BY <2>2 DEF ReadStatus, ReadRequest, ReadSession, NextFrame
    <3> QED BY <1>0, <3>1, TailFacts DEF NetTypes
  <2>3. ASSUME NEW h \in Connections, Break(h) PROVE sent' \in [Connections -> Seq(Frames)]
    BY <1>0, <2>3, EmptySeq DEF Break, NetTypes
  <2>4. ASSUME NEW k \in Coordinators, Crash(k) PROVE sent' \in [Connections -> Seq(Frames)]
    BY <1>0, <2>4, EmptySeq DEF Crash, NetTypes
  <2> QED BY <1>0, <2>1, <2>2, <2>3, <2>4, SentChange DEF NetTypes
<1>3. lists' \in [Connections -> Seq(Lists)]
  <2>1. ASSUME NEW l \in Links, Connect(l) PROVE lists' \in [Connections -> Seq(Lists)]
    <3>1. <<InfosOf(l[2])>> \in Seq(Lists) BY LinkFacts, InfosOfFacts
    <3> QED BY <1>0, <2>1, <3>1 DEF Connect, NetTypes
  <2>2. ASSUME NEW l \in Links, LoseConnection(l) PROVE lists' \in [Connections -> Seq(Lists)]
    BY <1>0, <2>2, EmptySeq DEF LoseConnection, NetTypes
  <2>3. ASSUME NEW l \in Links, ReadList(l) PROVE lists' \in [Connections -> Seq(Lists)]
    <3>1. Current(l) \in Connections BY <1>0, <2>3, CurrentFacts DEF ReadList, ClientState
    <3> QED BY <1>0, <2>3, <3>1, TailFacts DEF ReadList, NetTypes
  <2>4. ASSUME NEW h \in Connections, QueueFrameToAll(h) \/ Reply(h)
        PROVE  lists' \in [Connections -> Seq(Lists)]
    <3>1. reader[h].list \in Lists
      BY <1>0, <2>4 DEF QueueFrameToAll, Reply, ServerTypes, ReaderStates, Idle
    <3>2. \A g \in Connections : Append(lists[g], reader[h].list) \in Seq(Lists)
      BY <1>0, <3>1, AppendFacts DEF NetTypes
    <3> QED BY <1>0, <2>4, <3>2 DEF QueueFrameToAll, Reply, NetTypes
  <2> QED BY <1>0, <2>1, <2>2, <2>3, <2>4, ListsChange DEF NetTypes
<1>4. handlers' \in [Connections -> {"none", "open", "broken", "erased"}]
  <2>1. ASSUME NEW l \in Links, Connect(l)
        PROVE  handlers' \in [Connections -> {"none", "open", "broken", "erased"}]
    BY <1>0, <2>1 DEF Connect, NetTypes
  <2>2. ASSUME NEW h \in Connections, Break(h) \/ EraseWorker(h)
        PROVE  handlers' \in [Connections -> {"none", "open", "broken", "erased"}]
    BY <1>0, <2>2 DEF Break, EraseWorker, NetTypes
  <2>3. ASSUME NEW k \in Coordinators, Crash(k)
        PROVE  handlers' \in [Connections -> {"none", "open", "broken", "erased"}]
    BY <1>0, <2>3 DEF Crash, NetTypes
  <2> QED BY <1>0, <2>1, <2>2, <2>3, HandlersChange DEF NetTypes
<1> QED BY <1>1, <1>2, <1>3, <1>4 DEF NetTypes

\* What the thread of a handler holds.
LEMMA ReaderFacts ==
  ASSUME IInv, NEW h \in Connections
  PROVE  /\ reader[h].at \in {"idle", "updated", "dangling", "marked", "copied", "replying"}
         /\ reader[h] = Idle <=> reader[h].at = "idle"
         /\ reader[h].at = "updated" =>
              /\ reader[h].slot \in Nat \ {0}
              /\ reader[h] = [at |-> "updated", slot |-> reader[h].slot]
         /\ reader[h].at \in {"copied", "replying"} => reader[h].list \in Lists
         /\ reader[h].at # "idle" => handlers[h] = "open"
         /\ reader[h].at = "replying" => h[1] \in Clients
         /\ reader[h].at \in {"updated", "dangling", "marked", "copied"} => h[1] \in ToolServers
<1>1. reader[h] \in ReaderStates BY DEF IInv, TypeOK, ServerTypes
<1>2. /\ reader[h].at \in {"idle", "updated", "dangling", "marked", "copied", "replying"}
      /\ reader[h] = Idle <=> reader[h].at = "idle"
  BY <1>1 DEF ReaderStates, Idle
<1>3. reader[h].at = "updated" =>
        /\ reader[h].slot \in Nat \ {0}
        /\ reader[h] = [at |-> "updated", slot |-> reader[h].slot]
  BY <1>1 DEF ReaderStates, Idle
<1>4. ASSUME reader[h].at \in {"copied", "replying"} PROVE reader[h].list \in Lists
  <2>1. reader[h] \in [at : {"copied", "replying"}, list : Lists] BY <1>1, <1>4 DEF ReaderStates, Idle
  <2> QED BY <2>1
<1> QED BY <1>2, <1>3, <1>4 DEF IInv, ReadersFit

\* The status reader, when it changes the list: an entry of its tool server is assigned, or
\* is added where there was none.
LEMMA ReadStatusFacts ==
  ASSUME IInv, NEW h \in Connections, ReadStatus(h)
  PROVE  LET ver == sent[h][1].ver
             entry == [ts |-> h[1], ver |-> ver, handler |-> None]
             s == toolServers[h[2]]
         IN /\ h[1] \in ToolServers /\ h[2] \in Coordinators /\ ver \in Infos
            /\ s \in Seq(Entry) /\ entry \in Entry
            /\ handlers[h] = "open" /\ reader[h] = Idle
            /\ sent[h] # << >> /\ sent[h][1].type = "status"
            /\ sent' = [sent EXCEPT ![h] = Tail(@)]
            /\ \/ /\ UNCHANGED <<toolServers, reader, overlapped>>
                  /\ \E i \in DOMAIN s : s[i].ts = h[1] /\ s[i].ver = ver
               \/ /\ overlapped' = IF Crossing(h[2], h) THEN overlapped \cup {h[2]} ELSE overlapped
                  /\ \E i \in Nat \ {0} :
                       /\ reader' = [reader EXCEPT ![h] = [at |-> "updated", slot |-> i]]
                       /\ \/ /\ i \in DOMAIN s /\ s[i].ts = h[1]
                             /\ toolServers' = [toolServers EXCEPT ![h[2]] = [s EXCEPT ![i] = entry]]
                          \/ /\ i = Len(s) + 1 /\ \A j \in DOMAIN s : s[j].ts # h[1]
                             /\ toolServers' = [toolServers EXCEPT ![h[2]] = Append(s, entry)]
<1> DEFINE ver == sent[h][1].ver
           entry == [ts |-> h[1], ver |-> ver, handler |-> None]
           s == toolServers[h[2]]
<1>1. h[2] \in Coordinators /\ h[1] \in Processes BY ConnectionFacts
<1>2. s \in Seq(Entry) BY <1>1 DEF IInv, TypeOK, ServerTypes
<1>3. DOMAIN s = 1 .. Len(s) /\ Len(s) \in Nat BY <1>2, LenProperties
<1>4. /\ handlers[h] = "open" /\ reader[h] = Idle /\ sent[h] # << >>
      /\ Head(sent[h]).type = "status" /\ sent' = [sent EXCEPT ![h] = Tail(@)]
  BY DEF ReadStatus, NextFrame
<1>5. sent[h] \in Seq(Frames) BY DEF IInv, TypeOK, NetTypes
<1>6. Head(sent[h]) = sent[h][1] /\ sent[h][1] \in Frames /\ 1 \in DOMAIN sent[h]
  BY <1>4, <1>5, TailFacts, LenProperties
<1>7. ver \in Infos BY <1>4, <1>6 DEF Frames
<1>8. h[1] \in ToolServers BY <1>4, <1>6 DEF IInv, FramesFit
<1>9. entry \in Entry BY <1>7, <1>8 DEF Entry
<1>10. entry = [ts |-> h[1], ver |-> Head(sent[h]).ver, handler |-> None] BY <1>6
<1>11. CASE \E i \in Slots(h[2], h[1]) :
              toolServers[h[2]][i].ver = Head(sent[h]).ver /\ UNCHANGED <<serverVars, overlapped>>
  BY <1>11, <1>1, <1>2, <1>4, <1>6, <1>7, <1>8, <1>9 DEF Slots
<1>12. CASE \E i \in Slots(h[2], h[1]) :
              /\ toolServers[h[2]][i].ver # Head(sent[h]).ver
              /\ toolServers' = [toolServers EXCEPT ![h[2]][i] = entry]
              /\ At(h, [at |-> "updated", slot |-> i])
              /\ overlapped' = IF Crossing(h[2], h) THEN overlapped \cup {h[2]} ELSE overlapped
  <2>1. PICK i \in Slots(h[2], h[1]) :
              /\ toolServers[h[2]][i].ver # Head(sent[h]).ver
              /\ toolServers' = [toolServers EXCEPT ![h[2]][i] = entry]
              /\ At(h, [at |-> "updated", slot |-> i])
              /\ overlapped' = IF Crossing(h[2], h) THEN overlapped \cup {h[2]} ELSE overlapped
    BY <1>12
  <2>2. i \in DOMAIN s /\ s[i].ts = h[1] /\ i \in Nat \ {0} BY <1>3 DEF Slots
  <2>3. toolServers' = [toolServers EXCEPT ![h[2]] = [s EXCEPT ![i] = entry]] BY <2>1
  <2>4. reader' = [reader EXCEPT ![h] = [at |-> "updated", slot |-> i]] BY <2>1 DEF At
  <2> HIDE DEF s, entry
  <2>5. overlapped' = IF Crossing(h[2], h) THEN overlapped \cup {h[2]} ELSE overlapped BY <2>1
  <2> USE DEF s, entry
  <2> QED BY <2>2, <2>3, <2>4, <2>5, <1>1, <1>2, <1>4, <1>6, <1>7, <1>8, <1>9
<1>13. CASE /\ Slots(h[2], h[1]) = {}
            /\ toolServers' = [toolServers EXCEPT ![h[2]] = Append(@, entry)]
            /\ At(h, [at |-> "updated", slot |-> Len(toolServers[h[2]]) + 1])
            /\ overlapped' = IF Crossing(h[2], h) THEN overlapped \cup {h[2]} ELSE overlapped
  <2>1. \A j \in DOMAIN s : s[j].ts # h[1] BY <1>13 DEF Slots
  <2>2. toolServers' = [toolServers EXCEPT ![h[2]] = Append(s, entry)] BY <1>13
  <2>3. reader' = [reader EXCEPT ![h] = [at |-> "updated", slot |-> Len(s) + 1]]
    BY <1>13 DEF At
  <2>4. Len(s) + 1 \in Nat \ {0} BY <1>3
  <2> QED BY <1>13, <2>1, <2>2, <2>3, <2>4, <1>1, <1>2, <1>4, <1>6, <1>7, <1>8, <1>9
<1> QED BY <1>10, <1>11, <1>12, <1>13 DEF ReadStatus

\* An erasure takes out the first entry that is marked with the handler.
LEMMA EraseFacts ==
  ASSUME IInv, NEW h \in Connections, EraseWorker(h)
  PROVE  LET s == toolServers[h[2]] IN
         /\ s \in Seq(Entry) /\ h[2] \in Coordinators
         /\ handlers[h] = "broken" /\ handlers' = [handlers EXCEPT ![h] = "erased"]
         /\ \/ /\ UNCHANGED <<toolServers, reader>>
               /\ \A i \in DOMAIN s : s[i].handler # h
            \/ \E first \in DOMAIN s :
                 /\ s[first].handler = h
                 /\ toolServers' = [toolServers EXCEPT ![h[2]] = RemoveAt(s, first)]
                 /\ reader' = [g \in Connections |->
                      IF g[2] = h[2] THEN SlotAfterErase(h[2], first, reader[g]) ELSE reader[g]]
<1> DEFINE s == toolServers[h[2]]
           marked == {i \in DOMAIN s : s[i].handler = h}
           first == CHOOSE i \in marked : \A j \in marked : i <= j
<1>1. h[2] \in Coordinators BY ConnectionFacts
<1>2. s \in Seq(Entry) BY <1>1 DEF IInv, TypeOK, ServerTypes
<1>3. handlers[h] = "broken" /\ handlers' = [handlers EXCEPT ![h] = "erased"]
  BY DEF EraseWorker
<1>4. CASE marked = {}
  <2>1. UNCHANGED <<toolServers, reader>> BY <1>4 DEF EraseWorker
  <2> QED BY <1>1, <1>2, <1>3, <1>4, <2>1
<1>5. CASE marked # {}
  <2>1. marked \in SUBSET Nat BY <1>2, LenProperties
  <2>2. first \in marked BY <1>5, <2>1, LeastMember
  <2>3. /\ toolServers' = [toolServers EXCEPT ![h[2]] = RemoveAt(s, first)]
        /\ reader' = [g \in Connections |->
             IF g[2] = h[2] THEN SlotAfterErase(h[2], first, reader[g]) ELSE reader[g]]
    BY <1>5 DEF EraseWorker
  <2>4. first \in DOMAIN s /\ s[first].handler = h BY <2>2
  <2> HIDE DEF first, s
  <2>5. \/ UNCHANGED <<toolServers, reader>> /\ \A i \in DOMAIN s : s[i].handler # h
        \/ \E n \in DOMAIN s :
             /\ s[n].handler = h
             /\ toolServers' = [toolServers EXCEPT ![h[2]] = RemoveAt(s, n)]
             /\ reader' = [g \in Connections |->
                  IF g[2] = h[2] THEN SlotAfterErase(h[2], n, reader[g]) ELSE reader[g]]
    BY <2>3, <2>4
  <2> QED BY <1>1, <1>2, <1>3, <2>5 DEF s
<1> QED BY <1>4, <1>5

\* An erasure moves a position with its entry, or leaves it dangling.
LEMMA SlotAfterEraseFacts ==
  ASSUME IInv, NEW h \in Connections, NEW first \in DOMAIN toolServers[h[2]]
  PROVE  LET state == SlotAfterErase(h[2], first, reader[h]) IN
         /\ state \in ReaderStates
         /\ state = reader[h] \/ reader[h].at = "updated"
         /\ reader[h].at = "updated" =>
              \/ state = [at |-> "dangling"]
              \/ /\ state = [at |-> "updated", slot |-> reader[h].slot - 1]
                 /\ first = 1 /\ reader[h].slot # 1
              \/ /\ state = reader[h]
                 /\ first = Len(toolServers[h[2]]) /\ reader[h].slot # first
<1>1. reader[h] \in ReaderStates BY DEF IInv, TypeOK, ServerTypes
<1>2. CASE reader[h].at # "updated" BY <1>1, <1>2 DEF SlotAfterErase
<1>3. CASE reader[h].at = "updated"
  <2> DEFINE i == reader[h].slot
  <2>1. i \in Nat \ {0} /\ reader[h] = [at |-> "updated", slot |-> i] BY <1>3, ReaderFacts
  <2>2. [at |-> "dangling"] \in ReaderStates BY DEF ReaderStates
  <2>3. CASE first = i \/ first \notin {1, Len(toolServers[h[2]])}
    BY <2>1, <2>2, <2>3, <1>3 DEF SlotAfterErase
  <2>4. CASE first # i /\ first \in {1, Len(toolServers[h[2]])} /\ first = 1
    <3>1. SlotAfterErase(h[2], first, reader[h]) = [at |-> "updated", slot |-> i - 1]
      BY <2>1, <2>4, <1>3 DEF SlotAfterErase
    <3>2. i - 1 \in Nat \ {0} BY <2>1, <2>4
    <3> QED BY <3>1, <3>2, <1>3, <2>4 DEF ReaderStates
  <2>5. CASE first # i /\ first \in {1, Len(toolServers[h[2]])} /\ first # 1
    BY <1>1, <2>1, <2>5, <1>3 DEF SlotAfterErase
  <2> QED BY <2>3, <2>4, <2>5
<1> QED BY <1>2, <1>3

\* Where a thread marks an entry, through a pointer that may be stale.
LEMMA MarkFacts ==
  ASSUME IInv, NEW h \in Connections, MarkHandler(h) \/ MarkDangling(h)
  PROVE  /\ reader' = [reader EXCEPT ![h] = [at |-> "marked"]]
         /\ h[2] \in Coordinators /\ toolServers[h[2]] \in Seq(Entry)
         /\ \/ UNCHANGED toolServers /\ h[2] \in dangled'
            \/ \E i \in DOMAIN toolServers[h[2]] :
                 LET e == toolServers[h[2]][i] IN
                 /\ [e EXCEPT !.handler = h] \in Entry
                 /\ toolServers' = [toolServers EXCEPT ![h[2]] =
                                      [toolServers[h[2]] EXCEPT ![i] = [e EXCEPT !.handler = h]]]
                 /\ \/ h[2] \in dangled'
                    \/ /\ MarkHandler(h) /\ e.ts = h[1]
                       /\ reader[h] = [at |-> "updated", slot |-> i]
<1> DEFINE s == toolServers[h[2]]
<1>1. h[2] \in Coordinators BY ConnectionFacts
<1>2. s \in Seq(Entry) BY <1>1 DEF IInv, TypeOK, ServerTypes
<1>3. reader' = [reader EXCEPT ![h] = [at |-> "marked"]] BY DEF MarkHandler, MarkDangling, At
<1>4. ASSUME NEW i \in DOMAIN s PROVE [s[i] EXCEPT !.handler = h] \in Entry
  <2>1. s[i] \in Entry BY <1>2, <1>4, LenProperties
  <2> QED BY <2>1 DEF Entry
<1>5. CASE MarkHandler(h)
  <2> DEFINE i == reader[h].slot
  <2>1. i \in DOMAIN s /\ s[i].ts = h[1] /\ reader[h] = [at |-> "updated", slot |-> i]
    BY <1>5, ReaderFacts DEF MarkHandler, IInv, SlotsFit
  <2>2. toolServers' = [toolServers EXCEPT ![h[2]] = [s EXCEPT ![i] = [s[i] EXCEPT !.handler = h]]]
    BY <1>5 DEF MarkHandler
  <2> HIDE DEF i
  <2> QED BY <1>1, <1>2, <1>3, <1>4, <1>5, <2>1, <2>2
<1>6. CASE MarkDangling(h)
  <2>1. h[2] \in dangled' BY <1>6 DEF MarkDangling
  <2>2. CASE UNCHANGED toolServers BY <1>1, <1>2, <1>3, <2>1, <2>2
  <2>3. CASE ~ UNCHANGED toolServers
    <3>1. PICK i \in DOMAIN s : toolServers' = [toolServers EXCEPT ![h[2]][i].handler = h]
      BY <1>6, <2>3 DEF MarkDangling
    <3>2. toolServers' = [toolServers EXCEPT ![h[2]] = [s EXCEPT ![i] = [s[i] EXCEPT !.handler = h]]]
      BY <3>1
    <3> QED BY <1>1, <1>2, <1>3, <1>4, <2>1, <3>2
  <2> QED BY <2>2, <2>3
<1> QED BY <1>5, <1>6

LEMMA ServerTypesKept ==
  ASSUME IInv, [Next]_vars
  PROVE  ServerTypes'
<1>0. TypeOK /\ ServerTypes BY DEF IInv, TypeOK
<1>1. ASSUME NEW h \in Connections, ReadStatus(h) PROVE ServerTypes'
  <2> DEFINE ver == sent[h][1].ver
             entry == [ts |-> h[1], ver |-> ver, handler |-> None]
             s == toolServers[h[2]]
  <2>1. h[2] \in Coordinators /\ s \in Seq(Entry) /\ entry \in Entry BY <1>1, ReadStatusFacts
  <2>2. CASE UNCHANGED <<toolServers, reader, overlapped>> BY <1>0, <2>2 DEF ServerTypes
  <2>3. CASE ~ UNCHANGED <<toolServers, reader, overlapped>>
    <3>1. PICK i \in Nat \ {0} :
            /\ reader' = [reader EXCEPT ![h] = [at |-> "updated", slot |-> i]]
            /\ \/ /\ i \in DOMAIN s
                  /\ toolServers' = [toolServers EXCEPT ![h[2]] = [s EXCEPT ![i] = entry]]
               \/ toolServers' = [toolServers EXCEPT ![h[2]] = Append(s, entry)]
      BY <1>1, <2>3, ReadStatusFacts
    <3>2. [at |-> "updated", slot |-> i] \in ReaderStates BY DEF ReaderStates
    <3>3. Append(s, entry) \in Seq(Entry) BY <2>1, AppendFacts
    <3>4. i \in DOMAIN s => [s EXCEPT ![i] = entry] \in Seq(Entry) BY <2>1, ExceptFacts
    <3> QED BY <1>0, <2>1, <3>1, <3>2, <3>3, <3>4 DEF ServerTypes
  <2> QED BY <2>2, <2>3
<1>2. ASSUME NEW h \in Connections, MarkHandler(h) \/ MarkDangling(h) PROVE ServerTypes'
  <2> DEFINE s == toolServers[h[2]]
  <2>1. [at |-> "marked"] \in ReaderStates BY DEF ReaderStates
  <2>2. \A i \in DOMAIN s, e \in Entry : [s EXCEPT ![i] = e] \in Seq(Entry)
    BY <1>2, MarkFacts, ExceptFacts
  <2>3. reader' = [reader EXCEPT ![h] = [at |-> "marked"]] BY <1>2, MarkFacts
  <2>4. CASE UNCHANGED toolServers BY <1>0, <2>1, <2>3, <2>4 DEF ServerTypes
  <2>5. CASE ~ UNCHANGED toolServers
    <3>1. PICK i \in DOMAIN s :
            /\ [s[i] EXCEPT !.handler = h] \in Entry
            /\ toolServers' = [toolServers EXCEPT ![h[2]] = [s EXCEPT ![i] = [s[i] EXCEPT !.handler = h]]]
      BY <1>2, <2>5, MarkFacts
    <3>2. [s EXCEPT ![i] = [s[i] EXCEPT !.handler = h]] \in Seq(Entry) BY <2>2, <3>1
    <3> QED BY <1>0, <2>1, <2>3, <3>1, <3>2 DEF ServerTypes
  <2> QED BY <2>4, <2>5
<1>3. ASSUME NEW h \in Connections, CopyList(h) \/ ReadRequest(h) PROVE ServerTypes'
  <2>1. InfosOf(h[2]) \in Lists BY ConnectionFacts, InfosOfFacts
  <2>2. \A at \in {"copied", "replying"} : [at |-> at, list |-> InfosOf(h[2])] \in ReaderStates
    BY <2>1 DEF ReaderStates
  <2> QED BY <1>0, <1>3, <2>2 DEF ServerTypes, CopyList, ReadRequest, At
<1>4. ASSUME NEW h \in Connections, QueueFrameToAll(h) \/ Reply(h) PROVE ServerTypes'
  BY <1>0, <1>4 DEF ServerTypes, QueueFrameToAll, Reply, At, ReaderStates
<1>5. ASSUME NEW h \in Connections, EraseWorker(h) PROVE ServerTypes'
  <2> DEFINE s == toolServers[h[2]]
  <2>1. CASE UNCHANGED <<toolServers, reader>> BY <1>0, <2>1 DEF ServerTypes
  <2>2. CASE ~ UNCHANGED <<toolServers, reader>>
    <3>1. PICK first \in DOMAIN s :
            /\ toolServers' = [toolServers EXCEPT ![h[2]] = RemoveAt(s, first)]
            /\ reader' = [g \in Connections |->
                 IF g[2] = h[2] THEN SlotAfterErase(h[2], first, reader[g]) ELSE reader[g]]
      BY <1>5, <2>2, EraseFacts
    <3>2. RemoveAt(s, first) \in Seq(Entry) BY <1>5, EraseFacts, RemoveAtFacts
    <3>3. ASSUME NEW g \in Connections, g[2] = h[2]
          PROVE  SlotAfterErase(h[2], first, reader[g]) \in ReaderStates
      BY <3>3, SlotAfterEraseFacts
    <3> QED BY <1>0, <3>1, <3>2, <3>3 DEF ServerTypes
  <2> QED BY <2>1, <2>2
<1>6. ASSUME NEW k \in Coordinators, Crash(k) PROVE ServerTypes'
  BY <1>0, <1>6, EmptySeq DEF ServerTypes, Crash, ReaderStates
<1>7. CASE UNCHANGED <<reader, toolServers, overlapped, dangled>> BY <1>0, <1>7 DEF ServerTypes
<1> QED BY <1>1, <1>2, <1>3, <1>4, <1>5, <1>6, <1>7, ServersChange

LEMMA SessionTypesKept ==
  ASSUME IInv, [Next]_vars
  PROVE  SessionTypes'
<1>0. TypeOK /\ SessionTypes /\ NetTypes BY DEF IInv, TypeOK
<1>1. ASSUME NEW c \in Clients, NEW finished \in BOOLEAN, SendSession(c, finished)
      PROVE  SessionTypes'
  BY <1>0, <1>1 DEF SessionTypes, SendSession, NextSession
<1>2. ASSUME NEW h \in Connections, ReadSession(h) PROVE SessionTypes'
  <2>1. h[1] \in Clients /\ h[2] \in Coordinators BY <1>2, SessionReadFacts
  <2>2. Append(latestSessions[h[2]], h[1]) \in Seq(Clients) BY <1>0, <2>1, AppendFacts DEF SessionTypes
  <2>3. Latest(h[2], h[1]) \in Seq(Clients)
    <3> DEFINE s == Append(latestSessions[h[2]], h[1])
    <3>1. Len(s) = Len(latestSessions[h[2]]) + 1 /\ Len(latestSessions[h[2]]) \in Nat
      BY <1>0, <2>1, AppendFacts, LenProperties DEF SessionTypes
    <3>2. s \in Seq(Clients) BY <2>2
    <3>3. Latest(h[2], h[1]) = s \/ Latest(h[2], h[1]) = Tail(s) BY DEF Latest
    <3> HIDE DEF s
    <3>4. s # << >> BY <3>1, EmptySeq
    <3>5. Tail(s) \in Seq(Clients) BY <3>2, <3>4, TailFacts
    <3> QED BY <3>2, <3>3, <3>5
  <2>4. latestSessions' \in [Coordinators -> Seq(Clients)]
    BY <1>0, <1>2, <2>1, <2>3 DEF SessionTypes, ReadSession
  <2>5. activeSessions' \in [Coordinators -> SUBSET Clients]
    <3> DEFINE S == SUBSET Clients
    <3>1. activeSessions \in [Coordinators -> S] BY <1>0 DEF SessionTypes
    <3>2. PICK x : activeSessions' = [activeSessions EXCEPT ![h[2]] = x] /\ x \in S
      <4>1. activeSessions[h[2]] \in S BY <2>1, <3>1
      <4>2. activeSessions[h[2]] \ {h[1]} \in S /\ activeSessions[h[2]] \cup {h[1]} \in S
        BY <2>1, <4>1
      <4> QED BY <1>2, <4>2 DEF ReadSession
    <3> HIDE DEF S
    <3>3. activeSessions' \in [Coordinators -> S] BY <2>1, <3>1, <3>2
    <3> QED BY <3>3 DEF S
  <2> QED BY <1>0, <1>2, <2>4, <2>5 DEF SessionTypes, ReadSession
<1>3. ASSUME NEW k \in Coordinators, Crash(k) PROVE SessionTypes'
  BY <1>0, <1>3, EmptySeq DEF SessionTypes, Crash
<1>4. CASE UNCHANGED <<activeSessions, latestSessions, session>> BY <1>0, <1>4 DEF SessionTypes
<1> QED BY <1>1, <1>2, <1>3, <1>4, SessionsChange

LEMMA HistoryTypesKept ==
  ASSUME IInv, [Next]_vars
  PROVE  HistoryTypes'
<1>0. TypeOK /\ HistoryTypes BY DEF IInv, TypeOK
<1>1. losses' \in Nat /\ up' \in SUBSET Coordinators /\ crashes' \in Nat
  <2>1. ASSUME NEW l \in Links, LoseConnection(l)
        PROVE  losses' \in Nat /\ up' \in SUBSET Coordinators /\ crashes' \in Nat
    BY <1>0, <2>1 DEF HistoryTypes, LoseConnection
  <2>2. ASSUME NEW h \in Connections, Break(h)
        PROVE  losses' \in Nat /\ up' \in SUBSET Coordinators /\ crashes' \in Nat
    BY <1>0, <2>2 DEF HistoryTypes, Break
  <2>3. ASSUME NEW k \in Coordinators, Crash(k) \/ Restart(k)
        PROVE  losses' \in Nat /\ up' \in SUBSET Coordinators /\ crashes' \in Nat
    BY <1>0, <2>3 DEF HistoryTypes, Crash, Restart
  <2> QED BY <1>0, <2>1, <2>2, <2>3, RestChanges DEF HistoryTypes
<1>2. overlapped' \in SUBSET Coordinators /\ dangled' \in SUBSET Coordinators
  <2>1. ASSUME NEW h \in Connections, ReadStatus(h) \/ MarkHandler(h) \/ MarkDangling(h) \/ EraseWorker(h)
        PROVE  overlapped' \in SUBSET Coordinators /\ dangled' \in SUBSET Coordinators
    <3>1. h[2] \in Coordinators BY ConnectionFacts
    <3> QED BY <1>0, <2>1, <3>1
        DEF HistoryTypes, ReadStatus, MarkHandler, MarkDangling, EraseWorker
  <2>2. ASSUME NEW k \in Coordinators, Crash(k)
        PROVE  overlapped' \in SUBSET Coordinators /\ dangled' \in SUBSET Coordinators
    BY <1>0, <2>2 DEF HistoryTypes, Crash
  <2>3. overlapped \in SUBSET Coordinators /\ dangled \in SUBSET Coordinators
    BY <1>0 DEF HistoryTypes
  <2> QED BY <2>1, <2>2, <2>3, ListedChange
<1>3. doubled' \in SUBSET Connections
  <2>1. ASSUME NEW l \in Links, Connect(l) PROVE doubled' \in SUBSET Connections
    <3>1. <<l[1], l[2], connects[l] + 1>> \in Connections BY <2>1, ConnectFacts
    <3> QED BY <1>0, <2>1, <3>1 DEF HistoryTypes, Connect
  <2> QED BY <1>0, <2>1, DoubledChange DEF HistoryTypes
<1>4. early' \in SUBSET Clients
  <2>1. ASSUME NEW p \in Processes, StartWorker(p) \/ PushWorker(p) PROVE early' \in SUBSET Clients
    BY <1>0, <2>1 DEF HistoryTypes, StartWorker, PushWorker
  <2>2. ASSUME NEW l \in Links, ApplyList(l) PROVE early' \in SUBSET Clients
    <3>1. l[1] \in Clients BY <2>2 DEF IInv, WorkersRun, ApplyList
    <3> QED BY <1>0, <2>2, <3>1 DEF HistoryTypes, ApplyList, StopExtraClients
  <2> QED BY <1>0, <2>1, <2>2, WorkersChange DEF HistoryTypes
<1>5. missed' \in SUBSET Links
  <2>1. ASSUME NEW t \in ToolServers, SetToolServerInfo(t) PROVE missed' \in SUBSET Links
    <3>1. {t} \X Coordinators \subseteq Links BY DEF Links, Processes
    <3> QED BY <1>0, <2>1, <3>1 DEF HistoryTypes, SetToolServerInfo
  <2> QED BY <1>0, <2>1, MissedChange DEF HistoryTypes
<1> QED BY <1>1, <1>2, <1>3, <1>4, <1>5 DEF HistoryTypes

LEMMA TypesKept ==
  ASSUME IInv, [Next]_vars
  PROVE  TypeOK'
BY WorkerTypesKept, ConnTypesKept, InfoTypesKept, ClientTypesKept, NetTypesKept, ServerTypesKept,
  SessionTypesKept, HistoryTypesKept DEF TypeOK

(***************************************************************************)
(* Frames and threads fit their processes.                                 *)
(***************************************************************************)
LEMMA FramesFitKept ==
  ASSUME IInv, [Next]_vars
  PROVE  FramesFit'
<1>0. TypeOK /\ NetTypes /\ InfoTypes /\ FramesFit BY DEF IInv, TypeOK
<1> DEFINE Q == \A l \in Links : \A i \in DOMAIN framesQueue[l] :
                  framesQueue[l][i].type = "status" <=> l[1] \in ToolServers
           S == \A h \in Connections : \A i \in DOMAIN sent[h] :
                  sent[h][i].type = "status" <=> h[1] \in ToolServers
           L == \A h \in Connections : lists[h] # << >> => h[1] \in Clients
<1>1. Q'
  <2>1. ASSUME NEW l \in Links, NEW f \in Frames,
               f.type = "status" <=> l[1] \in ToolServers,
               framesQueue' = [framesQueue EXCEPT ![l] = Append(@, f)]
        PROVE  Q'
    <3>1. framesQueue[l] \in Seq(Frames) BY <1>0 DEF NetTypes
    <3> QED BY <1>0, <2>1, <3>1, AppendFacts DEF FramesFit, NetTypes
  <2>2. ASSUME NEW l \in Links, QuantSend(l) PROVE Q'
    <3>1. l[1] \in ToolServers /\ linkInfo[l] \in Infos BY <1>0, <2>2 DEF QuantSend, InfoTypes
    <3>2. [type |-> "status", ver |-> linkInfo[l]] \in Frames BY <3>1 DEF Frames
    <3> QED BY <2>1, <2>2, <3>1, <3>2 DEF QuantSend
  <2>3. ASSUME NEW l \in Links, QuantRequest(l) PROVE Q'
    <3>1. l[1] \notin ToolServers BY <2>3, ServerLinkFacts DEF QuantRequest
    <3>2. [type |-> "request"] \in Frames BY DEF Frames
    <3> QED BY <2>1, <2>3, <3>1, <3>2 DEF QuantRequest
  <2>4. ASSUME NEW l \in Links, Write(l) PROVE Q'
    BY <1>0, <2>4 DEF Write, FramesFit, NetTypes
  <2>5. ASSUME NEW c \in Clients, NEW finished \in BOOLEAN, SendSession(c, finished) PROVE Q'
    <3> DEFINE f == [type |-> "session", finished |-> finished]
    <3>1. f \in Frames /\ f.type # "status" BY DEF Frames
    <3>2. c \notin ToolServers BY CoordinatorAssumption
    <3>3. ASSUME NEW l \in Links
          PROVE  \/ framesQueue'[l] = framesQueue[l]
                 \/ l[1] = c /\ framesQueue'[l] = Append(framesQueue[l], f)
      BY <2>5 DEF SendSession
    <3> HIDE DEF f
    <3>4. ASSUME NEW l \in Links, NEW i \in DOMAIN framesQueue'[l]
          PROVE  framesQueue'[l][i].type = "status" <=> l[1] \in ToolServers
      <4>1. framesQueue[l] \in Seq(Frames) BY <1>0 DEF NetTypes
      <4>2. CASE framesQueue'[l] = framesQueue[l] BY <1>0, <3>4, <4>2 DEF FramesFit
      <4>3. CASE l[1] = c /\ framesQueue'[l] = Append(framesQueue[l], f)
        <5>1. i \in 1 .. Len(framesQueue[l]) \/ i = Len(framesQueue[l]) + 1
          BY <3>1, <3>4, <4>1, <4>3, AppendFacts
        <5>2. framesQueue'[l][i] = f \/ (i \in DOMAIN framesQueue[l] /\ framesQueue'[l][i] = framesQueue[l][i])
          BY <5>1, <3>1, <4>1, <4>3, AppendFacts
        <5> QED BY <1>0, <3>1, <3>2, <4>3, <5>2 DEF FramesFit
      <4> QED BY <4>2, <4>3, <3>3
    <3> QED BY <3>4
  <2>6. CASE UNCHANGED framesQueue BY <1>0, <2>6 DEF FramesFit
  <2> QED BY <2>2, <2>3, <2>4, <2>5, <2>6, QueuesChange
<1>2. S'
  <2>1. ASSUME NEW l \in Links, Write(l) PROVE S'
    <3> DEFINE h == Current(l)
    <3>1. h \in Connections /\ h[1] = l[1] BY <1>0, <2>1, CurrentFacts DEF Write, ClientState
    <3>2. CASE UNCHANGED sent BY <1>0, <3>2 DEF FramesFit
    <3>3. CASE sent' = [sent EXCEPT ![h] = @ \o framesQueue[l]]
      <4> HIDE DEF h
      <4>1. sent[h] \in Seq(Frames) /\ framesQueue[l] \in Seq(Frames) BY <1>0, <3>1 DEF NetTypes
      <4>2. /\ \A i \in DOMAIN sent[h] : sent[h][i].type = "status" <=> h[1] \in ToolServers
            /\ \A i \in DOMAIN framesQueue[l] :
                 framesQueue[l][i].type = "status" <=> h[1] \in ToolServers
        BY <1>0, <3>1 DEF FramesFit
      <4>3. \A i \in DOMAIN (sent[h] \o framesQueue[l]) :
              (sent[h] \o framesQueue[l])[i].type = "status" <=> h[1] \in ToolServers
        BY <4>1, <4>2, ConcatFit
      <4> QED BY <1>0, <3>1, <3>3, <4>3 DEF FramesFit, NetTypes
    <3> QED BY <2>1, <3>2, <3>3 DEF Write
  <2>2. ASSUME NEW h \in Connections, ReadStatus(h) \/ ReadRequest(h) \/ ReadSession(h) PROVE S'
    <3>1. sent[h] # << >> /\ sent' = [sent EXCEPT ![h] = Tail(@)]
      BY <2>2 DEF ReadStatus, ReadRequest, ReadSession, NextFrame
    <3>2. sent[h] \in Seq(Frames) BY <1>0 DEF NetTypes
    <3>3. \A i \in DOMAIN Tail(sent[h]) : i + 1 \in DOMAIN sent[h] /\ Tail(sent[h])[i] = sent[h][i + 1]
      BY <3>1, <3>2, TailFacts, LenProperties
    <3> QED BY <1>0, <3>1, <3>3 DEF FramesFit, NetTypes
  <2>3. ASSUME NEW h \in Connections, Break(h) PROVE S'
    BY <1>0, <2>3 DEF Break, FramesFit, NetTypes
  <2>4. ASSUME NEW k \in Coordinators, Crash(k) PROVE S'
    BY <1>0, <2>4 DEF Crash, FramesFit, NetTypes
  <2>5. CASE UNCHANGED sent BY <1>0, <2>5 DEF FramesFit
  <2> QED BY <2>1, <2>2, <2>3, <2>4, <2>5, SentChange
<1>3. L'
  <2>1. ASSUME NEW l \in Links, Connect(l) PROVE L'
    BY <1>0, <2>1 DEF Connect, FramesFit, NetTypes
  <2>2. ASSUME NEW l \in Links, LoseConnection(l) PROVE L'
    BY <1>0, <2>2 DEF LoseConnection, FramesFit, NetTypes
  <2>3. ASSUME NEW l \in Links, ReadList(l) PROVE L'
    BY <1>0, <2>3 DEF ReadList, FramesFit, NetTypes
  <2>4. ASSUME NEW h \in Connections, QueueFrameToAll(h) PROVE L'
    BY <1>0, <2>4 DEF QueueFrameToAll, FramesFit, NetTypes
  <2>5. ASSUME NEW h \in Connections, Reply(h) PROVE L'
    BY <1>0, <2>5, ReaderFacts DEF Reply, FramesFit, NetTypes
  <2>6. CASE UNCHANGED lists BY <1>0, <2>6 DEF FramesFit
  <2> QED BY <2>1, <2>2, <2>3, <2>4, <2>5, <2>6, ListsChange
<1> QED BY <1>1, <1>2, <1>3 DEF FramesFit

LEMMA ReadersFitKept ==
  ASSUME IInv, [Next]_vars
  PROVE  ReadersFit'
<1>0. TypeOK /\ NetTypes /\ ServerTypes /\ ReadersFit BY DEF IInv, TypeOK
<1> DEFINE Fits(h) == reader[h] # Idle =>
             /\ handlers[h] = "open"
             /\ IF reader[h].at = "replying" THEN h[1] \in Clients ELSE h[1] \in ToolServers
<1>1. ASSUME NEW h \in Connections, ReadStatus(h) PROVE ReadersFit'
  <2>1. UNCHANGED handlers BY <1>1 DEF ReadStatus
  <2>2. h[1] \in ToolServers /\ handlers[h] = "open" BY <1>1, ReadStatusFacts
  <2>3. CASE UNCHANGED reader BY <1>0, <2>1, <2>3 DEF ReadersFit
  <2>4. CASE ~ UNCHANGED reader
    <3>1. PICK i \in Nat \ {0} : reader' = [reader EXCEPT ![h] = [at |-> "updated", slot |-> i]]
      BY <1>1, <2>4, ReadStatusFacts
    <3> QED BY <1>0, <2>1, <2>2, <3>1 DEF ReadersFit, ServerTypes
  <2> QED BY <2>3, <2>4
<1>2. ASSUME NEW h \in Connections, MarkHandler(h) \/ MarkDangling(h) PROVE ReadersFit'
  <2>1. UNCHANGED handlers /\ reader' = [reader EXCEPT ![h] = [at |-> "marked"]]
    BY <1>2, MarkFacts DEF MarkHandler, MarkDangling
  <2>2. handlers[h] = "open" /\ h[1] \in ToolServers
    BY <1>2, ReaderFacts DEF MarkHandler, MarkDangling
  <2> QED BY <1>0, <2>1, <2>2 DEF ReadersFit, ServerTypes
<1>3. ASSUME NEW h \in Connections, CopyList(h) PROVE ReadersFit'
  <2>1. handlers[h] = "open" /\ h[1] \in ToolServers BY <1>3, ReaderFacts DEF CopyList
  <2> QED BY <1>0, <1>3, <2>1 DEF CopyList, At, ReadersFit, ServerTypes
<1>4. ASSUME NEW h \in Connections, QueueFrameToAll(h) \/ Reply(h) PROVE ReadersFit'
  BY <1>0, <1>4 DEF QueueFrameToAll, Reply, At, ReadersFit, ServerTypes
<1>5. ASSUME NEW h \in Connections, ReadRequest(h) PROVE ReadersFit'
  <2>1. h[1] \in Clients /\ handlers[h] = "open" BY <1>5, RequestReadFacts
  <2> QED BY <1>0, <1>5, <2>1 DEF ReadRequest, At, ReadersFit, ServerTypes
<1>6. ASSUME NEW h \in Connections, EraseWorker(h) PROVE ReadersFit'
  <2>1. handlers[h] = "broken" /\ handlers' = [handlers EXCEPT ![h] = "erased"] BY <1>6, EraseFacts
  <2>2. ASSUME NEW g \in Connections
        PROVE  reader'[g] = reader[g] \/ (reader[g].at = "updated" /\ reader'[g].at \in {"updated", "dangling"})
    <3>1. CASE UNCHANGED reader BY <3>1
    <3>2. CASE ~ UNCHANGED reader
      <4>1. PICK first \in DOMAIN toolServers[h[2]] :
              reader' = [f \in Connections |->
                 IF f[2] = h[2] THEN SlotAfterErase(h[2], first, reader[f]) ELSE reader[f]]
        BY <1>6, <3>2, EraseFacts
      <4>2. CASE g[2] # h[2] BY <4>1, <4>2
      <4>3. CASE g[2] = h[2]
        <5>1. reader'[g] = SlotAfterErase(g[2], first, reader[g]) BY <4>1, <4>3
        <5>2. first \in DOMAIN toolServers[g[2]] BY <4>1, <4>3
        <5>3. reader'[g] = reader[g] \/ reader[g].at = "updated" BY <5>1, <5>2, SlotAfterEraseFacts
        <5>4. ASSUME reader[g].at = "updated" PROVE reader'[g].at \in {"updated", "dangling"}
          <6>1. \/ reader'[g] = [at |-> "dangling"]
                \/ reader'[g] = [at |-> "updated", slot |-> reader[g].slot - 1]
                \/ reader'[g] = reader[g]
            BY <5>1, <5>2, <5>4, SlotAfterEraseFacts
          <6> QED BY <5>4, <6>1
        <5> QED BY <5>3, <5>4
      <4> QED BY <4>2, <4>3
    <3> QED BY <3>1, <3>2
  <2>3. ASSUME NEW g \in Connections PROVE Fits(g)'
    <3>1. reader[g] # Idle => g # h BY <2>1, <1>0 DEF ReadersFit
    <3>2. reader'[g] # Idle => reader[g] # Idle BY <2>2, ReaderFacts DEF Idle
    <3>3. reader'[g].at = "replying" <=> reader[g].at = "replying" BY <2>2
    <3> QED BY <1>0, <2>1, <3>1, <3>2, <3>3 DEF ReadersFit, NetTypes
  <2> QED BY <2>3 DEF ReadersFit
<1>7. ASSUME NEW k \in Coordinators, Crash(k) PROVE ReadersFit'
  BY <1>0, <1>7 DEF Crash, ReadersFit, ServerTypes
<1>8. CASE UNCHANGED <<reader, toolServers, overlapped, dangled>>
  <2>1. ASSUME NEW l \in Links, Connect(l) PROVE ReadersFit'
    BY <1>0, <1>8, <2>1 DEF Connect, ReadersFit, NetTypes
  <2>2. ASSUME NEW h \in Connections, Break(h) PROVE ReadersFit'
    BY <1>0, <1>8, <2>2 DEF Break, ReadersFit, NetTypes
  <2>3. CASE UNCHANGED handlers BY <1>0, <1>8, <2>3 DEF ReadersFit
  <2> QED BY <1>6, <1>7, <2>1, <2>2, <2>3, HandlersChange
<1> QED BY <1>1, <1>2, <1>3, <1>4, <1>5, <1>6, <1>7, <1>8, ServersChange

(***************************************************************************)
(* What becomes of the entries, one by one.                                *)
(***************************************************************************)
\* A status that changes the list.
LEMMA UpdateEntries ==
  ASSUME IInv, NEW h \in Connections, ReadStatus(h),
         ~ UNCHANGED <<toolServers, reader, overlapped>>
  PROVE  /\ overlapped' = IF Crossing(h[2], h) THEN overlapped \cup {h[2]} ELSE overlapped
         /\ \A k \in Coordinators : k # h[2] => toolServers'[k] = toolServers[k]
         /\ \A g \in Connections : g # h => reader'[g] = reader[g]
         /\ \E i \in DOMAIN toolServers'[h[2]] :
              /\ reader'[h] = [at |-> "updated", slot |-> i]
              /\ toolServers'[h[2]][i] = [ts |-> h[1], ver |-> sent[h][1].ver, handler |-> None]
              /\ \A j \in DOMAIN toolServers[h[2]] : j \in DOMAIN toolServers'[h[2]]
              /\ \A j \in DOMAIN toolServers[h[2]] : j # i <=> toolServers[h[2]][j].ts # h[1]
              /\ \A j \in DOMAIN toolServers'[h[2]] : j # i =>
                   j \in DOMAIN toolServers[h[2]] /\ toolServers'[h[2]][j] = toolServers[h[2]][j]
<1> DEFINE entry == [ts |-> h[1], ver |-> sent[h][1].ver, handler |-> None]
           s == toolServers[h[2]]
<1>1. h[2] \in Coordinators /\ s \in Seq(Entry) /\ entry \in Entry BY ReadStatusFacts
<1>2. overlapped' = IF Crossing(h[2], h) THEN overlapped \cup {h[2]} ELSE overlapped
  BY ReadStatusFacts
<1>3. PICK i \in Nat \ {0} :
        /\ reader' = [reader EXCEPT ![h] = [at |-> "updated", slot |-> i]]
        /\ \/ /\ i \in DOMAIN s /\ s[i].ts = h[1]
              /\ toolServers' = [toolServers EXCEPT ![h[2]] = [s EXCEPT ![i] = entry]]
           \/ /\ i = Len(s) + 1 /\ \A j \in DOMAIN s : s[j].ts # h[1]
              /\ toolServers' = [toolServers EXCEPT ![h[2]] = Append(s, entry)]
  BY ReadStatusFacts
<1>4. DOMAIN toolServers = Coordinators /\ DOMAIN reader = Connections
  BY DEF IInv, TypeOK, ServerTypes
<1>5. \A k \in Coordinators : k # h[2] => toolServers'[k] = toolServers[k] BY <1>3, <1>4
<1>6. reader'[h] = [at |-> "updated", slot |-> i] /\ \A g \in Connections : g # h => reader'[g] = reader[g]
  BY <1>3, <1>4
<1>7. CASE i \in DOMAIN s /\ s[i].ts = h[1] /\ toolServers'[h[2]] = [s EXCEPT ![i] = entry]
  <2>1. \A j \in DOMAIN s : j # i <=> s[j].ts # h[1] BY <1>1, <1>7 DEF IInv, ListedOnce
  <2> HIDE DEF entry, s
  <2>2. /\ DOMAIN toolServers'[h[2]] = DOMAIN s /\ toolServers'[h[2]][i] = entry
        /\ \A j \in DOMAIN s : j # i => toolServers'[h[2]][j] = s[j]
    BY <1>1, <1>7, ExceptFacts
  <2> QED BY <1>2, <1>5, <1>6, <1>7, <2>1, <2>2 DEF s, entry
<1>8. CASE /\ i = Len(s) + 1 /\ \A j \in DOMAIN s : s[j].ts # h[1]
           /\ toolServers'[h[2]] = Append(s, entry)
  <2> HIDE DEF entry, s
  <2>1. /\ DOMAIN toolServers'[h[2]] = 1 .. Len(s) + 1 /\ toolServers'[h[2]][i] = entry
        /\ DOMAIN s = 1 .. Len(s) /\ Len(s) \in Nat
        /\ \A j \in 1 .. Len(s) : toolServers'[h[2]][j] = s[j]
    BY <1>1, <1>8, AppendFacts
  <2>2. /\ i \in DOMAIN toolServers'[h[2]]
        /\ \A j \in DOMAIN s : j \in DOMAIN toolServers'[h[2]]
        /\ \A j \in DOMAIN toolServers'[h[2]] : j # i => j \in DOMAIN s
        /\ i \notin DOMAIN s
    BY <1>8, <2>1
  <2>3. \A j \in DOMAIN s : j # i <=> s[j].ts # h[1] BY <1>8, <2>2
  <2> QED BY <1>2, <1>5, <1>6, <2>1, <2>2, <2>3 DEF s, entry
<1> QED BY <1>1, <1>3, <1>4, <1>7, <1>8

\* A status that changes the list changes one entry of it.
UpdatedAt(h, n) ==
  LET s == toolServers[h[2]]
  IN /\ reader'[h] = [at |-> "updated", slot |-> n]
     /\ toolServers'[h[2]][n] = [ts |-> h[1], ver |-> sent[h][1].ver, handler |-> None]
     /\ \A j \in DOMAIN s : j \in DOMAIN toolServers'[h[2]]
     /\ \A j \in DOMAIN s : j # n <=> s[j].ts # h[1]
     /\ \A j \in DOMAIN toolServers'[h[2]] : j # n =>
          j \in DOMAIN s /\ toolServers'[h[2]][j] = s[j]

LEMMA UpdatedHere ==
  ASSUME IInv, NEW h \in Connections, ReadStatus(h),
         ~ UNCHANGED <<toolServers, reader, overlapped>>
  PROVE  \E n \in DOMAIN toolServers'[h[2]] : UpdatedAt(h, n)
BY UpdateEntries DEF UpdatedAt

LEMMA UpdatedElsewhere ==
  ASSUME IInv, NEW h \in Connections, ReadStatus(h),
         ~ UNCHANGED <<toolServers, reader, overlapped>>,
         NEW k \in Coordinators, k # h[2]
  PROVE  toolServers'[k] = toolServers[k]
BY UpdateEntries

\* A mark changes nothing but the handler of an entry.
LEMMA MarkEntries ==
  ASSUME IInv, NEW h \in Connections, MarkHandler(h) \/ MarkDangling(h)
  PROVE  /\ reader'[h] = [at |-> "marked"]
         /\ \A g \in Connections : g # h => reader'[g] = reader[g]
         /\ \A k \in Coordinators :
              /\ DOMAIN toolServers'[k] = DOMAIN toolServers[k]
              /\ \A i \in DOMAIN toolServers[k] :
                   /\ toolServers'[k][i].ts = toolServers[k][i].ts
                   /\ toolServers'[k][i].ver = toolServers[k][i].ver
                   /\ \/ toolServers'[k][i] = toolServers[k][i]
                      \/ k = h[2] /\ toolServers'[k][i].handler = h
              /\ \/ k # h[2] /\ toolServers'[k] = toolServers[k]
                 \/ k = h[2] /\ k \in dangled'
                 \/ /\ k = h[2] /\ MarkHandler(h)
                    /\ \E i \in DOMAIN toolServers[k] :
                         /\ reader[h] = [at |-> "updated", slot |-> i]
                         /\ toolServers[k][i].ts = h[1] /\ toolServers'[k][i].handler = h
                         /\ \A j \in DOMAIN toolServers[k] :
                              j # i => toolServers'[k][j] = toolServers[k][j]
<1> DEFINE s == toolServers[h[2]]
<1>1. /\ reader' = [reader EXCEPT ![h] = [at |-> "marked"]]
      /\ h[2] \in Coordinators /\ s \in Seq(Entry)
  BY MarkFacts
<1>2. DOMAIN toolServers = Coordinators /\ DOMAIN reader = Connections
  BY DEF IInv, TypeOK, ServerTypes
<1>3. reader'[h] = [at |-> "marked"] /\ \A g \in Connections : g # h => reader'[g] = reader[g]
  BY <1>1, <1>2
<1>4. CASE UNCHANGED toolServers /\ h[2] \in dangled' BY <1>3, <1>4
<1>5. CASE ~(UNCHANGED toolServers /\ h[2] \in dangled')
  <2>1. PICK i \in DOMAIN s :
          /\ [s[i] EXCEPT !.handler = h] \in Entry
          /\ toolServers' = [toolServers EXCEPT ![h[2]] = [s EXCEPT ![i] = [s[i] EXCEPT !.handler = h]]]
          /\ \/ h[2] \in dangled'
             \/ MarkHandler(h) /\ s[i].ts = h[1] /\ reader[h] = [at |-> "updated", slot |-> i]
    BY <1>5, MarkFacts
  <2> DEFINE e == [s[i] EXCEPT !.handler = h]
  <2>2. s[i] \in Entry BY <1>1, <2>1, LenProperties
  <2>3. e.ts = s[i].ts /\ e.ver = s[i].ver /\ e.handler = h BY <2>2 DEF Entry
  <2>4. \A k \in Coordinators : k # h[2] => toolServers'[k] = toolServers[k] BY <1>2, <2>1
  <2>5. toolServers'[h[2]] = [s EXCEPT ![i] = e] /\ e \in Entry BY <1>1, <1>2, <2>1
  <2> HIDE DEF e, s
  <2>6. /\ DOMAIN toolServers'[h[2]] = DOMAIN s /\ toolServers'[h[2]][i] = e
        /\ \A j \in DOMAIN s : j # i => toolServers'[h[2]][j] = s[j]
    BY <1>1, <2>1, <2>5, ExceptFacts
  <2>7. ASSUME NEW k \in Coordinators, k = h[2]
        PROVE  /\ DOMAIN toolServers'[k] = DOMAIN toolServers[k]
               /\ \A j \in DOMAIN toolServers[k] :
                    /\ toolServers'[k][j].ts = toolServers[k][j].ts
                    /\ toolServers'[k][j].ver = toolServers[k][j].ver
                    /\ \/ toolServers'[k][j] = toolServers[k][j]
                       \/ toolServers'[k][j].handler = h
               /\ \/ k \in dangled'
                  \/ /\ MarkHandler(h)
                     /\ reader[h] = [at |-> "updated", slot |-> i]
                     /\ i \in DOMAIN toolServers[k]
                     /\ toolServers[k][i].ts = h[1] /\ toolServers'[k][i].handler = h
                     /\ \A j \in DOMAIN toolServers[k] :
                          j # i => toolServers'[k][j] = toolServers[k][j]
    BY <2>1, <2>3, <2>6, <2>7 DEF s
  <2> QED BY <1>3, <2>4, <2>7
<1> QED BY <1>4, <1>5

\* An erasure takes one entry out.
LEMMA EraseEntries ==
  ASSUME IInv, NEW h \in Connections, EraseWorker(h), ~ UNCHANGED <<toolServers, reader>>
  PROVE  /\ \A k \in Coordinators : k # h[2] => toolServers'[k] = toolServers[k]
         /\ \E first \in DOMAIN toolServers[h[2]] :
              LET s == toolServers[h[2]] IN
              /\ s[first].handler = h
              /\ DOMAIN s = 1 .. Len(s) /\ Len(s) \in Nat \ {0}
              /\ DOMAIN toolServers'[h[2]] = 1 .. Len(s) - 1
              /\ \A j \in 1 .. Len(s) - 1 :
                   toolServers'[h[2]][j] = IF j < first THEN s[j] ELSE s[j + 1]
              /\ \A g \in Connections :
                   \/ reader'[g] = reader[g] /\ (g[2] # h[2] \/ reader[g].at # "updated")
                   \/ /\ g[2] = h[2] /\ reader[g].at = "updated"
                      /\ \/ reader'[g] = [at |-> "dangling"]
                         \/ /\ reader'[g] = [at |-> "updated", slot |-> reader[g].slot - 1]
                            /\ first = 1 /\ reader[g].slot # 1
                         \/ /\ reader'[g] = reader[g]
                            /\ first = Len(s) /\ reader[g].slot # first
<1> DEFINE s == toolServers[h[2]]
<1>1. h[2] \in Coordinators /\ s \in Seq(Entry) BY EraseFacts
<1>2. PICK first \in DOMAIN s :
        /\ s[first].handler = h
        /\ toolServers' = [toolServers EXCEPT ![h[2]] = RemoveAt(s, first)]
        /\ reader' = [g \in Connections |->
             IF g[2] = h[2] THEN SlotAfterErase(h[2], first, reader[g]) ELSE reader[g]]
  BY EraseFacts
<1>3. DOMAIN toolServers = Coordinators BY DEF IInv, TypeOK, ServerTypes
<1>4. \A k \in Coordinators : k # h[2] => toolServers'[k] = toolServers[k] BY <1>2, <1>3
<1>5. toolServers'[h[2]] = RemoveAt(s, first) BY <1>1, <1>2, <1>3
<1>6. /\ DOMAIN s = 1 .. Len(s) /\ Len(s) \in Nat \ {0}
      /\ DOMAIN toolServers'[h[2]] = 1 .. Len(s) - 1
      /\ \A j \in 1 .. Len(s) - 1 :
           toolServers'[h[2]][j] = IF j < first THEN s[j] ELSE s[j + 1]
  <2>1. first \in DOMAIN s BY <1>2
  <2> HIDE DEF s
  <2> QED BY <1>1, <1>5, <2>1, RemoveAtFacts
<1>7. ASSUME NEW g \in Connections
      PROVE  \/ reader'[g] = reader[g] /\ (g[2] # h[2] \/ reader[g].at # "updated")
             \/ /\ g[2] = h[2] /\ reader[g].at = "updated"
                /\ \/ reader'[g] = [at |-> "dangling"]
                   \/ /\ reader'[g] = [at |-> "updated", slot |-> reader[g].slot - 1]
                      /\ first = 1 /\ reader[g].slot # 1
                   \/ /\ reader'[g] = reader[g]
                      /\ first = Len(s) /\ reader[g].slot # first
  <2>1. CASE g[2] # h[2] BY <1>2, <2>1
  <2>2. CASE g[2] = h[2]
    <3>1. reader'[g] = SlotAfterErase(g[2], first, reader[g]) BY <1>2, <2>2
    <3>2. first \in DOMAIN toolServers[g[2]] BY <1>2, <2>2
    <3>3. CASE reader[g].at # "updated" BY <3>1, <3>2, <3>3, SlotAfterEraseFacts
    <3>4. CASE reader[g].at = "updated" BY <3>1, <3>2, <3>4, <2>2, SlotAfterEraseFacts
    <3> QED BY <3>3, <3>4
  <2> QED BY <2>1, <2>2
<1> QED BY <1>2, <1>4, <1>6, <1>7

LEMMA EraseElsewhere ==
  ASSUME IInv, NEW h \in Connections, EraseWorker(h), ~ UNCHANGED <<toolServers, reader>>,
         NEW k \in Coordinators, k # h[2]
  PROVE  /\ toolServers'[k] = toolServers[k]
         /\ \A g \in Connections : g[2] = k => reader'[g] = reader[g]
<1>1. toolServers'[k] = toolServers[k] BY EraseEntries
<1>2. \A g \in Connections : reader'[g] = reader[g] \/ g[2] = h[2]
  <2>1. PICK first \in DOMAIN toolServers[h[2]] :
               \A g \in Connections : reader'[g] = reader[g] \/ g[2] = h[2]
    BY EraseEntries
  <2> QED BY <2>1
<1> QED BY <1>1, <1>2

\* The entry an erasure takes out of a list is its connection's.
ErasedAt(k, h, first) ==
  LET s == toolServers[k] IN
  /\ s[first].handler = h
  /\ DOMAIN s = 1 .. Len(s) /\ Len(s) \in Nat \ {0}
  /\ DOMAIN toolServers'[k] = 1 .. Len(s) - 1
  /\ \A j \in 1 .. Len(s) - 1 :
       toolServers'[k][j] = IF j < first THEN s[j] ELSE s[j + 1]
  /\ \A g \in Connections :
       \/ reader'[g] = reader[g] /\ (g[2] # k \/ reader[g].at # "updated")
       \/ /\ g[2] = k /\ reader[g].at = "updated"
          /\ \/ reader'[g] = [at |-> "dangling"]
             \/ /\ reader'[g] = [at |-> "updated", slot |-> reader[g].slot - 1]
                /\ first = 1 /\ reader[g].slot # 1
             \/ /\ reader'[g] = reader[g]
                /\ first = Len(s) /\ reader[g].slot # first

LEMMA EraseHere ==
  ASSUME IInv, NEW h \in Connections, EraseWorker(h), ~ UNCHANGED <<toolServers, reader>>,
         NEW k \in Coordinators, k = h[2]
  PROVE  \E first \in DOMAIN toolServers[k] : ErasedAt(k, h, first)
<1>1. \E first \in DOMAIN toolServers[h[2]] : ErasedAt(h[2], h, first)
  BY EraseEntries DEF ErasedAt
<1> QED BY <1>1

(***************************************************************************)
(* The entries have their owners.                                          *)
(***************************************************************************)
\* A coordinator's end forgets everything it listed.
LEMMA CrashFacts ==
  ASSUME IInv, NEW k \in Coordinators, Crash(k)
  PROVE  /\ toolServers'[k] = << >> /\ DOMAIN toolServers'[k] = {} /\ k \notin dangled'
         /\ \A j \in Coordinators : j # k => toolServers'[j] = toolServers[j]
         /\ \A h \in Connections :
              IF h[2] = k THEN /\ reader'[h] = Idle /\ sent'[h] = << >>
                               /\ handlers'[h] \in {"none", "erased"}
                               /\ handlers'[h] = "none" <=> handlers[h] = "none"
              ELSE reader'[h] = reader[h] /\ sent'[h] = sent[h] /\ handlers'[h] = handlers[h]
         /\ overlapped' = overlapped \ {k} /\ dangled' = dangled \ {k}
<1>1. DOMAIN toolServers = Coordinators BY DEF IInv, TypeOK, ServerTypes
<1>2. toolServers'[k] = << >> /\ \A j \in Coordinators : j # k => toolServers'[j] = toolServers[j]
  BY <1>1 DEF Crash
<1>3. DOMAIN toolServers'[k] = {} BY <1>2
<1>4. ASSUME NEW h \in Connections
      PROVE  IF h[2] = k THEN /\ reader'[h] = Idle /\ sent'[h] = << >>
                              /\ handlers'[h] \in {"none", "erased"}
                              /\ handlers'[h] = "none" <=> handlers[h] = "none"
             ELSE reader'[h] = reader[h] /\ sent'[h] = sent[h] /\ handlers'[h] = handlers[h]
  BY DEF Crash
<1> QED BY <1>2, <1>3, <1>4 DEF Crash

LEMMA ListedOnceKept ==
  ASSUME IInv, [Next]_vars
  PROVE  ListedOnce' /\ MarkedHere'
<1>0. ListedOnce /\ MarkedHere BY DEF IInv
<1>1. ASSUME NEW h \in Connections, ReadStatus(h) PROVE ListedOnce' /\ MarkedHere'
  <2>1. CASE UNCHANGED toolServers BY <1>0, <2>1 DEF ListedOnce, MarkedHere
  <2>2. CASE ~ UNCHANGED toolServers
    <3>1. ~ UNCHANGED <<toolServers, reader, overlapped>> BY <2>2
    <3>2. PICK i \in DOMAIN toolServers'[h[2]] :
            /\ toolServers'[h[2]][i] = [ts |-> h[1], ver |-> sent[h][1].ver, handler |-> None]
            /\ \A j \in DOMAIN toolServers[h[2]] : j # i <=> toolServers[h[2]][j].ts # h[1]
            /\ \A j \in DOMAIN toolServers'[h[2]] : j # i =>
                 j \in DOMAIN toolServers[h[2]] /\ toolServers'[h[2]][j] = toolServers[h[2]][j]
      BY <1>1, <3>1, UpdateEntries
    <3>3. \A k \in Coordinators : k # h[2] => toolServers'[k] = toolServers[k]
      BY <1>1, <3>1, UpdateEntries
    <3>4. ListedOnce' BY <1>0, <3>2, <3>3 DEF ListedOnce
    <3>5. MarkedHere' BY <1>0, <3>2, <3>3 DEF MarkedHere
    <3> QED BY <3>4, <3>5
  <2> QED BY <2>1, <2>2
<1>2. ASSUME NEW h \in Connections, MarkHandler(h) \/ MarkDangling(h)
      PROVE  ListedOnce' /\ MarkedHere'
  <2>1. ListedOnce' BY <1>0, <1>2, MarkEntries DEF ListedOnce
  <2>2. MarkedHere' BY <1>0, <1>2, MarkEntries DEF MarkedHere
  <2> QED BY <2>1, <2>2
<1>3. ASSUME NEW h \in Connections, EraseWorker(h) PROVE ListedOnce' /\ MarkedHere'
  <2>1. CASE UNCHANGED toolServers BY <1>0, <2>1 DEF ListedOnce, MarkedHere
  <2>2. CASE ~ UNCHANGED toolServers
    <3>1. ~ UNCHANGED <<toolServers, reader>> BY <2>2
    <3>2. PICK first \in DOMAIN toolServers[h[2]] :
            LET s == toolServers[h[2]] IN
            /\ DOMAIN s = 1 .. Len(s) /\ Len(s) \in Nat \ {0}
            /\ DOMAIN toolServers'[h[2]] = 1 .. Len(s) - 1
            /\ \A j \in 1 .. Len(s) - 1 :
                 toolServers'[h[2]][j] = IF j < first THEN s[j] ELSE s[j + 1]
      BY <1>3, <3>1, EraseEntries
    <3>3. \A k \in Coordinators : k # h[2] => toolServers'[k] = toolServers[k]
      BY <1>3, <3>1, EraseEntries
    <3>4. h[2] \in Coordinators BY ConnectionFacts
    <3>5. ASSUME NEW k \in Coordinators, NEW i \in DOMAIN toolServers'[k], NEW j \in DOMAIN toolServers'[k],
                 toolServers'[k][i].ts = toolServers'[k][j].ts
          PROVE  i = j
      <4>1. CASE k # h[2] BY <1>0, <3>3, <3>5, <4>1 DEF ListedOnce
      <4>2. CASE k = h[2]
        <5> DEFINE s == toolServers[h[2]]
                   From(n) == IF n < first THEN n ELSE n + 1
        <5>1. i \in 1 .. Len(s) - 1 /\ j \in 1 .. Len(s) - 1 BY <3>2, <3>5, <4>2
        <5>2. From(i) \in DOMAIN s /\ From(j) \in DOMAIN s BY <3>2, <5>1
        <5>3. toolServers'[k][i] = s[From(i)] /\ toolServers'[k][j] = s[From(j)]
          BY <3>2, <4>2, <5>1
        <5>4. From(i) = From(j) BY <1>0, <3>4, <3>5, <5>2, <5>3 DEF ListedOnce
        <5> QED BY <3>2, <5>1, <5>4
      <4> QED BY <4>1, <4>2
    <3>6. ASSUME NEW k \in Coordinators, NEW i \in DOMAIN toolServers'[k],
                 toolServers'[k][i].handler # None
          PROVE  toolServers'[k][i].handler[2] = k
      <4>1. CASE k # h[2] BY <1>0, <3>3, <3>6, <4>1 DEF MarkedHere
      <4>2. CASE k = h[2]
        <5>1. i \in 1 .. Len(toolServers[k]) - 1 BY <3>2, <3>6, <4>2
        <5>2. \E j \in DOMAIN toolServers[k] : toolServers'[k][i] = toolServers[k][j]
          BY <3>2, <4>2, <5>1
        <5> QED BY <1>0, <3>6, <5>2 DEF MarkedHere
      <4> QED BY <4>1, <4>2
    <3> QED BY <3>5, <3>6 DEF ListedOnce, MarkedHere
  <2> QED BY <2>1, <2>2
<1>4. ASSUME NEW k \in Coordinators, Crash(k) PROVE ListedOnce' /\ MarkedHere'
  BY <1>0, <1>4, CrashFacts DEF ListedOnce, MarkedHere
<1>5. CASE UNCHANGED <<toolServers, overlapped, dangled>>
  BY <1>0, <1>5 DEF ListedOnce, MarkedHere
<1> QED BY <1>1, <1>2, <1>3, <1>4, <1>5, ListedChange

LEMMA SlotsFitKept ==
  ASSUME IInv, [Next]_vars
  PROVE  SlotsFit'
<1>0. SlotsFit /\ ListedOnce BY DEF IInv
<1> DEFINE Fits(h) == reader[h].at = "updated" =>
             /\ reader[h].slot \in DOMAIN toolServers[h[2]]
             /\ toolServers[h[2]][reader[h].slot].ts = h[1]
<1>1. ASSUME NEW h \in Connections, ReadStatus(h) PROVE SlotsFit'
  <2>1. CASE UNCHANGED <<toolServers, reader, overlapped>> BY <1>0, <2>1 DEF SlotsFit
  <2>2. CASE ~ UNCHANGED <<toolServers, reader, overlapped>>
    <3>1. PICK i \in DOMAIN toolServers'[h[2]] :
            /\ reader'[h] = [at |-> "updated", slot |-> i]
            /\ toolServers'[h[2]][i] = [ts |-> h[1], ver |-> sent[h][1].ver, handler |-> None]
            /\ \A j \in DOMAIN toolServers[h[2]] : j \in DOMAIN toolServers'[h[2]]
            /\ \A j \in DOMAIN toolServers'[h[2]] : j # i =>
                 j \in DOMAIN toolServers[h[2]] /\ toolServers'[h[2]][j] = toolServers[h[2]][j]
            /\ i \in DOMAIN toolServers[h[2]] => toolServers[h[2]][i].ts = h[1]
      BY <1>1, <2>2, UpdateEntries
    <3>2. ASSUME NEW g \in Connections PROVE Fits(g)'
      <4>1. CASE g = h BY <3>1, <4>1
      <4>2. CASE g # h
        <5>1. reader'[g] = reader[g] BY <1>1, <2>2, <4>2, UpdateEntries
        <5>2. CASE g[2] # h[2]
          <6>1. toolServers'[g[2]] = toolServers[g[2]]
            BY <1>1, <2>2, <5>2, UpdateEntries, ConnectionFacts
          <6> QED BY <1>0, <5>1, <6>1 DEF SlotsFit
        <5>3. CASE g[2] = h[2]
          <6> SUFFICES ASSUME reader[g].at = "updated"
                       PROVE  /\ reader[g].slot \in DOMAIN toolServers'[h[2]]
                              /\ toolServers'[h[2]][reader[g].slot].ts = g[1]
            BY <5>1, <5>3
          <6>1. reader[g].slot \in DOMAIN toolServers[h[2]] /\ toolServers[h[2]][reader[g].slot].ts = g[1]
            BY <1>0, <5>3 DEF SlotsFit
          <6>2. CASE reader[g].slot # i BY <3>1, <6>1, <6>2
          <6>3. CASE reader[g].slot = i
            <7>1. g[1] = h[1] BY <3>1, <6>1, <6>3
            <7> QED BY <3>1, <6>1, <6>3, <7>1
          <6> QED BY <6>2, <6>3
        <5> QED BY <5>2, <5>3
      <4> QED BY <4>1, <4>2
    <3> QED BY <3>2 DEF SlotsFit
  <2> QED BY <2>1, <2>2
<1>2. ASSUME NEW h \in Connections, MarkHandler(h) \/ MarkDangling(h) PROVE SlotsFit'
  <2>1. ASSUME NEW g \in Connections PROVE Fits(g)'
    <3>1. g[2] \in Coordinators BY ConnectionFacts
    <3>2. reader'[g].at = "updated" => reader'[g] = reader[g] BY <1>2, MarkEntries
    <3>3. /\ DOMAIN toolServers'[g[2]] = DOMAIN toolServers[g[2]]
          /\ \A i \in DOMAIN toolServers[g[2]] : toolServers'[g[2]][i].ts = toolServers[g[2]][i].ts
      BY <1>2, <3>1, MarkEntries
    <3> QED BY <1>0, <3>2, <3>3 DEF SlotsFit
  <2> QED BY <2>1 DEF SlotsFit
<1>3. ASSUME NEW h \in Connections, CopyList(h) \/ QueueFrameToAll(h) \/ ReadRequest(h) \/ Reply(h)
      PROVE  SlotsFit'
  <2>1. DOMAIN reader = Connections BY DEF IInv, TypeOK, ServerTypes
  <2>2. UNCHANGED toolServers /\ reader'[h].at # "updated"
        /\ \A g \in Connections : g # h => reader'[g] = reader[g]
    BY <1>3, <2>1 DEF CopyList, QueueFrameToAll, ReadRequest, Reply, At, Idle
  <2> QED BY <1>0, <2>2 DEF SlotsFit
<1>4. ASSUME NEW h \in Connections, EraseWorker(h) PROVE SlotsFit'
  <2>1. CASE UNCHANGED <<toolServers, reader>> BY <1>0, <2>1 DEF SlotsFit
  <2>2. CASE ~ UNCHANGED <<toolServers, reader>>
    <3> DEFINE s == toolServers[h[2]]
    <3>1. PICK first \in DOMAIN s :
              /\ DOMAIN s = 1 .. Len(s) /\ Len(s) \in Nat \ {0}
              /\ DOMAIN toolServers'[h[2]] = 1 .. Len(s) - 1
              /\ \A j \in 1 .. Len(s) - 1 :
                   toolServers'[h[2]][j] = IF j < first THEN s[j] ELSE s[j + 1]
              /\ \A g \in Connections :
                   \/ reader'[g] = reader[g] /\ (g[2] # h[2] \/ reader[g].at # "updated")
                   \/ /\ g[2] = h[2] /\ reader[g].at = "updated"
                      /\ \/ reader'[g] = [at |-> "dangling"]
                         \/ /\ reader'[g] = [at |-> "updated", slot |-> reader[g].slot - 1]
                            /\ first = 1 /\ reader[g].slot # 1
                         \/ /\ reader'[g] = reader[g]
                            /\ first = Len(s) /\ reader[g].slot # first
      BY <1>4, <2>2, EraseEntries
    <3>2. ASSUME NEW g \in Connections, reader'[g].at = "updated"
          PROVE  /\ reader'[g].slot \in DOMAIN toolServers'[g[2]]
                 /\ toolServers'[g[2]][reader'[g].slot].ts = g[1]
      <4>1. CASE g[2] # h[2]
        <5>1. reader'[g] = reader[g] BY <3>1, <4>1
        <5>2. toolServers'[g[2]] = toolServers[g[2]]
          BY <1>4, <2>2, <4>1, EraseEntries, ConnectionFacts
        <5> QED BY <1>0, <3>2, <5>1, <5>2 DEF SlotsFit
      <4>2. CASE g[2] = h[2]
        <5> DEFINE n == reader[g].slot
        <5>1. reader[g].at = "updated" BY <3>1, <3>2, <4>2
        <5>2. n \in DOMAIN s /\ s[n].ts = g[1] BY <1>0, <4>2, <5>1 DEF SlotsFit
        <5> HIDE DEF s, n
        <5>3. CASE reader'[g] = [at |-> "updated", slot |-> n - 1] /\ first = 1 /\ n # 1
          <6>1. n - 1 \in 1 .. Len(s) - 1 /\ ~(n - 1 < first) /\ (n - 1) + 1 = n
            BY <3>1, <5>2, <5>3
          <6>2. toolServers'[h[2]][n - 1] = s[n] BY <3>1, <6>1
          <6> QED BY <3>1, <4>2, <5>2, <5>3, <6>1, <6>2
        <5>4. CASE reader'[g] = reader[g] /\ first = Len(s) /\ n # first
          <6>1. n \in 1 .. Len(s) - 1 /\ n < first BY <3>1, <5>2, <5>4
          <6>2. toolServers'[h[2]][n] = s[n] BY <3>1, <6>1
          <6> QED BY <3>1, <4>2, <5>2, <5>4, <6>1, <6>2 DEF n
        <5>5. reader'[g] # [at |-> "dangling"] BY <3>2
        <5> QED BY <3>1, <4>2, <5>1, <5>3, <5>4, <5>5 DEF s, n
      <4> QED BY <4>1, <4>2
    <3> QED BY <3>2 DEF SlotsFit
  <2> QED BY <2>1, <2>2
<1>5. ASSUME NEW k \in Coordinators, Crash(k) PROVE SlotsFit'
  <2>1. ASSUME NEW g \in Connections PROVE Fits(g)'
    <3>1. g[2] \in Coordinators BY ConnectionFacts
    <3> QED BY <1>0, <1>5, <3>1, CrashFacts DEF SlotsFit, Idle
  <2> QED BY <2>1 DEF SlotsFit
<1>6. CASE UNCHANGED <<reader, toolServers, overlapped, dangled>> BY <1>0, <1>6 DEF SlotsFit
<1> QED BY <1>1, <1>2, <1>3, <1>4, <1>5, <1>6, ServersChange

LEMMA EntriesAreOwnedKept ==
  ASSUME IInv, [Next]_vars
  PROVE  EntriesAreOwned'
<1> DEFINE Pointers(i) == {[at |-> "updated", slot |-> i], [at |-> "dangling"]}
           Owned(k, i) ==
             LET e == toolServers[k][i]
             IN IF e.handler = None
                THEN \E h \in Connections : h[1] = e.ts /\ h[2] = k /\ reader[h] \in Pointers(i)
                ELSE e.handler[1] = e.ts /\ handlers[e.handler] \in {"open", "broken"}
<1>0. /\ TypeOK /\ NetTypes /\ ServerTypes /\ MarkedHere
      /\ \A k \in Coordinators \ dangled : \A i \in DOMAIN toolServers[k] : Owned(k, i)
  BY DEF IInv, TypeOK, EntriesAreOwned
<1>1. SUFFICES ASSUME NEW k \in Coordinators, k \notin dangled', NEW i \in DOMAIN toolServers'[k]
               PROVE  Owned(k, i)'
  BY DEF EntriesAreOwned
<1>2. ASSUME NEW h \in Connections, ReadStatus(h) PROVE Owned(k, i)'
  <2>1. UNCHANGED <<handlers, dangled>> BY <1>2 DEF ReadStatus
  <2>2. CASE UNCHANGED <<toolServers, reader, overlapped>> BY <1>0, <1>1, <2>1, <2>2
  <2>3. CASE ~ UNCHANGED <<toolServers, reader, overlapped>>
    <3>1. reader[h] = Idle BY <1>2, ReadStatusFacts
    <3>2. \A g \in Connections : g # h => reader'[g] = reader[g] BY <1>2, <2>3, UpdateEntries
    <3>3. \A g \in Connections, j \in Nat : reader[g] \in Pointers(j) => reader'[g] = reader[g]
      BY <3>1, <3>2 DEF Idle
    <3>4. CASE k # h[2]
      <4>1. toolServers'[k] = toolServers[k] BY <1>2, <2>3, <3>4, UpdatedElsewhere
      <4>2. i \in Nat BY <1>0, <1>1, <4>1, LenProperties DEF ServerTypes
      <4> QED BY <1>0, <1>1, <2>1, <3>3, <4>1, <4>2
    <3>5. CASE k = h[2]
      <4>1. PICK n \in DOMAIN toolServers'[k] :
            /\ reader'[h] = [at |-> "updated", slot |-> n]
            /\ toolServers'[k][n] = [ts |-> h[1], ver |-> sent[h][1].ver, handler |-> None]
            /\ \A j \in DOMAIN toolServers'[k] : j # n =>
                 j \in DOMAIN toolServers[k] /\ toolServers'[k][j] = toolServers[k][j]
        <5>1. PICK n \in DOMAIN toolServers'[k] : UpdatedAt(h, n)
          BY <1>2, <2>3, <3>5, UpdatedHere
        <5> QED BY <3>5, <5>1 DEF UpdatedAt
      <4>2. CASE i = n BY <3>5, <4>1, <4>2
      <4>3. CASE i # n
        <5>1. i \in DOMAIN toolServers[k] /\ toolServers'[k][i] = toolServers[k][i]
          BY <1>1, <4>1, <4>3
        <5>2. i \in Nat BY <1>0, <5>1, LenProperties DEF ServerTypes
        <5> QED BY <1>0, <1>1, <2>1, <3>3, <5>1, <5>2
      <4> QED BY <4>2, <4>3
    <3> QED BY <3>4, <3>5
  <2> QED BY <2>2, <2>3
<1>3. ASSUME NEW h \in Connections, MarkHandler(h) \/ MarkDangling(h) PROVE Owned(k, i)'
  <2>1. UNCHANGED handlers BY <1>3 DEF MarkHandler, MarkDangling
  <2>2. dangled \subseteq dangled' BY <1>3 DEF MarkHandler, MarkDangling
  <2>3. /\ \A g \in Connections : g # h => reader'[g] = reader[g]
        /\ DOMAIN toolServers'[k] = DOMAIN toolServers[k]
        /\ toolServers'[k][i].ts = toolServers[k][i].ts
    BY <1>1, <1>3, MarkEntries
  <2>4. Owned(k, i) BY <1>0, <1>1, <2>2, <2>3
  <2>5. h[2] \in dangled' \/ reader[h].at = "updated" BY <1>3 DEF MarkHandler, MarkDangling
  <2>6. CASE k # h[2]
    <3>1. toolServers'[k] = toolServers[k] BY <1>1, <1>3, <2>6, MarkEntries
    <3> QED BY <2>1, <2>3, <2>4, <2>6, <3>1
  <2>7. CASE k = h[2]
    <3> DEFINE Marked(n) ==
          /\ reader[h] = [at |-> "updated", slot |-> n]
          /\ toolServers[k][n].ts = h[1] /\ toolServers'[k][n].handler = h
          /\ \A j \in DOMAIN toolServers[k] : j # n => toolServers'[k][j] = toolServers[k][j]
    <3>0. k # h[2] \/ k \in dangled' \/ \E n \in DOMAIN toolServers[k] : Marked(n)
      BY <1>1, <1>3, MarkEntries
    <3> HIDE DEF Marked
    <3>1. PICK n \in DOMAIN toolServers[k] : Marked(n) BY <1>1, <2>7, <3>0
    <3> USE DEF Marked
    <3>2. CASE i = n
      <4>1. h # None BY ConnectionFacts
      <4>2. handlers[h] = "open" BY <3>1, ReaderFacts
      <4> QED BY <2>1, <2>3, <3>1, <3>2, <4>1, <4>2
    <3>3. CASE i # n
      <4>1. toolServers'[k][i] = toolServers[k][i] BY <2>3, <1>1, <3>1, <3>3
      <4>2. reader[h] \notin Pointers(i) BY <3>1, <3>3
      <4> QED BY <2>1, <2>3, <2>4, <4>1, <4>2
    <3> QED BY <3>2, <3>3
  <2> QED BY <2>6, <2>7
<1>4. ASSUME NEW h \in Connections, CopyList(h) \/ QueueFrameToAll(h) \/ ReadRequest(h) \/ Reply(h)
      PROVE  Owned(k, i)'
  <2>1. UNCHANGED <<toolServers, handlers, dangled>>
        /\ \A g \in Connections : g # h => reader'[g] = reader[g]
    BY <1>0, <1>4 DEF CopyList, QueueFrameToAll, ReadRequest, Reply, At, ServerTypes
  <2>2. \A j \in Nat : reader[h] \notin Pointers(j)
    BY <1>4 DEF CopyList, QueueFrameToAll, ReadRequest, Reply, NextFrame, Idle
  <2>3. i \in Nat BY <1>0, <1>1, <2>1, LenProperties DEF ServerTypes
  <2> QED BY <1>0, <1>1, <2>1, <2>2, <2>3
<1>5. ASSUME NEW h \in Connections, EraseWorker(h) PROVE Owned(k, i)'
  <2>1. handlers[h] = "broken" /\ handlers' = [handlers EXCEPT ![h] = "erased"]
    BY <1>5, EraseFacts
  <2>2. UNCHANGED dangled BY <1>5 DEF EraseWorker
  <2>3. \A g \in Connections : g # h => handlers'[g] = handlers[g] BY <2>1
  <2>4. ASSUME NEW e \in Entry, e.handler # None, e.handler # h, handlers[e.handler] \in {"open", "broken"}
        PROVE  handlers'[e.handler] \in {"open", "broken"}
    <3>1. e.handler \in Connections BY <2>4 DEF Entry
    <3> QED BY <2>3, <2>4, <3>1
  <2>5. \A n \in DOMAIN toolServers[k] : toolServers[k][n] \in Entry
    BY <1>0, LenProperties DEF ServerTypes
  <2>6. CASE UNCHANGED <<toolServers, reader>>
    <3>1. toolServers[k][i].handler # h
      <4>1. CASE k = h[2]
        <5> SUFFICES ASSUME NEW first \in DOMAIN toolServers[k],
                            toolServers' = [toolServers EXCEPT ![k] = RemoveAt(toolServers[k], first)]
                     PROVE  FALSE
          BY <1>1, <1>5, <2>6, <4>1, EraseFacts
        <5>1. toolServers'[k] = RemoveAt(toolServers[k], first) BY <1>0 DEF ServerTypes
        <5>2. toolServers[k] \in Seq(Entry) BY <1>0 DEF ServerTypes
        <5>3. Len(toolServers'[k]) = Len(toolServers[k]) - 1 BY <5>1, <5>2, RemoveAtFacts
        <5> QED BY <2>6, <5>2, <5>3, LenProperties
      <4>2. CASE k # h[2] BY <1>0, <1>1, <2>6, <4>2, ConnectionFacts DEF MarkedHere
      <4> QED BY <4>1, <4>2
    <3> QED BY <1>0, <1>1, <2>2, <2>4, <2>5, <2>6, <3>1
  <2>7. CASE ~ UNCHANGED <<toolServers, reader>>
    <3>1. CASE k # h[2]
      <4>1. toolServers'[k] = toolServers[k] BY <1>5, <2>7, <3>1, EraseElsewhere
      <4>2. \A g \in Connections : g[2] = k => reader'[g] = reader[g]
        BY <1>5, <2>7, <3>1, EraseElsewhere
      <4>3. toolServers[k][i].handler # h BY <1>0, <1>1, <4>1, <3>1, ConnectionFacts DEF MarkedHere
      <4> QED BY <1>0, <1>1, <2>2, <2>4, <2>5, <4>1, <4>2, <4>3
    <3>2. CASE k = h[2]
      <4> DEFINE s == toolServers[k]
      <4>1. PICK first \in DOMAIN s :
              /\ s[first].handler = h
              /\ DOMAIN s = 1 .. Len(s) /\ Len(s) \in Nat \ {0}
              /\ DOMAIN toolServers'[k] = 1 .. Len(s) - 1
              /\ \A j \in 1 .. Len(s) - 1 :
                   toolServers'[k][j] = IF j < first THEN s[j] ELSE s[j + 1]
              /\ \A g \in Connections :
                   \/ reader'[g] = reader[g] /\ (g[2] # k \/ reader[g].at # "updated")
                   \/ /\ g[2] = k /\ reader[g].at = "updated"
                      /\ \/ reader'[g] = [at |-> "dangling"]
                         \/ /\ reader'[g] = [at |-> "updated", slot |-> reader[g].slot - 1]
                            /\ first = 1 /\ reader[g].slot # 1
                         \/ /\ reader'[g] = reader[g]
                            /\ first = Len(s) /\ reader[g].slot # first
        <5>1. PICK first \in DOMAIN s : ErasedAt(k, h, first) BY <1>5, <2>7, <3>2, EraseHere
        <5> QED BY <5>1 DEF ErasedAt
      <4>2. i \in 1 .. Len(s) - 1 BY <1>1, <4>1
      <4>3. PICK j \in DOMAIN s : /\ toolServers'[k][i] = s[j] /\ j # first
                                  /\ j = IF i < first THEN i ELSE i + 1
        <5>1. CASE i < first
          <6>1. i \in DOMAIN s /\ toolServers'[k][i] = s[i] /\ i # first BY <4>1, <4>2, <5>1
          <6> QED BY <5>1, <6>1
        <5>2. CASE ~(i < first)
          <6>1. i + 1 \in DOMAIN s /\ toolServers'[k][i] = s[i + 1] /\ i + 1 # first
            BY <4>1, <4>2, <5>2
          <6> QED BY <5>2, <6>1
        <5> QED BY <5>1, <5>2
      <4>4. Owned(k, j) BY <1>0, <1>1, <2>2, <4>3
      <4>5. CASE s[j].handler = None
        <5>1. PICK g \in Connections : g[1] = s[j].ts /\ g[2] = k /\ reader[g] \in Pointers(j)
          BY <4>4, <4>5
        <5>2. reader'[g] \in Pointers(i)
          <6>1. CASE reader[g] = [at |-> "dangling"]
            <7>1. reader[g].at # "updated" BY <6>1
            <7>2. reader'[g] = reader[g] BY <4>1, <5>1, <7>1
            <7> QED BY <6>1, <7>2
          <6>2. CASE reader[g] = [at |-> "updated", slot |-> j]
            <7>1. reader[g].at = "updated" /\ reader[g].slot = j BY <6>2
            <7>2. CASE reader'[g] = [at |-> "dangling"] BY <7>2
            <7>3. CASE reader'[g] = [at |-> "updated", slot |-> j - 1] /\ first = 1 /\ j # 1
              <8>1. j - 1 = i BY <4>2, <4>3, <7>3
              <8> QED BY <7>3, <8>1
            <7>4. CASE reader'[g] = reader[g] /\ first = Len(s) /\ j # first
              <8>1. j = i BY <4>1, <4>2, <4>3, <7>4
              <8> QED BY <6>2, <7>4, <8>1
            <7> QED BY <3>2, <4>1, <5>1, <7>1, <7>2, <7>3, <7>4
          <6> QED BY <5>1, <6>1, <6>2
        <5> QED BY <4>3, <4>5, <5>1, <5>2
      <4>6. CASE s[j].handler # None
        <5>1. s[j].handler[1] = s[j].ts /\ handlers[s[j].handler] \in {"open", "broken"}
          BY <4>4, <4>6
        <5>2. s[j].handler # h
          <6>1. s[first].handler # None BY <4>1, ConnectionFacts
          <6>2. Owned(k, first) BY <1>0, <1>1, <2>2, <4>1
          <6>3. s[first].handler[1] = s[first].ts BY <6>1, <6>2
          <6>4. s[j].handler = h => s[j].ts = s[first].ts BY <4>1, <5>1, <6>3
          <6> QED BY <4>1, <4>3, <6>4 DEF IInv, ListedOnce
        <5>3. handlers'[s[j].handler] \in {"open", "broken"} BY <2>4, <2>5, <4>3, <4>6, <5>1, <5>2
        <5> QED BY <4>3, <4>6, <5>1, <5>3
      <4> QED BY <4>5, <4>6
    <3> QED BY <3>1, <3>2
  <2> QED BY <2>6, <2>7
<1>6. ASSUME NEW m \in Coordinators, Crash(m) PROVE Owned(k, i)'
  <2>1. k # m BY <1>1, <1>6, CrashFacts
  <2>2. /\ toolServers'[k] = toolServers[k] /\ k \notin dangled
        /\ \A h \in Connections : h[2] = k => reader'[h] = reader[h] /\ handlers'[h] = handlers[h]
    BY <1>1, <1>6, <2>1, CrashFacts
  <2>3. Owned(k, i) BY <1>0, <1>1, <2>2
  <2>4. toolServers[k][i].handler # None =>
          toolServers[k][i].handler \in Connections /\ toolServers[k][i].handler[2] = k
    <3>1. toolServers[k][i] \in Entry BY <1>0, <1>1, <2>2, LenProperties DEF ServerTypes
    <3> QED BY <1>0, <1>1, <2>2, <3>1 DEF MarkedHere, Entry
  <2> QED BY <2>2, <2>3, <2>4
<1>7. CASE UNCHANGED <<reader, toolServers, overlapped, dangled>>
  <2>1. Owned(k, i) BY <1>0, <1>1, <1>7
  <2>2. toolServers[k][i].handler # None => toolServers[k][i].handler \in Connections
    <3>1. toolServers[k][i] \in Entry BY <1>0, <1>1, <1>7, LenProperties DEF ServerTypes
    <3> QED BY <3>1 DEF Entry
  <2>3. ASSUME \A h \in Connections : handlers[h] \in {"open", "broken"} => handlers'[h] \in {"open", "broken"}
        PROVE  Owned(k, i)'
    BY <1>7, <2>1, <2>2, <2>3
  <2>4. ASSUME NEW l \in Links, Connect(l) PROVE Owned(k, i)'
    BY <2>3, <2>4, <1>0 DEF Connect, NetTypes
  <2>5. ASSUME NEW h \in Connections, Break(h) PROVE Owned(k, i)'
    BY <2>3, <2>5, <1>0 DEF Break, NetTypes
  <2>6. CASE UNCHANGED handlers BY <2>3, <2>6
  <2> QED BY <1>5, <1>6, <2>4, <2>5, <2>6, HandlersChange
<1> QED BY <1>2, <1>3, <1>4, <1>5, <1>6, <1>7, ServersChange

(***************************************************************************)
(* Connections, workers and announcements.                                 *)
(***************************************************************************)
LEMMA HandlersFitKept ==
  ASSUME IInv, [Next]_vars
  PROVE  HandlersFit'
<1> DEFINE Unmade(h) == h[3] > connects[LinkOf(h)] => handlers[h] = "none"
           Single(l) == conn[l] # 0 /\ Current(l) \notin doubled =>
             \A h \in Connections : LinkOf(h) = l /\ h[3] < conn[l] => handlers[h] = "erased"
<1>0. /\ TypeOK /\ NetTypes /\ ConnTypes
      /\ \A h \in Connections : Unmade(h)
      /\ \A l \in Links : Single(l)
  BY DEF IInv, TypeOK, HandlersFit
<1>1. ASSUME NEW l \in Links, Connect(l) PROVE HandlersFit'
  <2> DEFINE n == connects[l] + 1
             h == <<l[1], l[2], n>>
  <2>1. /\ h \in Connections /\ LinkOf(h) = l /\ h[3] = n /\ n \in Nat
        /\ connects' = [connects EXCEPT ![l] = n] /\ conn' = [conn EXCEPT ![l] = n]
        /\ handlers' = [handlers EXCEPT ![h] = "open"] /\ Current(l)' = h
        /\ n \in 1 .. MaxConnects
    BY <1>1, ConnectFacts
  <2> HIDE DEF h
  <2>2. ASSUME NEW g \in Connections PROVE Unmade(g)'
    <3>1. LinkOf(g) \in Links /\ g[3] \in 1 .. MaxConnects BY ConnectionFacts
    <3>2. connects[LinkOf(g)] \in Nat /\ connects[l] \in Nat BY <1>0, <3>1 DEF ConnTypes
    <3>3. CASE g = h BY <1>0, <2>1, <3>3 DEF ConnTypes
    <3>4. CASE g # h
      <4>1. handlers'[g] = handlers[g] BY <2>1, <3>4
      <4>2. CASE LinkOf(g) = l
        <5>1. connects'[LinkOf(g)] = connects[l] + 1 BY <1>0, <2>1, <4>2 DEF ConnTypes
        <5>2. MaxConnects \in Nat BY CoordinatorAssumption
        <5> QED BY <1>0, <3>1, <3>2, <4>1, <4>2, <5>1, <5>2
      <4>3. CASE LinkOf(g) # l
        <5>1. connects'[LinkOf(g)] = connects[LinkOf(g)] BY <1>0, <2>1, <3>1, <4>3 DEF ConnTypes
        <5> QED BY <1>0, <4>1, <5>1
      <4> QED BY <4>2, <4>3
    <3> QED BY <3>3, <3>4
  <2>3. ASSUME NEW m \in Links PROVE Single(m)'
    <3>1. CASE m # l
      <4>1. conn'[m] = conn[m] /\ Current(m)' = Current(m) BY <1>0, <2>1, <3>1 DEF ConnTypes, Current
      <4>2. doubled \subseteq doubled' BY <1>1 DEF Connect
      <4>3. \A g \in Connections : LinkOf(g) = m => handlers'[g] = handlers[g]
        BY <2>1, <3>1
      <4> QED BY <1>0, <4>1, <4>2, <4>3
    <3>2. CASE m = l
      <4>1. SUFFICES ASSUME h \notin doubled', NEW g \in Connections, LinkOf(g) = l, g[3] < n
                     PROVE  handlers'[g] = "erased"
        BY <1>0, <2>1, <3>2 DEF ConnTypes
      <4>2. g = <<l[1], l[2], g[3]>> /\ g[3] \in 1 .. MaxConnects BY <4>1, ConnectionFacts DEF LinkOf
      <4>3. g[3] \in 1 .. n - 1
        <5>1. MaxConnects \in Nat BY CoordinatorAssumption
        <5> QED BY <2>1, <4>1, <4>2, <5>1
      <4>4. handlers[g] = "erased" BY <1>1, <4>1, <4>2, <4>3 DEF Connect, h
      <4>5. g # h BY <2>1, <4>3
      <4> QED BY <2>1, <4>4, <4>5
    <3> QED BY <3>1, <3>2
  <2> QED BY <2>2, <2>3 DEF HandlersFit
<1>2. CASE /\ UNCHANGED <<connects, doubled>>
           /\ \A l \in Links : conn'[l] \in {0, conn[l]}
           /\ \A h \in Connections : handlers[h] \in {"none", "erased"} => handlers'[h] = handlers[h]
  <2>1. ASSUME NEW h \in Connections PROVE Unmade(h)' BY <1>0, <1>2, <2>1
  <2>2. ASSUME NEW l \in Links PROVE Single(l)'
    <3>1. conn'[l] # 0 => Current(l)' = Current(l) /\ conn'[l] = conn[l] BY <1>2 DEF Current
    <3> QED BY <1>0, <1>2, <3>1
  <2> QED BY <2>1, <2>2 DEF HandlersFit
<1>3. CASE ~ \E l \in Links : Connect(l)
  <2>1. UNCHANGED doubled BY <1>3, DoubledChange
  <2>2. UNCHANGED connects /\ \A l \in Links : conn'[l] \in {0, conn[l]}
    <3>1. ASSUME NEW l \in Links, LoseConnection(l)
          PROVE  UNCHANGED connects /\ \A m \in Links : conn'[m] \in {0, conn[m]}
      BY <1>0, <3>1 DEF LoseConnection, ConnTypes
    <3>2. ASSUME NEW l \in Links, ApplyList(l)
          PROVE  UNCHANGED connects /\ \A m \in Links : conn'[m] \in {0, conn[m]}
      BY <1>0, <3>2 DEF ApplyList, StopExtraClients, ConnTypes
    <3> QED BY <1>3, <3>1, <3>2, ConnsChange
  <2>3. \A h \in Connections : handlers[h] \in {"none", "erased"} => handlers'[h] = handlers[h]
    <3>1. ASSUME NEW h \in Connections, Break(h) \/ EraseWorker(h)
          PROVE  \A g \in Connections : handlers[g] \in {"none", "erased"} => handlers'[g] = handlers[g]
      BY <1>0, <3>1 DEF Break, EraseWorker, NetTypes
    <3>2. ASSUME NEW k \in Coordinators, Crash(k)
          PROVE  \A g \in Connections : handlers[g] \in {"none", "erased"} => handlers'[g] = handlers[g]
      BY <3>2 DEF Crash
    <3> QED BY <1>3, <3>1, <3>2, HandlersChange
  <2> QED BY <1>2, <2>1, <2>2, <2>3
<1> QED BY <1>1, <1>3

LEMMA WorkersRunKept ==
  ASSUME IInv, [Next]_vars
  PROVE  WorkersRun' /\ \A l \in Links : IsRunning(l) => IsRunning(l)'
<1>0. /\ TypeOK /\ WorkerTypes /\ ConnTypes /\ ClientTypes /\ WorkersRun
      /\ UNCHANGED deployment
  BY DeploymentStays DEF IInv, TypeOK
<1>1. ASSUME NEW l \in Links, IsRunning(l) PROVE IsRunning(l)'
  <2>1. l[1] \in Processes BY LinkFacts
  <2>2. running'[l[1]] \in Nat /\ running[l[1]] \in Nat /\ running'[l[1]] >= running[l[1]]
    <3>1. ASSUME NEW p \in Processes, StartWorker(p) \/ PushWorker(p)
          PROVE  running'[l[1]] \in Nat /\ running[l[1]] \in Nat /\ running'[l[1]] >= running[l[1]]
      BY <1>0, <2>1, <3>1 DEF StartWorker, PushWorker, WorkerTypes
    <3>2. ASSUME NEW m \in Links, ApplyList(m) PROVE UNCHANGED running BY <3>2 DEF ApplyList
    <3> QED BY <1>0, <2>1, <3>1, <3>2, WorkersChange DEF WorkerTypes
  <2>3. PICK i \in 1 .. running[l[1]] : Hosts(l[1])[i] = l[2] BY <1>1 DEF IsRunning
  <2>4. i \in 1 .. running'[l[1]] BY <2>2, <2>3
  <2>5. Hosts(l[1])' = Hosts(l[1]) BY <1>0 DEF Hosts
  <2> QED BY <2>3, <2>4, <2>5 DEF IsRunning
<1>2. ASSUME NEW l \in Links, conn'[l] # 0 PROVE IsRunning(l)
  <2>1. ASSUME NEW m \in Links, Connect(m) PROVE IsRunning(l)
    <3>1. IsRunning(m) /\ conn' = [conn EXCEPT ![m] = connects[m] + 1] BY <2>1 DEF Connect
    <3> QED BY <1>0, <1>2, <3>1 DEF WorkersRun, ConnTypes
  <2>2. ASSUME NEW m \in Links, LoseConnection(m) PROVE IsRunning(l)
    BY <1>0, <1>2, <2>2 DEF LoseConnection, WorkersRun, ConnTypes
  <2>3. ASSUME NEW m \in Links, ApplyList(m) PROVE IsRunning(l)
    <3>1. conn'[l] = conn[l] BY <1>0, <1>2, <2>3 DEF ApplyList, StopExtraClients, ConnTypes
    <3> QED BY <1>0, <1>2, <3>1 DEF WorkersRun
  <2> QED BY <1>0, <1>2, <2>1, <2>2, <2>3, ConnsChange DEF WorkersRun
<1>3. ASSUME NEW l \in Links, reading'[l] # None PROVE IsRunning(l) /\ l[1] \in Clients
  <2>1. ASSUME NEW m \in Links, QuantRequest(m) \/ LoseConnection(m)
        PROVE  IsRunning(l) /\ l[1] \in Clients
    BY <1>0, <1>3, <2>1 DEF QuantRequest, LoseConnection, WorkersRun
  <2>2. ASSUME NEW m \in Links, ReadList(m) PROVE IsRunning(l) /\ l[1] \in Clients
    <3>1. conn[m] # 0 /\ lists[Current(m)] # << >> BY <2>2 DEF ReadList, ClientState
    <3>2. IsRunning(m) BY <1>0, <3>1 DEF WorkersRun
    <3>3. Current(m) \in Connections /\ Current(m)[1] = m[1] BY <1>0, <3>1, CurrentFacts
    <3>4. m[1] \in Clients BY <3>1, <3>3 DEF IInv, FramesFit
    <3> QED BY <1>0, <1>3, <2>2, <3>2, <3>4 DEF ReadList, WorkersRun, ClientTypes
  <2>3. ASSUME NEW m \in Links, ApplyList(m) PROVE IsRunning(l) /\ l[1] \in Clients
    BY <1>0, <1>3, <2>3 DEF ApplyList, WorkersRun, ClientTypes
  <2> QED BY <1>0, <1>3, <2>1, <2>2, <2>3, ClientsChange DEF WorkersRun
<1> QED BY <1>1, <1>2, <1>3 DEF WorkersRun

LEMMA UpToDateKept ==
  ASSUME IInv, [Next]_vars
  PROVE  UpToDate'
<1> SUFFICES ASSUME NEW l \in ServerLinks, IsRunning(l)', l \notin missed'
             PROVE  linkInfo'[l] = info'[l[1]]
  BY DEF UpToDate
<1>0. /\ WorkerTypes /\ InfoTypes /\ l[1] \in ToolServers /\ l[2] \in Coordinators
      /\ l = <<l[1], l[2]>> /\ l \in DOMAIN linkInfo /\ UNCHANGED deployment
      /\ IsRunning(l) /\ l \notin missed => linkInfo[l] = info[l[1]]
  BY DeploymentStays DEF IInv, TypeOK, InfoTypes, UpToDate, ServerLinks
<1>1. ASSUME NEW p \in Processes, StartWorker(p) PROVE linkInfo'[l] = info'[l[1]]
  <2>1. /\ running' = [running EXCEPT ![p] = @ + 1] /\ info' = info /\ missed' = missed
        /\ linkInfo'[l] = IF l = <<p, Hosts(p)[running[p] + 1]>> THEN info[p] ELSE linkInfo[l]
    BY <1>0, <1>1, StartWorkerKeeps DEF StartWorker
  <2>2. CASE l = <<p, Hosts(p)[running[p] + 1]>> BY <2>1, <2>2
  <2>3. CASE l # <<p, Hosts(p)[running[p] + 1]>>
    <3>1. PICK i \in 1 .. running'[l[1]] : Hosts(l[1])[i] = l[2]
      BY <1>0 DEF IsRunning, Hosts
    <3>2. running \in [Processes -> Nat] /\ l[1] \in Processes
      BY <1>0 DEF WorkerTypes, Processes
    <3>3. l[1] # p => i \in 1 .. running[l[1]] BY <2>1, <3>1, <3>2
    <3>4. l[1] = p => i \in 1 .. running[p] + 1 /\ i # running[p] + 1
      BY <1>0, <2>1, <2>3, <3>1, <3>2
    <3>5. i \in 1 .. running[l[1]] BY <3>2, <3>3, <3>4
    <3>6. IsRunning(l) BY <3>1, <3>5 DEF IsRunning
    <3> QED BY <1>0, <2>1, <2>3, <3>6
  <2> QED BY <2>2, <2>3
<1>2. ASSUME NEW t \in ToolServers, SetToolServerInfo(t) PROVE linkInfo'[l] = info'[l[1]]
  <2>1. IsRunning(l)
    <3>1. UNCHANGED <<running, deployment>> BY <1>2, SetToolServerInfoKeeps
    <3> QED BY <3>1 DEF IsRunning, Hosts
  <2>2. CASE l[1] = t
    <3>1. l \in {t} \X Coordinators BY <1>0, <2>2
    <3>2. IsPushed(l) BY <1>2, <2>1, <3>1 DEF SetToolServerInfo
    <3>3. linkInfo'[l] = info[t] + 1 BY <1>0, <1>2, <3>1, <3>2 DEF SetToolServerInfo
    <3> QED BY <1>0, <1>2, <2>2, <3>3 DEF SetToolServerInfo, InfoTypes
  <2>3. CASE l[1] # t
    <3>1. l \notin {t} \X Coordinators /\ l \notin missed
      BY <1>0, <1>2, <2>3 DEF SetToolServerInfo
    <3>2. linkInfo'[l] = linkInfo[l] BY <1>0, <1>2, <3>1 DEF SetToolServerInfo
    <3> QED BY <1>0, <1>2, <2>1, <2>3, <3>1, <3>2 DEF SetToolServerInfo, InfoTypes
  <2> QED BY <2>2, <2>3
<1>3. ASSUME UNCHANGED <<running, info, linkInfo, missed>> PROVE linkInfo'[l] = info'[l[1]]
  <2>1. IsRunning(l) BY <1>0, <1>3 DEF IsRunning, Hosts
  <2> QED BY <1>0, <1>3, <2>1
<1>4. ASSUME NEW m \in Links, QuantClear(m) \/ QuantSend(m) \/ LoseConnection(m)
      PROVE  UNCHANGED <<info, linkInfo>>
  BY <1>4 DEF QuantClear, QuantSend, LoseConnection
<1>5. \/ UNCHANGED <<info, linkInfo>>
      \/ \E p \in Processes : StartWorker(p)
      \/ \E t \in ToolServers : SetToolServerInfo(t)
  BY <1>4, InfosChange
<1>6. ASSUME NEW p \in Processes, PushWorker(p) PROVE UNCHANGED running
  BY <1>6, PushWorkerKeeps
<1>7. ASSUME NEW m \in Links, ApplyList(m) PROVE UNCHANGED running BY <1>7, ApplyListKeeps
<1>8. UNCHANGED running \/ \E p \in Processes : StartWorker(p)
  BY <1>6, <1>7, WorkersChange
<1> QED BY <1>1, <1>2, <1>3, <1>5, <1>8, MissedChange

LEMMA WillAnnounceKept ==
  ASSUME IInv, [Next]_vars
  PROVE  WillAnnounce'
<1>0. TypeOK /\ ConnTypes /\ WillAnnounce BY DEF IInv, TypeOK
<1>1. ASSUME NEW l \in ServerLinks, conn'[l] = 0 PROVE l \in needSend'
  <2>1. l \in Links /\ l[1] \notin Clients BY ServerLinkFacts
  <2>2. conn[l] = 0 \/ LoseConnection(l)
    <3>1. ASSUME NEW m \in Links, Connect(m) PROVE conn[l] = 0
      <4>1. conn[m] = 0 /\ conn'[m] # 0 BY <1>0, <3>1 DEF Connect, ConnTypes
      <4> QED BY <1>0, <1>1, <2>1, <3>1, <4>1 DEF Connect, ConnTypes
    <3>2. ASSUME NEW m \in Links, LoseConnection(m) PROVE conn[l] = 0 \/ m = l
      BY <1>0, <1>1, <2>1, <3>2 DEF LoseConnection, ConnTypes
    <3>3. ASSUME NEW m \in Links, ApplyList(m) PROVE conn[l] = 0
      <4>1. m[1] \in Clients BY <3>3 DEF ApplyList, IInv, WorkersRun
      <4>2. l \notin Extra(m) BY <2>1, <4>1 DEF Extra
      <4>3. conn'[l] = conn[l] BY <1>0, <2>1, <3>3, <4>2 DEF ApplyList, StopExtraClients, ConnTypes
      <4> QED BY <1>1, <4>3
    <3> QED BY <1>1, <3>1, <3>2, <3>3, ConnsChange
  <2>3. CASE LoseConnection(l) BY <2>3 DEF LoseConnection
  <2>4. CASE conn[l] = 0
    <3>1. l \in needSend BY <1>0, <1>1, <2>4 DEF WillAnnounce
    <3>2. ASSUME NEW p \in Processes, StartWorker(p) PROVE l \in needSend'
      BY <3>1, <3>2 DEF StartWorker
    <3>3. ASSUME NEW m \in Links, QuantClear(m) \/ QuantSend(m) \/ LoseConnection(m)
          PROVE  l \in needSend'
      BY <3>1, <3>3, <2>4 DEF QuantClear, QuantSend, LoseConnection, ClientState
    <3>4. ASSUME NEW t \in ToolServers, SetToolServerInfo(t) PROVE l \in needSend'
      BY <3>1, <3>4 DEF SetToolServerInfo
    <3> QED BY <3>1, <3>2, <3>3, <3>4, InfosChange
  <2> QED BY <2>2, <2>3, <2>4
<1> QED BY <1>1 DEF WillAnnounce

\* The premise of OnItsWay: all a link has to announce has left its flags.
Pending(l) ==
  /\ conn[l] # 0 /\ handlers[Current(l)] = "open"
  /\ l \notin needSend \cup sending
  /\ Current(l) \notin doubled /\ l[2] \notin dangled

LEMMA PendingBefore ==
  ASSUME IInv, [Next]_vars, NEW l \in ServerLinks, Pending(l)'
  PROVE  /\ conn[l] # 0 /\ UNCHANGED <<conn[l], Current(l)>>
         /\ handlers[Current(l)] = "open" /\ handlers'[Current(l)] = "open"
         /\ Current(l) \notin doubled /\ l[2] \notin dangled
         /\ QuantSend(l) \/ Pending(l)
<1>0. /\ TypeOK /\ ConnTypes /\ NetTypes /\ InfoTypes /\ WillAnnounce
      /\ l \in Links /\ l[1] \notin Clients
  BY ServerLinkFacts DEF IInv, TypeOK
<1>1. conn[l] # 0 /\ conn'[l] = conn[l]
  <2>1. ASSUME NEW m \in Links, Connect(m) PROVE conn'[l] = conn[l]
    <3>1. UNCHANGED needSend /\ conn[m] = 0 BY <2>1 DEF Connect
    <3>2. l \notin needSend BY <3>1 DEF Pending
    <3>3. l # m BY <1>0, <3>1, <3>2 DEF WillAnnounce
    <3> QED BY <1>0, <2>1, <3>3 DEF Connect, ConnTypes
  <2>2. ASSUME NEW m \in Links, LoseConnection(m) PROVE conn'[l] = conn[l]
    BY <1>0, <2>2 DEF LoseConnection, ConnTypes, Pending
  <2>3. ASSUME NEW m \in Links, ApplyList(m) PROVE conn'[l] = conn[l]
    BY <1>0, <2>3 DEF ApplyList, StopExtraClients, ConnTypes, Pending
  <2>4. conn'[l] = conn[l] BY <2>1, <2>2, <2>3, ConnsChange
  <2> QED BY <2>4 DEF Pending
<1>2. Current(l)' = Current(l) BY <1>1 DEF Current
<1>3. /\ Current(l) \in Connections /\ LinkOf(Current(l)) = l /\ Current(l)[2] = l[2]
      /\ l[2] \in Coordinators
  BY <1>0, <1>1, CurrentFacts, LinkFacts
<1>4. handlers'[Current(l)] = "open" BY <1>2 DEF Pending
<1>5. handlers[Current(l)] = "open"
  <2>1. ASSUME NEW m \in Links, Connect(m) PROVE handlers[Current(l)] = "open"
    <3>1. conn[m] = 0 /\ \E h \in Connections :
            LinkOf(h) = m /\ handlers' = [handlers EXCEPT ![h] = "open"]
      BY <2>1, ConnectFacts
    <3> QED BY <1>1, <1>3, <1>4, <3>1
  <2>2. ASSUME NEW h \in Connections, Break(h) \/ EraseWorker(h) PROVE handlers[Current(l)] = "open"
    BY <1>0, <1>3, <1>4, <2>2 DEF Break, EraseWorker, NetTypes
  <2>3. ASSUME NEW k \in Coordinators, Crash(k) PROVE handlers[Current(l)] = "open"
    BY <1>3, <1>4, <2>3 DEF Crash
  <2> QED BY <1>4, <2>1, <2>2, <2>3, HandlersChange
<1>6. Current(l) \notin doubled
  <2>1. doubled \subseteq doubled' BY DoubledChange DEF Connect
  <2> QED BY <1>2, <2>1 DEF Pending
<1>7. l[2] \notin dangled
  <2>1. l[2] \notin dangled' BY DEF Pending
  <2>2. ASSUME NEW h \in Connections, ReadStatus(h) \/ MarkHandler(h) \/ MarkDangling(h) \/ EraseWorker(h)
        PROVE  l[2] \notin dangled
    BY <2>1, <2>2 DEF ReadStatus, MarkHandler, MarkDangling, EraseWorker
  <2>3. ASSUME NEW k \in Coordinators, Crash(k) PROVE l[2] \notin dangled
    <3>1. k # l[2] BY <1>3, <1>4, <2>3 DEF Crash
    <3> QED BY <2>1, <2>3, <3>1 DEF Crash
  <2> QED BY <2>1, <2>2, <2>3, ListedChange
<1>8. QuantSend(l) \/ l \notin needSend \cup sending
  <2>1. l \notin needSend' \cup sending' BY DEF Pending
  <2>2. ASSUME NEW p \in Processes, StartWorker(p) PROVE l \notin needSend \cup sending
    BY <2>1, <2>2 DEF StartWorker
  <2>3. ASSUME NEW m \in Links, QuantClear(m) \/ LoseConnection(m)
        PROVE  l \notin needSend \cup sending
    BY <2>1, <2>3 DEF QuantClear, LoseConnection
  <2>4. ASSUME NEW m \in Links, QuantSend(m), m # l PROVE l \notin needSend \cup sending
    BY <2>1, <2>4 DEF QuantSend
  <2>5. ASSUME NEW t \in ToolServers, SetToolServerInfo(t) PROVE l \notin needSend \cup sending
    BY <2>1, <2>5 DEF SetToolServerInfo
  <2> QED BY <2>1, <2>2, <2>3, <2>4, <2>5, InfosChange
<1> QED BY <1>1, <1>2, <1>4, <1>5, <1>6, <1>7, <1>8 DEF Pending

\* The info of a pending link does not change.
LEMMA PendingInfo ==
  ASSUME IInv, [Next]_vars, NEW l \in ServerLinks, Pending(l)'
  PROVE  linkInfo'[l] = linkInfo[l]
<1>0. /\ TypeOK /\ WorkerTypes /\ InfoTypes /\ conn[l] # 0
      /\ l \in Links /\ l \in ToolServers \X Coordinators /\ l = <<l[1], l[2]>>
      /\ IsRunning(l)
  BY PendingBefore, ServerLinkFacts, LinkFacts DEF IInv, TypeOK, WorkersRun, ServerLinks
<1>1. ASSUME NEW p \in Processes, StartWorker(p) PROVE linkInfo'[l] = linkInfo[l]
  <2>1. l # <<p, Hosts(p)[running[p] + 1]>>
    <3> SUFFICES ASSUME l[1] = p, l[2] = Hosts(p)[running[p] + 1] PROVE FALSE
      BY <1>0
    <3>1. PICK i \in 1 .. running[p] : Hosts(p)[i] = l[2] BY <1>0 DEF IsRunning
    <3>2. running[p] < Len(Hosts(p)) /\ running[p] \in Nat BY <1>0, <1>1 DEF StartWorker, WorkerTypes
    <3>3. /\ Len(Hosts(p)) \in Nat
          /\ \A a, b \in 1 .. Len(Hosts(p)) : Hosts(p)[a] = Hosts(p)[b] => a = b
      BY <1>0, DeploymentFacts
    <3>4. i \in 1 .. Len(Hosts(p)) /\ running[p] + 1 \in 1 .. Len(Hosts(p)) /\ i # running[p] + 1
      BY <3>1, <3>2, <3>3
    <3> QED BY <3>1, <3>3, <3>4
  <2> QED BY <1>0, <1>1, <2>1 DEF StartWorker, InfoTypes
<1>2. ASSUME NEW t \in ToolServers, SetToolServerInfo(t) PROVE linkInfo'[l] = linkInfo[l]
  BY <1>0, <1>2 DEF SetToolServerInfo, InfoTypes, Pending
<1>3. ASSUME NEW m \in Links, QuantClear(m) \/ QuantSend(m) \/ LoseConnection(m)
      PROVE  linkInfo'[l] = linkInfo[l]
  BY <1>3 DEF QuantClear, QuantSend, LoseConnection
<1> QED BY <1>1, <1>2, <1>3, InfosChange

\* What is listed of a tool server with a pending link changes only by that link's status.
LEMMA PendingListed ==
  ASSUME IInv, [Next]_vars, NEW l \in ServerLinks, Pending(l)', NEW ver,
         IsListed(l[2], l[1], ver), ~ ReadStatus(Current(l))
  PROVE  IsListed(l[2], l[1], ver)'
<1> DEFINE k == l[2]
           Has(s) == \E i \in DOMAIN s : s[i].ts = l[1] /\ s[i].ver = ver
<1>0. /\ TypeOK /\ ServerTypes /\ l \in Links /\ k \in Coordinators
      /\ conn[l] # 0 /\ Current(l) \in Connections /\ handlers[Current(l)] = "open"
      /\ handlers'[Current(l)] = "open"
      /\ Current(l) \notin doubled /\ k \notin dangled
  BY PendingBefore, ServerLinkFacts, LinkFacts, CurrentFacts DEF IInv, TypeOK
<1>1. Has(toolServers[k]) BY DEF IsListed, ToSet
<1>2. SUFFICES Has(toolServers'[k]) BY DEF IsListed, ToSet
<1>3. ASSUME NEW h \in Connections, handlers[h] \in {"open", "broken"}, h[1] = l[1], h[2] = l[2]
      PROVE  h = Current(l)
  <2>1. LinkOf(h) = l BY <1>0, <1>3, LinkFacts DEF LinkOf
  <2>2. h[3] \in 1 .. MaxConnects /\ MaxConnects \in Nat /\ h = <<h[1], h[2], h[3]>>
    BY ConnectionFacts, CoordinatorAssumption
  <2>3. conn[l] = connects[l] /\ conn[l] \in 1 .. MaxConnects BY <1>0, CurrentFacts
  <2>4. h[3] <= conn[l]
    <3>1. ~(h[3] > connects[LinkOf(h)]) BY <1>3 DEF IInv, HandlersFit
    <3> QED BY <2>1, <2>2, <2>3, <3>1
  <2>5. ~(h[3] < conn[l]) BY <1>0, <1>3, <2>1 DEF IInv, HandlersFit
  <2>6. h[3] = conn[l] BY <2>2, <2>3, <2>4, <2>5
  <2> QED BY <1>3, <2>2, <2>6 DEF Current
<1>4. ASSUME NEW h \in Connections, ReadStatus(h) PROVE Has(toolServers'[k])
  <2>1. CASE UNCHANGED <<toolServers, reader, overlapped>> BY <1>1, <2>1
  <2>2. CASE ~ UNCHANGED <<toolServers, reader, overlapped>>
    <3>1. CASE k # h[2]
      <4>1. toolServers'[k] = toolServers[k] BY <1>0, <1>4, <2>2, <3>1, UpdateEntries
      <4> QED BY <1>1, <4>1
    <3>2. CASE k = h[2]
      <4>1. h[1] # l[1] BY <1>3, <1>4, <3>2, ReadStatusFacts
      <4>2. PICK i \in DOMAIN toolServers'[h[2]] :
              /\ \A j \in DOMAIN toolServers[h[2]] : j \in DOMAIN toolServers'[h[2]]
              /\ \A j \in DOMAIN toolServers[h[2]] : j # i <=> toolServers[h[2]][j].ts # h[1]
              /\ \A j \in DOMAIN toolServers'[h[2]] : j # i =>
                   /\ j \in DOMAIN toolServers[h[2]]
                   /\ toolServers'[h[2]][j] = toolServers[h[2]][j]
        BY <1>4, <2>2, UpdateEntries
      <4>3. PICK j \in DOMAIN toolServers[k] : toolServers[k][j].ts = l[1] /\ toolServers[k][j].ver = ver
        BY <1>1
      <4>4. j # i /\ j \in DOMAIN toolServers'[k] BY <3>2, <4>1, <4>2, <4>3
      <4>5. toolServers'[k][j] = toolServers[k][j] BY <3>2, <4>2, <4>4
      <4> QED BY <4>3, <4>4, <4>5
    <3> QED BY <3>1, <3>2
  <2> QED BY <2>1, <2>2
<1>5. ASSUME NEW h \in Connections, MarkHandler(h) \/ MarkDangling(h) PROVE Has(toolServers'[k])
  BY <1>0, <1>1, <1>5, MarkEntries
<1>6. ASSUME NEW h \in Connections, EraseWorker(h) PROVE Has(toolServers'[k])
  <2>1. CASE UNCHANGED <<toolServers, reader>> BY <1>1, <2>1
  <2>2. CASE ~ UNCHANGED <<toolServers, reader>>
    <3>1. CASE k # h[2]
      <4>1. toolServers'[k] = toolServers[k] BY <1>0, <1>6, <2>2, <3>1, EraseEntries
      <4> QED BY <1>1, <4>1
    <3>2. CASE k = h[2]
      <4> DEFINE s == toolServers[k]
      <4>1. PICK first \in DOMAIN s :
              /\ s[first].handler = h
              /\ DOMAIN s = 1 .. Len(s) /\ Len(s) \in Nat \ {0}
              /\ DOMAIN toolServers'[k] = 1 .. Len(s) - 1
              /\ \A j \in 1 .. Len(s) - 1 :
                   toolServers'[k][j] = IF j < first THEN s[j] ELSE s[j + 1]
        BY <1>6, <2>2, <3>2, EraseEntries
      <4>2. h[1] # l[1]
        <5>1. handlers[h] = "broken" BY <1>6, EraseFacts
        <5> QED BY <1>0, <1>3, <3>2, <5>1
      <4>3. s[first].ts = h[1]
        <5>1. h # None BY ConnectionFacts
        <5> QED BY <1>0, <4>1, <5>1 DEF IInv, EntriesAreOwned
      <4>4. PICK j \in DOMAIN s : s[j].ts = l[1] /\ s[j].ver = ver BY <1>1
      <4>5. j # first BY <4>2, <4>3, <4>4
      <4> HIDE DEF s
      <4>6. CASE j < first
        <5>1. j \in 1 .. Len(s) - 1 /\ toolServers'[k][j] = s[j] BY <4>1, <4>4, <4>6
        <5> QED BY <4>1, <4>4, <5>1
      <4>7. CASE j > first
        <5>1. j - 1 \in 1 .. Len(s) - 1 /\ ~(j - 1 < first) /\ (j - 1) + 1 = j BY <4>1, <4>4, <4>7
        <5>2. toolServers'[k][j - 1] = s[j] BY <4>1, <5>1
        <5> QED BY <4>1, <4>4, <5>1, <5>2
      <4> QED BY <4>1, <4>4, <4>5, <4>6, <4>7
    <3> QED BY <3>1, <3>2
  <2> QED BY <2>1, <2>2
<1>7. ASSUME NEW m \in Coordinators, Crash(m) PROVE Has(toolServers'[k])
  <2>1. m # k BY <1>0, <1>7, CrashFacts, CurrentFacts
  <2>2. toolServers'[k] = toolServers[k] BY <1>0, <1>7, <2>1, CrashFacts
  <2> QED BY <1>1, <2>2
<1>8. CASE UNCHANGED <<toolServers, overlapped, dangled>> BY <1>1, <1>8
<1> QED BY <1>4, <1>5, <1>6, <1>7, <1>8, ListedChange

\* A status that changes nothing is listed as it is.
LEMMA ReadUnchanged ==
  ASSUME IInv, NEW h \in Connections, ReadStatus(h), UNCHANGED <<toolServers, reader, overlapped>>
  PROVE  \E i \in DOMAIN toolServers'[h[2]] :
           toolServers'[h[2]][i].ts = h[1] /\ toolServers'[h[2]][i].ver = sent[h][1].ver
<1>1. reader[h] = Idle /\ DOMAIN reader = Connections
  BY DEF IInv, TypeOK, ServerTypes, ReadStatus, NextFrame
<1>2. \A i \in Nat : reader' # [reader EXCEPT ![h] = [at |-> "updated", slot |-> i]]
  BY <1>1 DEF Idle
<1> DEFINE s == toolServers[h[2]]
           ver == sent[h][1].ver
<1>3. \E i \in DOMAIN s : s[i].ts = h[1] /\ s[i].ver = ver
  <2>1. \/ \E i \in DOMAIN s : s[i].ts = h[1] /\ s[i].ver = ver
        \/ \E i \in Nat \ {0} : reader' = [reader EXCEPT ![h] = [at |-> "updated", slot |-> i]]
    <3>1. Head(sent[h]) = sent[h][1]
      <4>1. sent[h] \in Seq(Frames) BY DEF IInv, TypeOK, NetTypes
      <4>2. sent[h] # << >> BY DEF ReadStatus, NextFrame
      <4> QED BY <4>1, <4>2, TailFacts
    <3>2. DOMAIN s \subseteq Nat \ {0} /\ Len(s) + 1 \in Nat \ {0}
      <4>1. s \in Seq(Entry) BY ConnectionFacts DEF IInv, TypeOK, ServerTypes
      <4> HIDE DEF s
      <4> QED BY <4>1, LenProperties
    <3>3. \/ \E i \in DOMAIN s : s[i].ts = h[1] /\ s[i].ver = Head(sent[h]).ver
          \/ \E i \in DOMAIN s \cup {Len(s) + 1} :
               reader' = [reader EXCEPT ![h] = [at |-> "updated", slot |-> i]]
      BY DEF ReadStatus, Slots, At
    <3> HIDE DEF s
    <3> QED BY <3>1, <3>2, <3>3
  <2> QED BY <1>2, <2>1
<1> QED BY <1>3

LEMMA OnItsWayKept ==
  ASSUME IInv, [Next]_vars
  PROVE  OnItsWay'
<1> SUFFICES ASSUME NEW l \in ServerLinks, Pending(l)' PROVE LatestSeen(l)'
  BY DEF OnItsWay, Pending
<1> DEFINE h == Current(l)
           q == framesQueue[l]
           s == sent[h]
<1>0. /\ TypeOK /\ NetTypes /\ InfoTypes /\ l \in Links /\ l[2] \in Coordinators /\ l[1] \in ToolServers
      /\ conn[l] # 0 /\ h \in Connections /\ h[1] = l[1] /\ h[2] = l[2]
      /\ conn'[l] # 0 /\ Current(l)' = h
      /\ handlers[h] = "open" /\ handlers'[h] = "open"
      /\ QuantSend(l) \/ Pending(l)
      /\ linkInfo'[l] = linkInfo[l] /\ linkInfo[l] \in Infos
  BY PendingBefore, PendingInfo, ServerLinkFacts, LinkFacts, CurrentFacts
     DEF IInv, TypeOK, InfoTypes, ServerLinks
<1>1. q \in Seq(Frames) /\ s \in Seq(Frames) BY <1>0 DEF NetTypes
<1>2. CASE QuantSend(l)
  <2> DEFINE f == [type |-> "status", ver |-> linkInfo[l]]
  <2>1. framesQueue'[l] = Append(q, f) BY <1>0, <1>2 DEF QuantSend, NetTypes
  <2>2. f \in Frames BY <1>0 DEF Frames
  <2>3. framesQueue'[l] # << >> /\ Last(framesQueue'[l]) = f BY <1>1, <2>1, <2>2, AppendFacts
  <2> QED BY <1>0, <2>3 DEF LatestSeen
<1>3. CASE ~ QuantSend(l)
  <2>1. LatestSeen(l) BY <1>0, <1>3 DEF IInv, OnItsWay, Pending
  <2>2. \/ framesQueue'[l] = q
        \/ Write(l) /\ framesQueue'[l] = << >>
    <3>1. ASSUME NEW m \in Links, QuantSend(m) \/ QuantRequest(m) PROVE framesQueue'[l] = q
      <4>1. m # l
        <5>1. CASE QuantSend(m) BY <1>3, <5>1
        <5>2. CASE QuantRequest(m) BY <1>0, <5>2, ServerLinkFacts DEF QuantRequest
        <5> QED BY <3>1, <5>1, <5>2
      <4> QED BY <1>0, <3>1, <4>1 DEF QuantSend, QuantRequest, NetTypes
    <3>2. ASSUME NEW m \in Links, Write(m)
          PROVE  framesQueue'[l] = q \/ (Write(l) /\ framesQueue'[l] = << >>)
      BY <1>0, <3>2 DEF Write, NetTypes
    <3>3. ASSUME NEW c \in Clients, NEW finished \in BOOLEAN, SendSession(c, finished)
          PROVE  framesQueue'[l] = q
      <4>1. l[1] # c BY <1>0, CoordinatorAssumption
      <4> QED BY <1>0, <3>3, <4>1 DEF SendSession
    <3> QED BY <3>1, <3>2, <3>3, QueuesChange
  <2>3. \/ sent'[h] = s
        \/ Write(l) /\ q # << >> /\ sent'[h] = s \o q
        \/ ReadStatus(h)
    <3>1. ASSUME NEW m \in Links, Write(m)
          PROVE  sent'[h] = s \/ (Write(l) /\ q # << >> /\ sent'[h] = s \o q)
      <4>1. CASE m = l BY <1>0, <3>1, <4>1 DEF Write, NetTypes
      <4>2. CASE m # l
        <5>1. Current(m) # h BY <1>0, <3>1, <4>2, CurrentFacts DEF Write, ClientState
        <5> QED BY <1>0, <3>1, <5>1 DEF Write, NetTypes
      <4> QED BY <4>1, <4>2
    <3>2. ASSUME NEW g \in Connections, Break(g) PROVE sent'[h] = s
      BY <1>0, <3>2 DEF Break, NetTypes
    <3>3. ASSUME NEW g \in Connections, ReadStatus(g), g # h PROVE sent'[h] = s
      <4>1. sent' = [sent EXCEPT ![g] = Tail(@)] BY <3>3 DEF ReadStatus, NextFrame
      <4> QED BY <1>0, <3>3, <4>1 DEF NetTypes
    <3>4. ASSUME NEW g \in Connections, ReadRequest(g) \/ ReadSession(g) PROVE sent'[h] = s
      <4>1. g[1] \in Clients /\ sent' = [sent EXCEPT ![g] = Tail(@)]
        BY <3>4, RequestReadFacts, SessionReadFacts
      <4>2. g # h BY <1>0, <4>1, CoordinatorAssumption
      <4> QED BY <1>0, <4>1, <4>2 DEF NetTypes
    <3>5. ASSUME NEW k \in Coordinators, Crash(k) PROVE sent'[h] = s
      BY <1>0, <3>5, CrashFacts
    <3> QED BY <3>1, <3>2, <3>3, <3>4, <3>5, SentChange
  <2>4. CASE Write(l)
    <3>1. q # << >> /\ framesQueue'[l] = << >> /\ sent'[h] = s \o q
      BY <1>0, <2>4 DEF Write, NetTypes
    <3>2. Last(q).ver = linkInfo[l] BY <2>1, <3>1 DEF LatestSeen
    <3>3. sent'[h] # << >> /\ Last(sent'[h]) = Last(q) BY <1>1, <3>1, ConcatLast
    <3> QED BY <1>0, <3>1, <3>2, <3>3 DEF LatestSeen
  <2>5. CASE ~ Write(l) /\ ReadStatus(h)
    <3>1. framesQueue'[l] = q BY <2>2, <2>5
    <3>0. s # << >> /\ sent' = [sent EXCEPT ![h] = Tail(@)] BY <1>0, <2>5 DEF ReadStatus, NextFrame
    <3>2. s # << >> /\ sent'[h] = Tail(s) BY <1>0, <3>0 DEF NetTypes
    <3>3. CASE q # << >> BY <1>0, <2>1, <3>1, <3>3 DEF LatestSeen
    <3>4. CASE q = << >> /\ Tail(s) # << >>
      <4>1. Last(Tail(s)) = Last(s) BY <1>1, <3>2, <3>4, TailLast
      <4> QED BY <1>0, <2>1, <3>1, <3>2, <3>4, <4>1 DEF LatestSeen
    <3>5. CASE q = << >> /\ Tail(s) = << >>
      <4>1. Last(s) = s[1] BY <1>1, <3>2, <3>5, TailLast
      <4>2. s[1].ver = linkInfo[l] BY <2>1, <3>2, <3>5, <4>1 DEF LatestSeen
      <4>3. \E i \in DOMAIN toolServers'[h[2]] :
              toolServers'[h[2]][i].ts = h[1] /\ toolServers'[h[2]][i].ver = s[1].ver
        <5>1. CASE UNCHANGED <<toolServers, reader, overlapped>> BY <2>5, <5>1, <1>0, ReadUnchanged
        <5>2. CASE ~ UNCHANGED <<toolServers, reader, overlapped>>
          <6>1. PICK i \in DOMAIN toolServers'[h[2]] :
                  toolServers'[h[2]][i] = [ts |-> h[1], ver |-> s[1].ver, handler |-> None]
            BY <1>0, <2>5, <5>2, UpdateEntries
          <6> QED BY <6>1
        <5> QED BY <5>1, <5>2
      <4>4. IsListed(l[2], l[1], linkInfo[l])' BY <1>0, <4>2, <4>3 DEF IsListed, ToSet
      <4> QED BY <1>0, <3>1, <3>2, <3>5, <4>4 DEF LatestSeen
    <3> QED BY <3>3, <3>4, <3>5
  <2>6. CASE ~ Write(l) /\ ~ ReadStatus(h)
    <3>1. framesQueue'[l] = q /\ sent'[h] = s BY <2>2, <2>3, <2>6
    <3>2. IsListed(l[2], l[1], linkInfo[l]) => IsListed(l[2], l[1], linkInfo[l])'
      <4> SUFFICES ASSUME IsListed(l[2], l[1], linkInfo[l]) PROVE IsListed(l[2], l[1], linkInfo[l])'
        OBVIOUS
      <4> DEFINE v == linkInfo[l]
      <4>1. \A v1 : IsListed(l[2], l[1], v1) => (IsListed(l[2], l[1], v1))' BY <2>6, PendingListed
      <4> QED BY <1>0, <4>1 DEF IsListed
    <3> QED BY <1>0, <2>1, <3>1, <3>2 DEF LatestSeen
  <2> QED BY <2>4, <2>5, <2>6
<1> QED BY <1>2, <1>3

LEMMA AnnouncedFollows == IInv => AnnouncedIsListed
<1> SUFFICES ASSUME IInv, NEW l \in ToolServers \X Coordinators, Announced(l),
                    Current(l) \notin doubled, l[2] \notin dangled, l \notin missed
             PROVE  IsListed(l[2], l[1], info[l[1]])
  BY DEF AnnouncedIsListed
<1>1. l \in ServerLinks /\ l \in Links /\ conn[l] # 0
  BY ServerLinkFacts DEF ServerLinks, Announced, ClientState
<1>2. IsListed(l[2], l[1], linkInfo[l])
  BY <1>1 DEF IInv, OnItsWay, Announced, LatestSeen
<1>3. linkInfo[l] = info[l[1]] BY <1>1 DEF IInv, WorkersRun, UpToDate
<1> QED BY <1>2, <1>3

(***************************************************************************)
(* The choice of a coordinator.                                            *)
(***************************************************************************)
LEMMA ChosenKept ==
  ASSUME IInv, [Next]_vars
  PROVE  Chosen'
<1>0. /\ TypeOK /\ WorkerTypes /\ HistoryTypes /\ Chosen /\ UNCHANGED deployment
      /\ \A l \in Links : IsRunning(l) => IsRunning(l)'
  BY DeploymentStays, WorkersRunKept DEF IInv, TypeOK
<1>1. \A c \in Processes : /\ Len(Hosts(c)) \in Nat /\ Hosts(c)' = Hosts(c)
                           /\ running[c] \in Nat /\ pushed[c] \in Nat
                           /\ pushed[c] <= running[c] /\ running[c] <= Len(Hosts(c))
  BY <1>0, DeploymentFacts DEF Hosts, WorkerTypes
<1>2. ASSUME NEW c \in Clients, pushed[c] = Len(Hosts(c))
      PROVE  pushed'[c] = pushed[c] /\ running'[c] = running[c]
  <2>1. c \in Processes /\ running[c] = pushed[c] /\ running[c] = Len(Hosts(c))
    BY <1>1, <1>2 DEF Processes
  <2>2. ASSUME NEW p \in Processes, StartWorker(p) \/ PushWorker(p)
        PROVE  pushed'[c] = pushed[c] /\ running'[c] = running[c]
    <3>1. CASE StartWorker(p)
      <4>1. running[p] < Len(Hosts(p)) BY <3>1 DEF StartWorker
      <4>2. p # c BY <1>1, <2>1, <4>1
      <4>3. running'[c] = running[c] BY <1>0, <2>1, <3>1, <4>2 DEF StartWorker, WorkerTypes
      <4> QED BY <3>1, <4>3 DEF StartWorker
    <3>2. CASE PushWorker(p)
      <4>1. pushed[p] < running[p] BY <3>2 DEF PushWorker
      <4>2. p # c
        <5>1. running[c] \in Nat /\ pushed[c] = running[c] BY <1>1, <2>1
        <5>2. ~ (running[c] < running[c]) BY <5>1
        <5> QED BY <4>1, <5>1, <5>2, Zenon
      <4>3. pushed'[c] = pushed[c] BY <1>0, <2>1, <3>2, <4>2 DEF PushWorker, WorkerTypes
      <4> QED BY <3>2, <4>3 DEF PushWorker
    <3> QED BY <2>2, <3>1, <3>2
  <2>3. ASSUME NEW l \in Links, ApplyList(l)
        PROVE  pushed'[c] = pushed[c] /\ running'[c] = running[c]
    BY <2>3 DEF ApplyList
  <2> QED BY <2>2, <2>3, WorkersChange
<1>3. ASSUME NEW l \in Links, ApplyList(l), l[1] \notin exclusive
      PROVE  /\ exclusive' = exclusive \cup {l[1]} /\ stopped' = stopped \cup Extra(l)
             /\ early' = IF pushed[l[1]] < Len(Hosts(l[1])) THEN early \cup {l[1]} ELSE early
             /\ pushed' = pushed /\ running' = running /\ l[1] \in Clients /\ IsRunning(l)
  BY <1>3 DEF ApplyList, StopExtraClients, IInv, WorkersRun
<1>4. ASSUME NEW l \in Links, ApplyList(l), l[1] \in exclusive
      PROVE  UNCHANGED <<exclusive, stopped, early>>
  BY <1>4 DEF ApplyList, StopExtraClients
<1>5. ASSUME NEW p \in Processes, StartWorker(p) \/ PushWorker(p)
      PROVE  UNCHANGED <<exclusive, stopped, early>>
  BY <1>5 DEF StartWorker, PushWorker
<1>6. ASSUME NEW l \in stopped' PROVE l[1] \in exclusive'
  <2>1. ASSUME NEW m \in Links, ApplyList(m), m[1] \notin exclusive PROVE l[1] \in exclusive'
    BY <1>0, <1>3, <1>6, <2>1 DEF Chosen, Extra
  <2> QED BY <1>0, <1>4, <1>5, <1>6, <2>1, WorkersChange DEF Chosen
<1>7. ASSUME NEW c \in exclusive'
      PROVE  \E l \in {c} \X Coordinators :
               /\ IsRunning(l)' /\ l \notin stopped'
               /\ c \notin early' =>
                    /\ pushed'[c] = Len(Hosts(c))'
                    /\ \A m \in {c} \X Coordinators : IsRunning(m)' /\ m # l => m \in stopped'
  <2>1. CASE c \in exclusive
    <3>1. PICK l \in {c} \X Coordinators :
            /\ IsRunning(l) /\ l \notin stopped
            /\ c \notin early =>
                 /\ pushed[c] = Len(Hosts(c))
                 /\ \A m \in {c} \X Coordinators : IsRunning(m) /\ m # l => m \in stopped
      BY <1>0, <2>1 DEF Chosen
    <3>2. c \in Clients /\ c \in Processes BY <1>0, <2>1 DEF WorkerTypes, Processes
    <3>3. l \in Links /\ l[1] = c BY <3>2 DEF Links
    <3>4. /\ stopped \subseteq stopped' /\ early \subseteq early' /\ l \notin stopped'
      <4>1. ASSUME NEW m \in Links, ApplyList(m), m[1] \notin exclusive
            PROVE  /\ stopped \subseteq stopped' /\ early \subseteq early' /\ l \notin stopped'
        <5>1. l \notin Extra(m) BY <2>1, <3>3, <4>1 DEF Extra
        <5> QED BY <1>3, <3>1, <4>1, <5>1
      <4> QED BY <1>4, <1>5, <3>1, <4>1, WorkersChange
    <3>5. ASSUME c \notin early'
          PROVE  /\ pushed'[c] = Len(Hosts(c))'
                 /\ \A m \in {c} \X Coordinators : IsRunning(m)' /\ m # l => m \in stopped'
      <4>1. pushed[c] = Len(Hosts(c)) BY <3>1, <3>4, <3>5
      <4>2. pushed'[c] = pushed[c] /\ running'[c] = running[c] BY <1>2, <3>2, <4>1
      <4>3. Hosts(c)' = Hosts(c) BY <1>1, <3>2
      <4>4. ASSUME NEW m \in {c} \X Coordinators, IsRunning(m)', m # l PROVE m \in stopped'
        <5>1. m[1] = c OBVIOUS
        <5>2. IsRunning(m) BY <4>2, <4>3, <4>4, <5>1 DEF IsRunning
        <5> QED BY <3>1, <3>4, <3>5, <4>4, <5>2
      <4> QED BY <4>1, <4>2, <4>3, <4>4
    <3> QED BY <1>0, <3>1, <3>3, <3>4, <3>5
  <2>2. CASE c \notin exclusive
    <3>1. PICK l \in Links : ApplyList(l) /\ l[1] = c
      BY <1>3, <1>4, <1>5, <1>7, <2>2, WorkersChange
    <3>2. /\ stopped' = stopped \cup Extra(l)
          /\ early' = IF pushed[c] < Len(Hosts(c)) THEN early \cup {c} ELSE early
          /\ pushed' = pushed /\ running' = running /\ IsRunning(l)
      BY <1>3, <2>2, <3>1
    <3>3. l \in {c} \X Coordinators /\ c \in Processes BY <3>1, LinkFacts DEF Links
    <3>4. l \notin stopped' BY <1>0, <2>2, <3>1, <3>2 DEF Chosen, Extra
    <3>5. Hosts(c)' = Hosts(c) BY <1>1, <3>3
    <3>6. ASSUME c \notin early'
          PROVE  /\ pushed'[c] = Len(Hosts(c))'
                 /\ \A m \in {c} \X Coordinators : IsRunning(m)' /\ m # l => m \in stopped'
      <4>1. pushed[c] = Len(Hosts(c)) /\ running[c] = pushed[c] BY <1>1, <3>2, <3>3, <3>6
      <4>2. ASSUME NEW m \in {c} \X Coordinators, IsRunning(m)', m # l PROVE m \in stopped'
        <5>1. m[1] = c OBVIOUS
        <5>2. IsPushed(m) BY <3>2, <3>5, <4>1, <4>2, <5>1 DEF IsRunning, IsPushed
        <5> QED BY <3>1, <3>2, <4>2, <5>2 DEF Extra
      <4> QED BY <3>2, <3>5, <4>1, <4>2
    <3> QED BY <1>0, <3>1, <3>2, <3>3, <3>4, <3>6
  <2> QED BY <2>1, <2>2
<1> QED BY <1>6, <1>7 DEF Chosen

LEMMA OneChosenFollows == IInv => ExactlyOneChosen
<1> SUFFICES ASSUME IInv, NEW c \in exclusive
             PROVE  LET left == {l \in {c} \X Coordinators : IsRunning(l) /\ l \notin stopped}
                    IN left # {} /\ (c \notin early => Cardinality(left) = 1)
  BY DEF ExactlyOneChosen
<1> DEFINE left == {l \in {c} \X Coordinators : IsRunning(l) /\ l \notin stopped}
<1>1. PICK l \in {c} \X Coordinators :
        /\ IsRunning(l) /\ l \notin stopped
        /\ c \notin early => \A m \in {c} \X Coordinators : IsRunning(m) /\ m # l => m \in stopped
  BY DEF IInv, Chosen
<1>2. l \in left BY <1>1
<1>3. ASSUME c \notin early PROVE Cardinality(left) = 1
  <2>1. left = {l} BY <1>1, <1>2, <1>3
  <2> QED BY <2>1, FS_Singleton
<1> QED BY <1>2, <1>3

(***************************************************************************)
(* What the clients of a coordinator know of its list.                     *)
(***************************************************************************)
\* What the thread of a handler does next.
LEMMA ReaderStep ==
  ASSUME IInv, [Next]_vars, NEW g \in Connections, reader'[g] # reader[g]
  PROVE  \/ reader[g] = Idle /\ (ReadStatus(g) \/ ReadRequest(g))
         \/ /\ MarkHandler(g) \/ MarkDangling(g)
            /\ reader[g].at \in {"updated", "dangling"} /\ reader'[g] = [at |-> "marked"]
         \/ /\ CopyList(g) /\ reader[g].at = "marked"
            /\ reader'[g] = [at |-> "copied", list |-> InfosOf(g[2])]
         \/ QueueFrameToAll(g) /\ reader[g].at = "copied" /\ reader'[g] = Idle
         \/ Reply(g) /\ reader[g].at = "replying" /\ reader'[g] = Idle
         \/ reader[g].at = "updated" /\ reader'[g].at \in {"updated", "dangling"}
         \/ Crash(g[2]) /\ reader'[g] = Idle
<1>0. reader \in [Connections -> ReaderStates] BY DEF IInv, TypeOK, ServerTypes
<1>1. ASSUME NEW h \in Connections, ReadStatus(h) PROVE reader[g] = Idle /\ ReadStatus(g)
  <2>1. reader[h] = Idle BY <1>1 DEF ReadStatus, NextFrame
  <2>2. ~ UNCHANGED <<toolServers, reader, overlapped>> OBVIOUS
  <2>3. g = h BY <1>1, <2>2, UpdateEntries
  <2> QED BY <1>1, <2>1, <2>3
<1>2. ASSUME NEW h \in Connections, MarkHandler(h) \/ MarkDangling(h)
      PROVE  /\ MarkHandler(g) \/ MarkDangling(g)
             /\ reader[g].at \in {"updated", "dangling"} /\ reader'[g] = [at |-> "marked"]
  <2>1. g = h /\ reader'[h] = [at |-> "marked"] BY <1>2, MarkEntries
  <2> QED BY <1>2, <2>1 DEF MarkHandler, MarkDangling
<1>3. ASSUME NEW h \in Connections, CopyList(h)
      PROVE  /\ CopyList(g) /\ reader[g].at = "marked"
             /\ reader'[g] = [at |-> "copied", list |-> InfosOf(g[2])]
  <2>1. reader' = [reader EXCEPT ![h] = [at |-> "copied", list |-> InfosOf(h[2])]]
        /\ reader[h].at = "marked"
    BY <1>3 DEF CopyList, At
  <2>2. g = h BY <1>0, <2>1
  <2> QED BY <1>0, <1>3, <2>1, <2>2
<1>4. ASSUME NEW h \in Connections, QueueFrameToAll(h)
      PROVE  QueueFrameToAll(g) /\ reader[g].at = "copied" /\ reader'[g] = Idle
  <2>1. reader' = [reader EXCEPT ![h] = Idle] /\ reader[h].at = "copied"
    BY <1>4 DEF QueueFrameToAll, At
  <2>2. g = h BY <1>0, <2>1
  <2> QED BY <1>0, <1>4, <2>1, <2>2
<1>5. ASSUME NEW h \in Connections, Reply(h)
      PROVE  Reply(g) /\ reader[g].at = "replying" /\ reader'[g] = Idle
  <2>1. reader' = [reader EXCEPT ![h] = Idle] /\ reader[h].at = "replying"
    BY <1>5 DEF Reply, At
  <2>2. g = h BY <1>0, <2>1
  <2> QED BY <1>0, <1>5, <2>1, <2>2
<1>6. ASSUME NEW h \in Connections, ReadRequest(h) PROVE reader[g] = Idle /\ ReadRequest(g)
  <2>1. /\ reader' = [reader EXCEPT ![h] = [at |-> "replying", list |-> InfosOf(h[2])]]
        /\ reader[h] = Idle
    BY <1>6 DEF ReadRequest, At, NextFrame
  <2>2. g = h BY <1>0, <2>1
  <2> QED BY <1>6, <2>1, <2>2
<1>7. ASSUME NEW h \in Connections, EraseWorker(h)
      PROVE  reader[g].at = "updated" /\ reader'[g].at \in {"updated", "dangling"}
  <2>1. ~ UNCHANGED <<toolServers, reader>> OBVIOUS
  <2>2. PICK first \in DOMAIN toolServers[h[2]] :
          \/ reader'[g] = reader[g]
          \/ /\ reader[g].at = "updated"
             /\ \/ reader'[g] = [at |-> "dangling"]
                \/ reader'[g] = [at |-> "updated", slot |-> reader[g].slot - 1]
    BY <1>7, <2>1, EraseEntries
  <2> QED BY <2>2
<1>8. ASSUME NEW k \in Coordinators, Crash(k) PROVE Crash(g[2]) /\ reader'[g] = Idle
  BY <1>8, CrashFacts
<1> QED BY <1>1, <1>2, <1>3, <1>4, <1>5, <1>6, <1>7, <1>8, ServersChange

\* A coordinator's list grows, or an entry of it changes, only when a status is read.
Shrinks(k) ==
  \A i \in DOMAIN toolServers'[k] : \E j \in DOMAIN toolServers[k] :
    /\ toolServers[k][j].ts = toolServers'[k][i].ts
    /\ toolServers[k][j].ver = toolServers'[k][i].ver

LEMMA ListedShrinks ==
  ASSUME IInv, [Next]_vars, NEW k \in Coordinators,
         \A h \in Connections : ReadStatus(h) /\ h[2] = k =>
           UNCHANGED <<toolServers, reader, overlapped>>
  PROVE  Shrinks(k)
<1>1. CASE toolServers'[k] = toolServers[k] BY <1>1 DEF Shrinks
<1>2. ASSUME NEW h \in Connections, ReadStatus(h) PROVE toolServers'[k] = toolServers[k]
  BY <1>2, UpdateEntries
<1>3. ASSUME NEW h \in Connections, MarkHandler(h) \/ MarkDangling(h) PROVE Shrinks(k)
  <2>1. /\ DOMAIN toolServers'[k] = DOMAIN toolServers[k]
        /\ \A i \in DOMAIN toolServers[k] :
             /\ toolServers'[k][i].ts = toolServers[k][i].ts
             /\ toolServers'[k][i].ver = toolServers[k][i].ver
    BY <1>3, MarkEntries
  <2> QED BY <2>1 DEF Shrinks
<1>4. ASSUME NEW h \in Connections, EraseWorker(h) PROVE Shrinks(k)
  <2>1. CASE UNCHANGED <<toolServers, reader>> BY <1>1, <2>1
  <2>2. CASE ~ UNCHANGED <<toolServers, reader>> /\ k # h[2]
    <3>1. toolServers'[k] = toolServers[k] BY <1>4, <2>2, EraseElsewhere
    <3> QED BY <1>1, <3>1
  <2>3. CASE ~ UNCHANGED <<toolServers, reader>> /\ k = h[2]
    <3> DEFINE s == toolServers[k]
    <3>1. PICK first \in DOMAIN s :
            /\ DOMAIN s = 1 .. Len(s) /\ Len(s) \in Nat \ {0}
            /\ DOMAIN toolServers'[k] = 1 .. Len(s) - 1
            /\ \A j \in 1 .. Len(s) - 1 :
                 toolServers'[k][j] = IF j < first THEN s[j] ELSE s[j + 1]
      <4>1. PICK first \in DOMAIN s : ErasedAt(k, h, first) BY <1>4, <2>3, EraseHere
      <4> QED BY <4>1 DEF ErasedAt
    <3> HIDE DEF s
    <3>2. ASSUME NEW i \in DOMAIN toolServers'[k]
          PROVE  \E j \in DOMAIN s : toolServers'[k][i] = s[j]
      <4>1. i \in DOMAIN s /\ i + 1 \in DOMAIN s BY <3>1
      <4> QED BY <3>1, <4>1
    <3> QED BY <2>3, <3>2 DEF Shrinks, s
  <2> QED BY <2>1, <2>2, <2>3
<1>5. ASSUME NEW m \in Coordinators, Crash(m) PROVE Shrinks(k)
  <2>1. CASE m = k
    <3>1. DOMAIN toolServers'[k] = {} BY <1>5, <2>1, CrashFacts
    <3> QED BY <3>1 DEF Shrinks
  <2>2. CASE m # k
    <3>1. toolServers'[k] = toolServers[k] BY <1>5, <2>2, CrashFacts
    <3> QED BY <1>1, <3>1
  <2> QED BY <2>1, <2>2
<1>6. CASE UNCHANGED <<toolServers, overlapped, dangled>> BY <1>1, <1>6
<1> QED BY <1>1, <1>2, <1>3, <1>4, <1>5, <1>6, ListedChange

\* A connection that both ends have was there before, unless it was just made.
LEMMA ServedBefore ==
  ASSUME IInv, [Next]_vars, NEW l \in Links, Served(l)', ~ Connect(l)
  PROVE  /\ Served(l) /\ conn'[l] = conn[l] /\ Current(l)' = Current(l)
         /\ handlers[Current(l)] = "open" /\ handlers'[Current(l)] = "open"
         /\ Current(l) \in Connections /\ Current(l)[1] = l[1] /\ Current(l)[2] = l[2]
         /\ LinkOf(Current(l)) = l
         /\ ~ Crash(l[2])
<1>0. TypeOK /\ ConnTypes /\ NetTypes /\ conn'[l] # 0 BY DEF IInv, TypeOK, Served
<1>1. conn'[l] = conn[l]
  <2>1. ASSUME NEW m \in Links, Connect(m) PROVE conn'[l] = conn[l]
    BY <1>0, <2>1 DEF Connect, ConnTypes
  <2>2. ASSUME NEW m \in Links, LoseConnection(m) PROVE conn'[l] = conn[l]
    BY <1>0, <2>2 DEF LoseConnection, ConnTypes
  <2>3. ASSUME NEW m \in Links, ApplyList(m) PROVE conn'[l] = conn[l]
    BY <1>0, <2>3 DEF ApplyList, StopExtraClients, ConnTypes
  <2> QED BY <2>1, <2>2, <2>3, ConnsChange
<1>2. Current(l)' = Current(l) BY <1>1 DEF Current
<1>3. /\ Current(l) \in Connections /\ LinkOf(Current(l)) = l /\ Current(l)[2] = l[2]
      /\ Current(l)[1] = l[1]
  BY <1>0, <1>1, CurrentFacts
<1>4. handlers'[Current(l)] = "open" BY <1>2 DEF Served
<1>5. handlers[Current(l)] = "open"
  <2>1. ASSUME NEW m \in Links, Connect(m) PROVE handlers[Current(l)] = "open"
    <3>1. \E h \in Connections : LinkOf(h) = m /\ handlers' = [handlers EXCEPT ![h] = "open"]
      BY <2>1, ConnectFacts
    <3> QED BY <1>3, <1>4, <2>1, <3>1
  <2>2. ASSUME NEW h \in Connections, Break(h) \/ EraseWorker(h) PROVE handlers[Current(l)] = "open"
    BY <1>0, <1>3, <1>4, <2>2 DEF Break, EraseWorker, NetTypes
  <2>3. ASSUME NEW k \in Coordinators, Crash(k) PROVE handlers[Current(l)] = "open"
    BY <1>3, <1>4, <2>3 DEF Crash
  <2> QED BY <1>4, <2>1, <2>2, <2>3, HandlersChange
<1>6. ~ Crash(l[2]) BY <1>3, <1>4 DEF Crash
<1> QED BY <1>0, <1>1, <1>2, <1>3, <1>4, <1>5, <1>6 DEF Served

\* What a client's link does with the lists of its connection.
ListStep(l) ==
  LET c == Current(l)
  IN \/ lists'[c] = lists[c] /\ reading'[l] = reading[l]
     \/ /\ lists[c] # << >> /\ lists'[c] = Tail(lists[c])
        /\ reading[l] = None /\ reading'[l] = Head(lists[c])
     \/ /\ ApplyList(l) /\ lists'[c] = lists[c]
        /\ reading[l] # None /\ reading'[l] = None
     \/ \E g \in Connections :
          /\ g[2] = l[2] /\ reader[g].at \in {"copied", "replying"}
          /\ lists'[c] = Append(lists[c], reader[g].list) /\ reading'[l] = reading[l]

LEMMA ListSteps ==
  ASSUME IInv, [Next]_vars, NEW l \in ClientLinks, Served(l)', ~ Connect(l)
  PROVE  /\ ListStep(l)
         /\ \A g \in Connections : QueueFrameToAll(g) /\ g[2] = l[2] =>
              /\ lists'[Current(l)] = Append(lists[Current(l)], reader[g].list)
              /\ reading'[l] = reading[l]
<1> DEFINE c == Current(l)
<1>0. /\ TypeOK /\ ConnTypes /\ NetTypes /\ ClientTypes
      /\ l \in Links /\ l[1] \in Clients
      /\ conn[l] # 0 /\ conn'[l] = conn[l] /\ conn'[l] # 0
      /\ c \in Connections /\ c[1] = l[1] /\ c[2] = l[2] /\ LinkOf(c) = l
      /\ handlers[c] = "open"
  BY ServedBefore, ServerLinkFacts DEF IInv, TypeOK, Served
<1> HIDE DEF c
<1>1. ASSUME NEW m \in Links, Connect(m) PROVE lists'[c] = lists[c] /\ reading'[l] = reading[l]
  <2> DEFINE h == <<m[1], m[2], connects[m] + 1>>
  <2>1. h[1] = m[1] /\ h[2] = m[2] /\ m # l /\ m = <<m[1], m[2]>> /\ l = <<l[1], l[2]>>
    BY <1>0, <1>1, LinkFacts
  <2>2. h # c BY <1>0, <2>1
  <2>3. \/ lists' = lists
        \/ lists' = [lists EXCEPT ![h] = <<InfosOf(m[2])>>]
    BY <1>1 DEF Connect
  <2> HIDE DEF h
  <2> QED BY <1>0, <1>1, <2>2, <2>3 DEF Connect, NetTypes
<1>2. ASSUME NEW m \in Links, LoseConnection(m)
      PROVE  lists'[c] = lists[c] /\ reading'[l] = reading[l]
  <2>1. conn[m] # 0 /\ lists' = [lists EXCEPT ![Current(m)] = << >>] /\ m # l
    BY <1>0, <1>2 DEF LoseConnection, ClientState, ConnTypes
  <2>2. Current(m) # c BY <1>0, <2>1, CurrentFacts
  <2> QED BY <1>0, <1>2, <2>1, <2>2 DEF LoseConnection, NetTypes
<1>3. ASSUME NEW m \in Links, ReadList(m), m # l
      PROVE  lists'[c] = lists[c] /\ reading'[l] = reading[l]
  <2>1. /\ conn[m] # 0 /\ lists' = [lists EXCEPT ![Current(m)] = Tail(@)]
        /\ reading' = [reading EXCEPT ![m] = Head(lists[Current(m)])]
    BY <1>3 DEF ReadList, ClientState
  <2>2. Current(m) # c BY <1>0, <1>3, <2>1, CurrentFacts
  <2> QED BY <1>0, <1>3, <2>1, <2>2 DEF NetTypes, ClientTypes
<1>4. ASSUME ReadList(l)
      PROVE  /\ lists[c] # << >> /\ lists'[c] = Tail(lists[c])
             /\ reading[l] = None /\ reading'[l] = Head(lists[c])
  BY <1>0, <1>4 DEF ReadList, NetTypes, ClientTypes, c
<1>5. ASSUME NEW m \in Links, ApplyList(m), m # l
      PROVE  lists'[c] = lists[c] /\ reading'[l] = reading[l]
  BY <1>0, <1>5 DEF ApplyList, NetTypes, ClientTypes
<1>6. ASSUME ApplyList(l)
      PROVE  lists'[c] = lists[c] /\ reading[l] # None /\ reading'[l] = None
  BY <1>0, <1>6 DEF ApplyList, NetTypes, ClientTypes
<1>7. ASSUME NEW m \in Links, QuantRequest(m) PROVE lists'[c] = lists[c] /\ reading'[l] = reading[l]
  BY <1>7 DEF QuantRequest
<1>8. ASSUME NEW g \in Connections, QueueFrameToAll(g)
      PROVE  /\ reading'[l] = reading[l] /\ reader[g].at = "copied"
             /\ g[2] = l[2] => lists'[c] = Append(lists[c], reader[g].list)
             /\ g[2] # l[2] => lists'[c] = lists[c]
  <2>1. reader[g].at = "copied" /\ reading' = reading BY <1>8 DEF QueueFrameToAll
  <2>2. g[1] \notin Clients BY <2>1, ReaderFacts, CoordinatorAssumption
  <2>3. g # c BY <1>0, <2>2
  <2> QED BY <1>0, <1>8, <2>1, <2>3 DEF QueueFrameToAll
<1>9. ASSUME NEW g \in Connections, Reply(g)
      PROVE  /\ reading'[l] = reading[l] /\ reader[g].at = "replying"
             /\ g = c => lists'[c] = Append(lists[c], reader[g].list)
             /\ g # c => lists'[c] = lists[c]
  <2>1. /\ lists' = [lists EXCEPT ![g] = Append(@, reader[g].list)] /\ reader[g].at = "replying"
        /\ reading' = reading
    BY <1>9 DEF Reply
  <2> QED BY <1>0, <2>1 DEF NetTypes
<1>10. ASSUME UNCHANGED <<lists, reading>> PROVE ListStep(l) BY <1>10 DEF ListStep
<1>11. ListStep(l)
  <2>1. ASSUME NEW m \in Links, Connect(m) \/ LoseConnection(m) \/ ReadList(m) \/ ApplyList(m)
                                \/ QuantRequest(m)
        PROVE  ListStep(l)
    BY <1>1, <1>2, <1>3, <1>4, <1>5, <1>6, <1>7, <2>1 DEF ListStep, c
  <2>2. ASSUME NEW g \in Connections, QueueFrameToAll(g) \/ Reply(g) PROVE ListStep(l)
    <3>1. CASE QueueFrameToAll(g) BY <1>8, <3>1 DEF ListStep, c
    <3>2. CASE Reply(g) BY <1>0, <1>9, <3>2 DEF ListStep, c
    <3> QED BY <2>2, <3>1, <3>2
  <2> QED BY <1>10, <2>1, <2>2, ListsChange, ClientsChange
<1> QED BY <1>8, <1>11 DEF c

\* What a client knows is updated by the lists it applies.
LEMMA CoordSteps ==
  ASSUME IInv, [Next]_vars, NEW c \in Clients
  PROVE  \/ coord'[c] = coord[c]
         \/ \E m \in Links : /\ ApplyList(m) /\ m[1] = c /\ reading[m] \in Lists
                             /\ coord'[c] = Updated(coord[c], reading[m])
<1>0. TypeOK /\ ClientTypes BY DEF IInv, TypeOK
<1>1. ASSUME NEW m \in Links, ApplyList(m)
      PROVE  \/ coord'[c] = coord[c]
             \/ /\ m[1] = c /\ reading[m] \in Lists
                /\ coord'[c] = Updated(coord[c], reading[m])
  <2>1. /\ reading[m] # None /\ coord' = [coord EXCEPT ![m[1]] = Updated(@, reading[m])]
    BY <1>1 DEF ApplyList
  <2> QED BY <1>0, <2>1 DEF ClientTypes
<1>2. ASSUME NEW m \in Links, QuantRequest(m) \/ LoseConnection(m) \/ ReadList(m)
      PROVE  coord' = coord
  BY <1>2 DEF QuantRequest, LoseConnection, ReadList
<1> QED BY <1>1, <1>2, ClientsChange

LEMMA UpdatedFacts ==
  ASSUME NEW known \in [ToolServers -> {0} \cup Infos], NEW list \in Lists
  PROVE  /\ Updated(known, list) \in [ToolServers -> {0} \cup Infos]
         /\ \A t \in ToolServers : known[t] # 0 => Updated(known, list)[t] # 0
         /\ \A t \in DOMAIN list : t \in ToolServers /\ Updated(known, list)[t] = list[t]
                                   /\ list[t] # 0
<1>1. PICK S \in SUBSET ToolServers : list \in [S -> Infos] BY DEF Lists
<1>2. \A t \in S : list[t] \in Infos /\ list[t] # 0 BY <1>1 DEF Infos
<1> QED BY <1>1, <1>2 DEF Updated

LEMMA ClientsAreToldKept ==
  ASSUME IInv, [Next]_vars
  PROVE  ClientsAreTold'
<1> SUFFICES ASSUME NEW l \in ClientLinks, Served(l)', NEW i \in DOMAIN toolServers'[l[2]], NEW t,
                    t = toolServers'[l[2]][i].ts
             PROVE  Told(l, t)'
  BY DEF ClientsAreTold
<1> DEFINE k == l[2]
<1>0. /\ TypeOK /\ NetTypes /\ ClientTypes /\ ServerTypes
      /\ l \in Links /\ l[1] \in Clients /\ k \in Coordinators /\ l = <<l[1], l[2]>>
  BY ServerLinkFacts, LinkFacts DEF IInv, TypeOK
<1>1. CASE Connect(l)
  <2> DEFINE h == <<l[1], l[2], connects[l] + 1>>
  <2>1. h \in Connections /\ Current(l)' = h BY <1>0, <1>1, ConnectFacts
  <2>2. lists' = [lists EXCEPT ![h] = <<InfosOf(k)>>] /\ toolServers' = toolServers
    BY <1>0, <1>1 DEF Connect
  <2> HIDE DEF h
  <2>3. lists'[h] = <<InfosOf(k)>> BY <1>0, <2>1, <2>2 DEF NetTypes
  <2>4. t \in DOMAIN InfosOf(k)
    <3>1. i \in DOMAIN toolServers[k] /\ t = toolServers[k][i].ts BY <2>2
    <3> QED BY <1>0, <3>1, InfosOfFacts
  <2>5. 1 \in DOMAIN lists'[h] /\ lists'[h][1] = InfosOf(k) BY <2>3
  <2> QED BY <2>1, <2>4, <2>5 DEF Told
<1>2. CASE ~ Connect(l)
  <2> DEFINE c == Current(l)
  <2>1. /\ Served(l) /\ Current(l)' = c /\ c \in Connections /\ c[2] = k /\ ~ Crash(k)
        /\ ListStep(l)
        /\ \A g \in Connections : QueueFrameToAll(g) /\ g[2] = k =>
             lists'[c] = Append(lists[c], reader[g].list)
    BY <1>0, <1>2, ServedBefore, ListSteps
  <2> HIDE DEF c
  <2>8. /\ coord'[l[1]][t] # 0 => Told(l, t)'
        /\ reading'[l] # None /\ t \in DOMAIN reading'[l] => Told(l, t)'
        /\ (\E n \in DOMAIN lists'[c] : t \in DOMAIN lists'[c][n]) => Told(l, t)'
        /\ \A g \in Connections :
             (g[2] = k /\ reader'[g].at \in {"updated", "dangling", "marked"}) => Told(l, t)'
        /\ \A g \in Connections :
             (g[2] = k /\ reader'[g].at = "copied" /\ t \in DOMAIN reader'[g].list) => Told(l, t)'
    BY <2>1 DEF Told, Changing
  <2>2. lists[c] \in Seq(Lists) BY <1>0, <2>1 DEF NetTypes
  <2>3. CASE \E h \in Connections : /\ ReadStatus(h) /\ h[2] = k
                                    /\ ~ UNCHANGED <<toolServers, reader, overlapped>>
    <3>1. PICK h \in Connections : /\ ReadStatus(h) /\ h[2] = k
                                   /\ ~ UNCHANGED <<toolServers, reader, overlapped>>
      BY <2>3
    <3>2. \E n \in DOMAIN toolServers'[h[2]] : reader'[h] = [at |-> "updated", slot |-> n]
      BY <3>1, UpdateEntries
    <3>3. reader'[h].at = "updated" BY <3>2
    <3> QED BY <2>8, <3>1, <3>3
  <2>4. CASE ~ \E h \in Connections : /\ ReadStatus(h) /\ h[2] = k
                                      /\ ~ UNCHANGED <<toolServers, reader, overlapped>>
    <3>1. Shrinks(k) BY <1>0, <2>4, ListedShrinks
    <3>2. PICK j \in DOMAIN toolServers[k] : toolServers[k][j].ts = t BY <3>1 DEF Shrinks
    <3>3. t \in ToolServers
      <4>1. toolServers[k] \in Seq(Entry) BY <1>0 DEF ServerTypes
      <4>2. toolServers[k][j] \in Entry BY <4>1, <3>2, LenProperties
      <4> QED BY <3>2, <4>2 DEF Entry
    <3>4. Told(l, t) BY <2>1, <3>2 DEF IInv, ClientsAreTold
    <3>5. CASE coord[l[1]][t] # 0
      <4>1. coord'[l[1]][t] # 0
        <5>1. coord[l[1]] \in [ToolServers -> {0} \cup Infos] BY <1>0 DEF ClientTypes
        <5> QED BY <1>0, <3>3, <3>5, <5>1, CoordSteps, UpdatedFacts
      <4> QED BY <2>8, <4>1
    <3>6. CASE reading[l] # None /\ t \in DOMAIN reading[l]
      <4>1. CASE reading'[l] = reading[l] BY <2>8, <3>6, <4>1
      <4>2. CASE ApplyList(l)
        <5>1. reading[l] \in Lists /\ coord[l[1]] \in [ToolServers -> {0} \cup Infos]
          BY <1>0, <3>6 DEF ClientTypes
        <5>2. coord'[l[1]] = Updated(coord[l[1]], reading[l])
          BY <1>0, <4>2 DEF ApplyList, ClientTypes
        <5>3. coord'[l[1]][t] # 0 BY <3>6, <5>1, <5>2, UpdatedFacts
        <5> QED BY <2>8, <5>3
      <4> QED BY <2>1, <3>6, <4>1, <4>2 DEF ListStep
    <3>7. CASE \E n \in DOMAIN lists[c] : t \in DOMAIN lists[c][n]
      <4>1. PICK n \in DOMAIN lists[c] : t \in DOMAIN lists[c][n] BY <3>7
      <4>2. CASE lists'[c] = lists[c] BY <2>8, <4>1, <4>2
      <4>3. CASE lists[c] # << >> /\ lists'[c] = Tail(lists[c]) /\ reading'[l] = Head(lists[c])
        <5>1. /\ Head(lists[c]) = lists[c][1] /\ lists[c][1] \in Lists
              /\ Len(lists[c]) \in Nat \ {0} /\ DOMAIN lists[c] = 1 .. Len(lists[c])
              /\ DOMAIN Tail(lists[c]) = 1 .. Len(lists[c]) - 1
              /\ \A a \in 1 .. Len(lists[c]) - 1 : Tail(lists[c])[a] = lists[c][a + 1]
          BY <2>2, <4>3, TailFacts, LenProperties
        <5>2. CASE n = 1
          <6>1. reading'[l] # None BY <4>3, <5>1, CoordinatorAssumption
          <6>2. reading'[l] = lists[c][n] BY <4>3, <5>1, <5>2
          <6> QED BY <2>8, <4>1, <6>1, <6>2
        <5>3. CASE n # 1
          <6>1. n - 1 \in 1 .. Len(lists[c]) - 1 /\ (n - 1) + 1 = n BY <4>1, <5>1, <5>3
          <6>2. n - 1 \in DOMAIN lists'[c] /\ lists'[c][n - 1] = lists[c][n]
            BY <4>3, <5>1, <6>1
          <6> QED BY <2>8, <4>1, <6>2
        <5> QED BY <5>2, <5>3
      <4>4. ASSUME NEW list \in Lists, lists'[c] = Append(lists[c], list)
            PROVE  Told(l, t)'
        <5>1. n \in DOMAIN lists'[c] /\ lists'[c][n] = lists[c][n]
          BY <2>2, <4>1, <4>4, AppendFacts
        <5> QED BY <2>8, <4>1, <5>1
      <4>5. \A g \in Connections : reader[g].at \in {"copied", "replying"} => reader[g].list \in Lists
        BY ReaderFacts
      <4> QED BY <2>1, <4>2, <4>3, <4>4, <4>5 DEF ListStep, c
    <3>8. CASE Changing(k)
      <4>1. PICK g \in Connections : g[2] = k /\ reader[g].at \in {"updated", "dangling", "marked"}
        BY <3>8 DEF Changing
      <4>2. CASE reader'[g].at \in {"updated", "dangling", "marked"}
        BY <2>8, <4>1, <4>2
      <4>3. CASE reader'[g].at \notin {"updated", "dangling", "marked"}
        <5>1. CopyList(g) /\ reader'[g] = [at |-> "copied", list |-> InfosOf(k)]
          <6>1. reader'[g] # reader[g] BY <4>1, <4>3
          <6>2. reader[g] # Idle /\ reader[g].at \notin {"copied", "replying"} BY <4>1 DEF Idle
          <6>3. reader'[g] # [at |-> "marked"] BY <4>3
          <6>4. ~ Crash(g[2]) /\ g[2] = k BY <2>1, <4>1
          <6> QED BY <4>3, <6>1, <6>2, <6>3, <6>4, ReaderStep
        <5>2. t \in DOMAIN InfosOf(k) BY <1>0, <3>2, InfosOfFacts
        <5> QED BY <2>8, <4>1, <5>1, <5>2
      <4> QED BY <4>2, <4>3
    <3>9. CASE \E g \in Connections : g[2] = k /\ reader[g].at = "copied" /\ t \in DOMAIN reader[g].list
      <4>1. PICK g \in Connections : g[2] = k /\ reader[g].at = "copied" /\ t \in DOMAIN reader[g].list
        BY <3>9
      <4>2. CASE reader'[g] = reader[g] BY <2>8, <4>1, <4>2
      <4>3. CASE reader'[g] # reader[g]
        <5>1. QueueFrameToAll(g)
          <6>1. reader[g].at = "copied" /\ reader[g] # Idle /\ ~ Crash(g[2]) BY <2>1, <4>1 DEF Idle
          <6> QED BY <4>3, <6>1, ReaderStep
        <5>2. lists'[c] = Append(lists[c], reader[g].list) BY <2>1, <4>1, <5>1
        <5>3. reader[g].list \in Lists BY <4>1, ReaderFacts
        <5>4. /\ Len(lists[c]) + 1 \in DOMAIN lists'[c]
              /\ lists'[c][Len(lists[c]) + 1] = reader[g].list
          BY <2>2, <5>2, <5>3, AppendFacts
        <5> QED BY <2>8, <4>1, <5>4
      <4> QED BY <4>2, <4>3
    <3> QED BY <3>4, <3>5, <3>6, <3>7, <3>8, <3>9 DEF Told, c
  <2> QED BY <2>3, <2>4
<1> QED BY <1>1, <1>2

LEMMA ClientsKnowListed ==
  ASSUME IInv, NEW l \in ClientLinks, Settled(l), NEW e \in ToSet(toolServers[l[2]])
  PROVE  coord[l[1]][e.ts] # 0
<1>1. PICK i \in DOMAIN toolServers[l[2]] : e = toolServers[l[2]][i] BY DEF ToSet
<1>2. Told(l, e.ts) BY <1>1 DEF IInv, ClientsAreTold, Settled, Served, ClientState
<1>3. \A g \in Connections : g[2] = l[2] => reader[g].at = "idle" BY DEF Settled, Idle
<1>4. DOMAIN lists[Current(l)] = {} /\ reading[l] = None BY DEF Settled
<1> QED BY <1>2, <1>3, <1>4 DEF Told, Changing

(***************************************************************************)
(* That what they know is the latest.                                      *)
(***************************************************************************)
LEMMA AgreesWithFewer ==
  ASSUME NEW k \in Coordinators, NEW list, Agrees(list, k), Shrinks(k)
  PROVE  \A i \in DOMAIN toolServers'[k] :
           /\ toolServers'[k][i].ts \in DOMAIN list
           /\ list[toolServers'[k][i].ts] = toolServers'[k][i].ver
BY DEF Agrees, Shrinks

LEMMA CopiesAgreeKept ==
  ASSUME IInv, [Next]_vars
  PROVE  CopiesAgree'
<1> SUFFICES ASSUME NEW h \in Connections, reader'[h].at \in {"copied", "replying"},
                    h[2] \notin overlapped', NEW list, list = reader'[h].list,
                    NEW i \in DOMAIN toolServers'[h[2]]
             PROVE  /\ toolServers'[h[2]][i].ts \in DOMAIN list
                    /\ list[toolServers'[h[2]][i].ts] = toolServers'[h[2]][i].ver
  BY DEF CopiesAgree, Agrees
<1> DEFINE k == h[2]
<1>0. k \in Coordinators BY ConnectionFacts
<1>1. CASE reader'[h] # reader[h]
  <2>1. CopyList(h) \/ ReadRequest(h)
    <3>1. \/ ReadStatus(h) \/ ReadRequest(h)
          \/ reader'[h] \in {Idle, [at |-> "marked"]}
          \/ CopyList(h)
          \/ reader'[h].at \in {"updated", "dangling"}
      BY <1>1, ReaderStep
    <3>2. ASSUME ReadStatus(h) PROVE reader'[h].at = "updated"
      <4>1. ~ UNCHANGED <<toolServers, reader, overlapped>> BY <1>1
      <4>2. \E n \in DOMAIN toolServers[k] \cup {Len(toolServers[k]) + 1} :
              reader' = [reader EXCEPT ![h] = [at |-> "updated", slot |-> n]]
        BY <3>2, <1>1 DEF ReadStatus, At, Slots
      <4>3. h \in DOMAIN reader BY DEF IInv, TypeOK, ServerTypes
      <4> QED BY <4>2, <4>3
    <3>3. reader'[h] \notin {Idle, [at |-> "marked"]} BY DEF Idle
    <3> QED BY <3>1, <3>2, <3>3
  <2>2. toolServers' = toolServers /\ reader'[h].list = InfosOf(k)
    <3>1. reader \in [Connections -> ReaderStates] BY DEF IInv, TypeOK, ServerTypes
    <3>2. \/ reader' = [reader EXCEPT ![h] = [at |-> "copied", list |-> InfosOf(k)]]
          \/ reader' = [reader EXCEPT ![h] = [at |-> "replying", list |-> InfosOf(k)]]
      BY <2>1 DEF CopyList, ReadRequest, At
    <3> QED BY <2>1, <3>1, <3>2 DEF CopyList, ReadRequest
  <2> QED BY <1>0, <2>2, InfosOfFacts
<1>2. CASE reader'[h] = reader[h]
  <2>1. reader[h].at \in {"copied", "replying"} /\ list = reader[h].list /\ reader[h] # Idle
    BY <1>2 DEF Idle
  <2>2. ASSUME NEW g \in Connections, ReadStatus(g), g[2] = k
        PROVE  UNCHANGED <<toolServers, reader, overlapped>>
    <3> SUFFICES ASSUME ~ UNCHANGED <<toolServers, reader, overlapped>> PROVE FALSE OBVIOUS
    <3>1. reader[g] = Idle BY <2>2, ReadStatusFacts
    <3>2. Crossing(g[2], g) BY <2>1, <2>2, <3>1 DEF Crossing
    <3>3. overlapped' = overlapped \cup {g[2]} BY <2>2, <3>2, UpdateEntries
    <3> QED BY <2>2, <3>3
  <2>3. Shrinks(k) BY <1>0, <2>2, ListedShrinks
  <2>4. k \notin overlapped
    <3>1. ASSUME NEW g \in Connections, ReadStatus(g) PROVE overlapped \subseteq overlapped'
      BY <3>1 DEF ReadStatus
    <3>2. ASSUME NEW g \in Connections, MarkHandler(g) \/ MarkDangling(g) \/ EraseWorker(g)
          PROVE  overlapped' = overlapped
      BY <3>2 DEF MarkHandler, MarkDangling, EraseWorker
    <3>3. ASSUME NEW m \in Coordinators, Crash(m) PROVE k \notin overlapped
      <4>1. m # k BY <1>2, <2>1, <3>3, CrashFacts
      <4> QED BY <3>3, <4>1 DEF Crash
    <3> QED BY <3>1, <3>2, <3>3, ListedChange
  <2>5. Agrees(list, k) BY <2>1, <2>4 DEF IInv, CopiesAgree
  <2> QED BY <1>0, <2>3, <2>5, AgreesWithFewer
<1> QED BY <1>1, <1>2

LEMMA CalmBefore ==
  ASSUME IInv, [Next]_vars, NEW g \in Connections, reader'[g].at \in {"idle", "replying"},
         reader'[g] # reader[g], ~ QueueFrameToAll(g), ~ Crash(g[2])
  PROVE  reader[g].at \in {"idle", "replying"}
<1>1. \/ reader[g] = Idle
      \/ reader'[g] = [at |-> "marked"]
      \/ reader'[g] = [at |-> "copied", list |-> InfosOf(g[2])]
      \/ reader[g].at = "replying"
      \/ reader'[g].at \in {"updated", "dangling"}
  BY ReaderStep
<1> QED BY <1>1 DEF Idle

LEMMA NewestAgreesKept ==
  ASSUME IInv, [Next]_vars
  PROVE  NewestAgrees'
<1> DEFINE Calm(l) == \A g \in Connections : g[2] = l[2] => reader[g].at \in {"idle", "replying"}
<1> SUFFICES ASSUME NEW l \in ClientLinks, Served(l)', Len(Hosts(l[1]))' = 1,
                    l[2] \notin overlapped', Calm(l)', NEW newest, newest = Newest(l)',
                    NEW i \in DOMAIN toolServers'[l[2]]
             PROVE  /\ toolServers'[l[2]][i].ts \in DOMAIN newest
                    /\ newest[toolServers'[l[2]][i].ts] = toolServers'[l[2]][i].ver
  BY DEF NewestAgrees, Agrees
<1> DEFINE k == l[2]
           c == Current(l)
           t == toolServers'[k][i].ts
           ver == toolServers'[k][i].ver
<1>0. /\ TypeOK /\ NetTypes /\ ClientTypes /\ ServerTypes /\ WorkersRun
      /\ l \in Links /\ l[1] \in Clients /\ k \in Coordinators /\ l = <<l[1], l[2]>>
      /\ UNCHANGED deployment
  BY ServerLinkFacts, LinkFacts, DeploymentStays DEF IInv, TypeOK
<1>1. CASE Connect(l)
  <2> DEFINE h == <<l[1], l[2], connects[l] + 1>>
  <2>1. h \in Connections /\ Current(l)' = h BY <1>0, <1>1, ConnectFacts
  <2>2. lists' = [lists EXCEPT ![h] = <<InfosOf(k)>>] /\ toolServers' = toolServers
    BY <1>0, <1>1 DEF Connect
  <2> HIDE DEF h
  <2>3. lists'[h] = <<InfosOf(k)>> BY <1>0, <2>1, <2>2 DEF NetTypes
  <2>4. newest = InfosOf(k) BY <2>1, <2>3 DEF Newest, Last
  <2>5. i \in DOMAIN toolServers[k] /\ toolServers'[k] = toolServers[k] BY <2>2
  <2> QED BY <1>0, <2>4, <2>5, InfosOfFacts
<1>2. CASE ~ Connect(l)
  <2>1. /\ Served(l) /\ Current(l)' = c /\ c \in Connections /\ c[2] = k /\ ~ Crash(k)
        /\ ListStep(l)
        /\ \A g \in Connections : QueueFrameToAll(g) /\ g[2] = k =>
             /\ lists'[c] = Append(lists[c], reader[g].list)
             /\ reading'[l] = reading[l]
    BY <1>0, <1>2, ServedBefore, ListSteps
  <2> HIDE DEF c
  <2>2. lists[c] \in Seq(Lists) BY <1>0, <2>1 DEF NetTypes
  <2>3. newest = IF lists'[c] # << >> THEN Last(lists'[c])
                 ELSE IF reading'[l] # None THEN reading'[l] ELSE coord'[l[1]]
    BY <2>1 DEF Newest
  <2>4. k \notin overlapped
    <3>1. ASSUME NEW g \in Connections, ReadStatus(g) PROVE overlapped \subseteq overlapped'
      BY <3>1 DEF ReadStatus
    <3>2. ASSUME NEW g \in Connections, MarkHandler(g) \/ MarkDangling(g) \/ EraseWorker(g)
          PROVE  overlapped' = overlapped
      BY <3>2 DEF MarkHandler, MarkDangling, EraseWorker
    <3>3. ASSUME NEW m \in Coordinators, Crash(m) PROVE k \notin overlapped
      <4>1. m # k BY <2>1, <3>3
      <4> QED BY <3>3, <4>1 DEF Crash
    <3> QED BY <3>1, <3>2, <3>3, ListedChange
  <2>5. ASSUME NEW g \in Connections, ReadStatus(g), g[2] = k
        PROVE  UNCHANGED <<toolServers, reader, overlapped>>
    <3> SUFFICES ASSUME ~ UNCHANGED <<toolServers, reader, overlapped>> PROVE FALSE OBVIOUS
    <3>1. \E n \in DOMAIN toolServers'[g[2]] : reader'[g] = [at |-> "updated", slot |-> n]
      BY <2>5, UpdateEntries
    <3> QED BY <2>5, <3>1
  <2>6. Shrinks(k) BY <1>0, <2>5, ListedShrinks
  <2>7. ASSUME NEW list, Agrees(list, k)
        PROVE  t \in DOMAIN list /\ list[t] = ver
    BY <1>0, <2>6, <2>7, AgreesWithFewer
  <2>8. ASSUME NEW g \in Connections, g[2] = k, reader[g].at \in {"copied", "replying"}
        PROVE  Agrees(reader[g].list, k) /\ reader[g].list \in Lists
    BY <2>4, <2>8, ReaderFacts DEF IInv, CopiesAgree
  <2>9. ASSUME NEW g \in Connections, g[2] = k, reader[g].at \in {"copied", "replying"},
               lists'[c] = Append(lists[c], reader[g].list)
        PROVE  t \in DOMAIN newest /\ newest[t] = ver
    <3>1. reader[g].list \in Lists /\ Agrees(reader[g].list, k) BY <2>8, <2>9
    <3>2. lists'[c] # << >> /\ Last(lists'[c]) = reader[g].list BY <2>2, <2>9, <3>1, AppendFacts
    <3>3. newest = reader[g].list BY <2>3, <3>2
    <3> QED BY <2>7, <3>1, <3>3
  <2>10. CASE \E g \in Connections : QueueFrameToAll(g) /\ g[2] = k
    <3>1. PICK g \in Connections : QueueFrameToAll(g) /\ g[2] = k BY <2>10
    <3>2. reader[g].at = "copied" BY <3>1 DEF QueueFrameToAll
    <3> QED BY <2>1, <2>9, <3>1, <3>2
  <2>11. CASE ~ \E g \in Connections : QueueFrameToAll(g) /\ g[2] = k
    <3>1. Calm(l)
      <4> SUFFICES ASSUME NEW g \in Connections, g[2] = k PROVE reader[g].at \in {"idle", "replying"}
        OBVIOUS
      <4>1. reader'[g].at \in {"idle", "replying"} OBVIOUS
      <4>2. CASE reader'[g] # reader[g]
        <5>1. ~ QueueFrameToAll(g) /\ ~ Crash(g[2]) BY <2>1, <2>11
        <5> QED BY <4>1, <4>2, <5>1, CalmBefore
      <4> QED BY <4>1, <4>2
    <3>2. Agrees(Newest(l), k)
      <4>1. Len(Hosts(l[1])) = 1 BY <1>0 DEF Hosts
      <4> QED BY <2>1, <2>4, <3>1, <4>1 DEF IInv, NewestAgrees
    <3>3. Newest(l) = IF lists[c] # << >> THEN Last(lists[c])
                      ELSE IF reading[l] # None THEN reading[l] ELSE coord[l[1]]
      BY DEF Newest, c
    <3>4. ASSUME NEW m \in Links, ApplyList(m), m[1] = l[1] PROVE m = l
      <4>1. IsRunning(m) /\ IsRunning(l)
        BY <1>0, <2>1, <3>4 DEF WorkersRun, ApplyList, Served
      <4>2. running[l[1]] \in Nat /\ running[l[1]] <= 1
        <5>1. l[1] \in Processes BY <1>0 DEF Processes
        <5>2. Len(Hosts(l[1])) = 1 BY <1>0 DEF Hosts
        <5> QED BY <1>0, <5>1, <5>2 DEF TypeOK, WorkerTypes, Hosts
      <4>3. m[2] = Hosts(l[1])[1] /\ l[2] = Hosts(l[1])[1] BY <3>4, <4>1, <4>2 DEF IsRunning
      <4> QED BY <1>0, <3>4, <4>3, LinkFacts
    <3>5. ASSUME ~ ApplyList(l) PROVE coord'[l[1]] = coord[l[1]]
      BY <1>0, <3>4, <3>5, CoordSteps
    <3>6. ASSUME newest = Newest(l) PROVE t \in DOMAIN newest /\ newest[t] = ver
      BY <2>7, <3>2, <3>6
    <3>7. CASE lists'[c] = lists[c] /\ reading'[l] = reading[l]
      <4>1. CASE ~ ApplyList(l) BY <2>3, <3>3, <3>5, <3>6, <3>7, <4>1
      <4>2. CASE ApplyList(l)
        <5>1. reading[l] # None /\ reading'[l] = None BY <1>0, <4>2 DEF ApplyList, ClientTypes
        <5> QED BY <3>7, <5>1
      <4> QED BY <4>1, <4>2
    <3>8. CASE /\ lists[c] # << >> /\ lists'[c] = Tail(lists[c])
               /\ reading[l] = None /\ reading'[l] = Head(lists[c])
      <4>1. /\ Head(lists[c]) = lists[c][1] /\ lists[c][1] \in Lists
            /\ IF Tail(lists[c]) = << >> THEN Last(lists[c]) = lists[c][1]
               ELSE Last(Tail(lists[c])) = Last(lists[c])
        BY <2>2, <3>8, TailFacts, TailLast
      <4>2. reading'[l] # None BY <3>8, <4>1, CoordinatorAssumption
      <4>3. newest = Newest(l) BY <2>3, <3>3, <3>8, <4>1, <4>2
      <4> QED BY <3>6, <4>3
    <3>9. CASE /\ ApplyList(l) /\ lists'[c] = lists[c]
               /\ reading[l] # None /\ reading'[l] = None
      <4>1. CASE lists[c] # << >>
        <5>1. newest = Newest(l) BY <2>3, <3>3, <3>9, <4>1
        <5> QED BY <3>6, <5>1
      <4>2. CASE lists[c] = << >>
        <5>1. Newest(l) = reading[l] BY <3>3, <3>9, <4>2
        <5>2. reading[l] \in Lists /\ coord[l[1]] \in [ToolServers -> {0} \cup Infos]
          BY <1>0, <3>9 DEF ClientTypes
        <5>3. newest = Updated(coord[l[1]], reading[l])
          <6>1. coord'[l[1]] = Updated(coord[l[1]], reading[l])
            BY <1>0, <3>9 DEF ApplyList, ClientTypes
          <6> QED BY <2>3, <3>9, <4>2, <6>1
        <5>4. t \in DOMAIN reading[l] /\ reading[l][t] = ver BY <2>7, <3>2, <5>1
        <5>5. /\ t \in ToolServers /\ newest[t] = ver
              /\ newest \in [ToolServers -> {0} \cup Infos]
          <6> HIDE DEF t
          <6> QED BY <5>2, <5>3, <5>4, UpdatedFacts
        <5> QED BY <5>5
      <4> QED BY <4>1, <4>2
    <3>10. ASSUME NEW g \in Connections, g[2] = k, reader[g].at \in {"copied", "replying"},
                  lists'[c] = Append(lists[c], reader[g].list)
           PROVE  t \in DOMAIN newest /\ newest[t] = ver
      BY <2>9, <3>10
    <3>11. \/ lists'[c] = lists[c] /\ reading'[l] = reading[l]
           \/ /\ lists[c] # << >> /\ lists'[c] = Tail(lists[c])
              /\ reading[l] = None /\ reading'[l] = Head(lists[c])
           \/ /\ ApplyList(l) /\ lists'[c] = lists[c]
              /\ reading[l] # None /\ reading'[l] = None
           \/ \E g \in Connections :
                /\ g[2] = k /\ reader[g].at \in {"copied", "replying"}
                /\ lists'[c] = Append(lists[c], reader[g].list)
      BY <2>1 DEF ListStep, c
    <3> QED BY <3>7, <3>8, <3>9, <3>10, <3>11
  <2> QED BY <2>10, <2>11
<1> QED BY <1>1, <1>2

LEMMA ClientsAreFreshFollows == IInv => ClientsAreFresh
<1> SUFFICES ASSUME IInv, NEW l \in ClientLinks, Settled(l),
                    NEW e \in ToSet(toolServers[l[2]]), Len(Hosts(l[1])) = 1,
                    l[2] \notin overlapped
             PROVE  coord[l[1]][e.ts] = e.ver
  BY ClientsKnowListed DEF ClientsAreFresh, ClientLinks
<1>1. PICK i \in DOMAIN toolServers[l[2]] : e = toolServers[l[2]][i] BY DEF ToSet
<1>2. \A g \in Connections : g[2] = l[2] => reader[g].at \in {"idle", "replying"}
  BY DEF Settled, Idle
<1>3. Agrees(Newest(l), l[2]) BY <1>2 DEF IInv, NewestAgrees, Settled, Served, ClientState
<1>4. Newest(l) = coord[l[1]] BY DEF Newest, Settled
<1> QED BY <1>1, <1>3, <1>4 DEF Agrees

(***************************************************************************)
(* The sessions.                                                           *)
(***************************************************************************)
\* A session that is remembered is the last, and the oldest may be forgotten.
LEMMA LatestFacts ==
  ASSUME IInv, NEW k \in Coordinators, NEW c \in Clients, NEW x
  PROVE  /\ Once(latestSessions[k], x) /\ (x = c => x \notin ToSet(latestSessions[k]))
              => Once(Latest(k, c), x)
         /\ x # c /\ x \in ToSet(Latest(k, c)) => x \in ToSet(latestSessions[k])
<1> DEFINE s == latestSessions[k]
           p == Append(s, c)
           r == Latest(k, c)
<1>1. s \in Seq(Clients) BY DEF IInv, TypeOK, SessionTypes
<1>2. /\ p \in Seq(Clients) /\ Len(p) = Len(s) + 1 /\ p # << >>
      /\ \A i \in 1 .. Len(s) : p[i] = s[i]
      /\ p[Len(s) + 1] = c /\ DOMAIN p = 1 .. Len(s) + 1
      /\ DOMAIN s = 1 .. Len(s) /\ Len(s) \in Nat
  BY <1>1, AppendFacts
<1>3. /\ DOMAIN Tail(p) = 1 .. Len(s)
      /\ \A i \in 1 .. Len(s) : Tail(p)[i] = p[i + 1]
  <2>1. /\ Tail(p) \in Seq(Clients) /\ Len(Tail(p)) = Len(p) - 1
        /\ \A i \in 1 .. Len(p) - 1 : Tail(p)[i] = p[i + 1]
    BY <1>2, TailFacts
  <2>2. Len(p) - 1 = Len(s) BY <1>2
  <2>3. DOMAIN Tail(p) = 1 .. Len(Tail(p)) BY <2>1, LenProperties
  <2> QED BY <2>1, <2>2, <2>3
<1>4. r = p \/ r = Tail(p) BY DEF Latest
<1> HIDE DEF p, r, s
<1>5. ASSUME x # c, NEW i \in DOMAIN p, p[i] = x PROVE i \in DOMAIN s /\ s[i] = x
  BY <1>2, <1>5
<1>6. ASSUME Once(s, x), x = c => x \notin ToSet(s),
             NEW i \in DOMAIN p, NEW j \in DOMAIN p, p[i] = x, p[j] = x
      PROVE  i = j
  <2>1. \A a, b \in DOMAIN s : s[a] = x /\ s[b] = x => a = b BY <1>6 DEF Once
  <2>2. x = c => \A a \in DOMAIN s : s[a] # x BY <1>6 DEF ToSet
  <2> QED BY <1>2, <1>6, <2>1, <2>2
<1>7. CASE r = p
  <2>1. Once(s, x) /\ (x = c => x \notin ToSet(s)) => Once(r, x) BY <1>6, <1>7 DEF Once
  <2>2. x # c /\ x \in ToSet(r) => x \in ToSet(s) BY <1>5, <1>7 DEF ToSet
  <2> QED BY <2>1, <2>2 DEF r, s
<1>8. CASE r = Tail(p)
  <2>1. \A i \in DOMAIN r : i \in Nat /\ i + 1 \in DOMAIN p /\ r[i] = p[i + 1] BY <1>2, <1>3, <1>8
  <2>2. ASSUME Once(s, x), x = c => x \notin ToSet(s) PROVE Once(r, x)
    <3>1. ASSUME NEW i \in DOMAIN r, NEW j \in DOMAIN r, r[i] = x, r[j] = x PROVE i = j
      <4>1. i + 1 = j + 1 BY <1>6, <2>1, <2>2, <3>1
      <4> QED BY <2>1, <4>1
    <3> QED BY <3>1 DEF Once
  <2>3. x # c /\ x \in ToSet(r) => x \in ToSet(s) BY <1>5, <2>1 DEF ToSet
  <2> QED BY <2>2, <2>3 DEF r, s
<1> QED BY <1>4, <1>7, <1>8

\* A part of what was unread.
Within(q, whole) ==
  \E d \in Nat : \A i \in DOMAIN q : i + d \in DOMAIN whole /\ q[i] = whole[i + d]

LEMMA WithinFacts ==
  ASSUME NEW a \in Seq(Frames), NEW b \in Seq(Frames)
  PROVE  /\ Within(a \o << >>, a \o b) /\ Within(<< >> \o b, a \o b)
         /\ a # << >> => /\ Within(Tail(a) \o b, a \o b)
                         /\ \A i \in DOMAIN (Tail(a) \o b) :
                              i + 1 \in DOMAIN (a \o b) /\ (Tail(a) \o b)[i] = (a \o b)[i + 1]
<1>1. /\ a \o << >> = a /\ << >> \o b = b BY EmptySeq, ConcatEmptySeq
<1>2. /\ DOMAIN (a \o b) = 1 .. Len(a) + Len(b) /\ Len(a) \in Nat /\ Len(b) \in Nat
      /\ DOMAIN a = 1 .. Len(a) /\ DOMAIN b = 1 .. Len(b)
      /\ \A i \in DOMAIN a : (a \o b)[i] = a[i]
      /\ \A i \in DOMAIN b : (a \o b)[Len(a) + i] = b[i]
  BY ConcatFacts
<1>3. Within(a, a \o b)
  <2>1. \A i \in DOMAIN a : i + 0 \in DOMAIN (a \o b) /\ a[i] = (a \o b)[i + 0] BY <1>2
  <2> QED BY <2>1 DEF Within
<1>4. Within(b, a \o b)
  <2>1. \A i \in DOMAIN b : i + Len(a) \in DOMAIN (a \o b) /\ i + Len(a) = Len(a) + i BY <1>2
  <2>2. \A i \in DOMAIN b : i + Len(a) \in DOMAIN (a \o b) /\ b[i] = (a \o b)[i + Len(a)]
    BY <1>2, <2>1
  <2> QED BY <1>2, <2>2 DEF Within
<1>5. ASSUME a # << >>
      PROVE  \A i \in DOMAIN (Tail(a) \o b) :
               i + 1 \in DOMAIN (a \o b) /\ (Tail(a) \o b)[i] = (a \o b)[i + 1]
  <2> DEFINE r == Tail(a)
             z == r \o b
  <2>1. /\ r \in Seq(Frames) /\ Len(r) = Len(a) - 1
        /\ \A i \in 1 .. Len(a) - 1 : r[i] = a[i + 1]
    BY <1>5, TailFacts
  <2>2. /\ DOMAIN z = 1 .. Len(r) + Len(b) /\ DOMAIN r = 1 .. Len(r) /\ Len(r) \in Nat
        /\ \A i \in DOMAIN z :
             \/ i \in DOMAIN r /\ z[i] = r[i]
             \/ \E j \in DOMAIN b : i = Len(r) + j /\ z[i] = b[j]
    <3>1. ASSUME NEW u \in Seq(Frames)
          PROVE  /\ DOMAIN (u \o b) = 1 .. Len(u) + Len(b) /\ DOMAIN u = 1 .. Len(u)
                 /\ Len(u) \in Nat
                 /\ \A i \in DOMAIN (u \o b) :
                      \/ i \in DOMAIN u /\ (u \o b)[i] = u[i]
                      \/ \E j \in DOMAIN b : i = Len(u) + j /\ (u \o b)[i] = b[j]
      BY <3>1, ConcatFacts
    <3> HIDE DEF r
    <3> QED BY <2>1, <3>1
  <2> HIDE DEF r, z
  <2>3. ASSUME NEW i \in DOMAIN z PROVE i + 1 \in DOMAIN (a \o b) /\ z[i] = (a \o b)[i + 1]
    <3>1. i + 1 \in DOMAIN (a \o b) BY <1>2, <2>1, <2>2
    <3>2. CASE i \in DOMAIN r /\ z[i] = r[i]
      <4>1. i + 1 \in DOMAIN a /\ r[i] = a[i + 1] BY <1>2, <2>1, <2>2, <3>2
      <4> QED BY <1>2, <3>1, <3>2, <4>1
    <3>3. ASSUME NEW j \in DOMAIN b, i = Len(r) + j, z[i] = b[j]
          PROVE  z[i] = (a \o b)[i + 1]
      <4>1. i + 1 = Len(a) + j BY <1>2, <2>1, <2>2, <3>3
      <4> QED BY <1>2, <3>3, <4>1
    <3> QED BY <2>2, <3>1, <3>2, <3>3
  <2> QED BY <2>3 DEF r, z
<1>6. ASSUME a # << >> PROVE Within(Tail(a) \o b, a \o b) BY <1>5, <1>6 DEF Within
<1> QED BY <1>1, <1>3, <1>4, <1>5, <1>6

\* Reading, writing and losing frames keep the order.
LEMMA InOrderWithin ==
  ASSUME NEW q, NEW whole \in Seq(Frames), Within(q, whole), NEW a \in Seq(Frames), q = a,
         NEW c, NEW state, NEW active, NEW latest, InOrder(whole, c, state, active, latest)
  PROVE  InOrder(q, c, state, active, latest)
<1>1. PICK d \in Nat : \A i \in DOMAIN q : i + d \in DOMAIN whole /\ q[i] = whole[i + d]
  BY DEF Within
<1>2. \A i \in DOMAIN q : i \in Nat BY LenProperties
<1>3. ASSUME NEW i \in DOMAIN q, q[i].type = "session"
      PROVE  /\ state # "none"
             /\ q[i].finished => state = "finished"
             /\ c \notin ToSet(latest)
             /\ \A j \in DOMAIN q : j < i => ~Ends(q[j])
  <2>1. i + d \in DOMAIN whole /\ q[i] = whole[i + d] BY <1>1
  <2>2. /\ state # "none"
        /\ whole[i + d].finished => state = "finished"
        /\ c \notin ToSet(latest)
        /\ \A j \in DOMAIN whole : j < i + d => ~Ends(whole[j])
    BY <1>3, <2>1 DEF InOrder
  <2>3. ASSUME NEW j \in DOMAIN q, j < i PROVE ~ Ends(q[j])
    <3>1. j + d \in DOMAIN whole /\ q[j] = whole[j + d] /\ j + d < i + d BY <1>1, <1>2, <2>3
    <3> QED BY <2>2, <3>1
  <2> QED BY <2>1, <2>2, <2>3
<1> QED BY <1>3 DEF InOrder

\* A frame that is added keeps the order, unless the session has ended before.
LEMMA InOrderAppend ==
  ASSUME NEW q \in Seq(Frames), NEW f \in Frames,
         NEW c, NEW state, NEW active, NEW latest, InOrder(q, c, state, active, latest),
         f.type = "session" =>
           /\ state # "none" /\ c \notin ToSet(latest)
           /\ f.finished => state = "finished"
           /\ \A j \in DOMAIN q : ~ Ends(q[j])
  PROVE  InOrder(Append(q, f), c, state, active, latest)
<1> DEFINE p == Append(q, f)
<1>1. /\ DOMAIN p = 1 .. Len(q) + 1 /\ DOMAIN q = 1 .. Len(q) /\ Len(q) \in Nat
      /\ \A i \in 1 .. Len(q) : p[i] = q[i]
      /\ p[Len(q) + 1] = f
  BY AppendFacts
<1> HIDE DEF p
<1>2. ASSUME NEW i \in DOMAIN p, p[i].type = "session"
      PROVE  /\ state # "none"
             /\ p[i].finished => state = "finished"
             /\ c \notin ToSet(latest)
             /\ \A j \in DOMAIN p : j < i => ~Ends(p[j])
  <2>1. CASE i \in DOMAIN q
    <3>1. q[i] = p[i] BY <1>1, <2>1
    <3>2. /\ state # "none"
          /\ q[i].finished => state = "finished"
          /\ c \notin ToSet(latest)
          /\ \A j \in DOMAIN q : j < i => ~Ends(q[j])
      BY <1>2, <2>1, <3>1 DEF InOrder
    <3>3. ASSUME NEW j \in DOMAIN p, j < i PROVE ~ Ends(p[j])
      <4>1. j \in DOMAIN q /\ p[j] = q[j] BY <1>1, <2>1, <3>3
      <4> QED BY <3>2, <3>3, <4>1
    <3> QED BY <3>1, <3>2, <3>3
  <2>2. CASE i \notin DOMAIN q
    <3>1. i = Len(q) + 1 /\ p[i] = f BY <1>1, <2>2
    <3>2. ASSUME NEW j \in DOMAIN p, j < i PROVE ~ Ends(p[j])
      <4>1. j \in DOMAIN q /\ p[j] = q[j] BY <1>1, <3>1, <3>2
      <4> QED BY <1>2, <3>1, <4>1
    <3> QED BY <1>2, <3>1, <3>2
  <2> QED BY <2>1, <2>2
<1> QED BY <1>2 DEF InOrder, p

\* The frames of a client's session, and what the coordinator has of it, change together
\* only when one is read.
LEMMA SessionRead ==
  ASSUME IInv, NEW h \in Connections, ReadSession(h),
         NEW b \in Seq(Frames), NEW state,
         InOrder(sent[h] \o b, h[1], state, activeSessions[h[2]], latestSessions[h[2]])
  PROVE  InOrder(Tail(sent[h]) \o b, h[1], state, activeSessions'[h[2]], latestSessions'[h[2]])
<1> DEFINE a == sent[h]
           q == a \o b
           z == Tail(a) \o b
           c == h[1]
           k == h[2]
<1>1. /\ c \in Clients /\ k \in Coordinators
      /\ a \in Seq(Frames) /\ a # << >> /\ a[1].type = "session" /\ Head(a) = a[1]
  BY SessionReadFacts
<1>2. \A i \in DOMAIN z : i + 1 \in DOMAIN q /\ z[i] = q[i + 1] BY <1>1, WithinFacts
<1>3. 1 \in DOMAIN q /\ q[1] = a[1]
  <2>1. Len(a) \in Nat \ {0} BY <1>1, EmptySeq
  <2> QED BY <1>1, <2>1, ConcatFacts
<1>4. z \in Seq(Frames) /\ q \in Seq(Frames) BY <1>1, TailFacts, ConcatFacts
<1>5. \A i \in DOMAIN z : i \in Nat /\ 1 < i + 1 BY <1>4, LenProperties
<1>6. IF a[1].finished
      THEN /\ latestSessions'[k] = Latest(k, c)
           /\ activeSessions'[k] = activeSessions[k] \ {c}
      ELSE latestSessions'[k] = latestSessions[k]
  <2>1. IF a[1].finished
        THEN /\ latestSessions' = [latestSessions EXCEPT ![k] = Latest(k, c)]
             /\ activeSessions' = [activeSessions EXCEPT ![k] = @ \ {c}]
        ELSE UNCHANGED latestSessions
    BY <1>1 DEF ReadSession
  <2> QED BY <1>1, <2>1 DEF IInv, TypeOK, SessionTypes
<1> HIDE DEF a, q, z, c, k
<1>7. /\ \A i \in DOMAIN q : q[i].type = "session" =>
           /\ state # "none"
           /\ q[i].finished => state = "finished"
           /\ c \notin ToSet(latestSessions[k])
           /\ \A j \in DOMAIN q : j < i => ~Ends(q[j])
      /\ Once(latestSessions[k], c)
  BY DEF InOrder, q, a, c, k
<1>8. c \notin ToSet(latestSessions[k]) BY <1>1, <1>3, <1>7
<1>9. CASE a[1].finished
  <2>1. Ends(q[1]) /\ state = "finished" BY <1>1, <1>3, <1>7, <1>9 DEF Ends
  <2>2. \A i \in DOMAIN z : z[i].type # "session" BY <1>2, <1>3, <1>5, <1>7, <2>1
  <2>3. Once(latestSessions'[k], c) BY <1>1, <1>6, <1>7, <1>8, <1>9, LatestFacts
  <2>4. c \notin activeSessions'[k] BY <1>6, <1>9
  <2>5. InOrder(z, c, state, activeSessions'[k], latestSessions'[k])
    BY <2>1, <2>2, <2>3, <2>4 DEF InOrder
  <2> QED BY <2>5 DEF z, a, c, k
<1>10. CASE ~ a[1].finished
  <2>1. latestSessions'[k] = latestSessions[k] BY <1>6, <1>10
  <2>2. Within(z, q) BY <1>2 DEF Within
  <2>3. InOrder(q, c, state, activeSessions[k], latestSessions[k]) BY DEF q, a, c, k
  <2>4. InOrder(z, c, state, activeSessions[k], latestSessions[k])
    BY <1>4, <2>2, <2>3, InOrderWithin
  <2>5. InOrder(z, c, state, activeSessions'[k], latestSessions'[k])
    BY <1>8, <2>1, <2>4 DEF InOrder
  <2> QED BY <2>5 DEF z, a, c, k
<1> QED BY <1>9, <1>10

LEMMA ConcatAppend ==
  ASSUME NEW a \in Seq(Frames), NEW b \in Seq(Frames), NEW f \in Frames
  PROVE  a \o Append(b, f) = Append(a \o b, f)
<1>1. <<f>> \in Seq(Frames) /\ a \o b \in Seq(Frames) BY ConcatFacts
<1>2. Append(b, f) = b \o <<f>> BY AppendIsConcat
<1>3. Append(a \o b, f) = (a \o b) \o <<f>> BY <1>1, AppendIsConcat
<1> QED BY <1>1, <1>2, <1>3, ConcatAssociative

\* What a coordinator has of a client's sessions does not change by another's.
LEMMA OtherSessions ==
  ASSUME IInv, [Next]_vars, NEW l \in ClientLinks,
         ~ \E h \in Connections : ReadSession(h) /\ LinkOf(h) = l
  PROVE  LET c == l[1]
             k == l[2]
         IN /\ c \in ToSet(latestSessions'[k]) => c \in ToSet(latestSessions[k])
            /\ c \notin activeSessions[k] => c \notin activeSessions'[k]
            /\ Once(latestSessions[k], c) => Once(latestSessions'[k], c)
<1> DEFINE c == l[1]
           k == l[2]
<1>0. /\ c \in Clients /\ k \in Coordinators /\ l = <<c, k>>
      /\ activeSessions \in [Coordinators -> SUBSET Clients]
      /\ latestSessions \in [Coordinators -> Seq(Clients)]
  BY ServerLinkFacts, LinkFacts DEF IInv, TypeOK, SessionTypes
<1> HIDE DEF c, k
<1>1. CASE latestSessions'[k] = latestSessions[k] /\ activeSessions'[k] \subseteq activeSessions[k]
  BY <1>1 DEF c, k
<1>2. ASSUME NEW h \in Connections, ReadSession(h)
      PROVE  /\ c \in ToSet(latestSessions'[k]) => c \in ToSet(latestSessions[k])
             /\ c \notin activeSessions[k] => c \notin activeSessions'[k]
             /\ Once(latestSessions[k], c) => Once(latestSessions'[k], c)
  <2>1. h[1] \in Clients /\ h[2] \in Coordinators BY <1>2, SessionReadFacts
  <2>2. /\ \/ latestSessions' = latestSessions
           \/ latestSessions' = [latestSessions EXCEPT ![h[2]] = Latest(h[2], h[1])]
        /\ \/ activeSessions' = [activeSessions EXCEPT ![h[2]] = @ \ {h[1]}]
           \/ activeSessions' = [activeSessions EXCEPT ![h[2]] = @ \cup {h[1]}]
    BY <1>2 DEF ReadSession
  <2>3. CASE h[2] # k
    <3>1. latestSessions'[k] = latestSessions[k] BY <1>0, <2>2, <2>3
    <3>2. activeSessions'[k] = activeSessions[k] BY <1>0, <2>2, <2>3
    <3> QED BY <3>1, <3>2
  <2>4. CASE h[2] = k
    <3>1. c # h[1] BY <1>0, <1>2, <2>4 DEF LinkOf
    <3>2. c \notin activeSessions[k] => c \notin activeSessions'[k] BY <1>0, <2>2, <2>4, <3>1
    <3>3. latestSessions'[k] = latestSessions[k] \/ latestSessions'[k] = Latest(k, h[1])
      BY <1>0, <2>2, <2>4
    <3>4. ASSUME Once(latestSessions[k], c) PROVE Once(Latest(k, h[1]), c)
      BY <1>0, <2>1, <3>1, <3>4, LatestFacts
    <3>5. c \in ToSet(Latest(k, h[1])) => c \in ToSet(latestSessions[k])
      BY <1>0, <2>1, <3>1, LatestFacts
    <3> QED BY <3>2, <3>3, <3>4, <3>5
  <2> QED BY <2>3, <2>4
<1>3. ASSUME NEW d \in Clients, NEW finished \in BOOLEAN, SendSession(d, finished)
      PROVE  UNCHANGED <<activeSessions, latestSessions>>
  BY <1>3 DEF SendSession
<1>4. ASSUME NEW m \in Coordinators, Crash(m)
      PROVE  /\ latestSessions'[k] \in {latestSessions[k], << >>}
             /\ activeSessions'[k] \subseteq activeSessions[k]
  BY <1>0, <1>4 DEF Crash
<1>5. Once(<< >>, c) /\ c \notin ToSet(<< >>) BY DEF Once, ToSet
<1> QED BY <1>1, <1>2, <1>3, <1>4, <1>5, SessionsChange DEF c, k

\* What was unread of a client's session, when no frame of a session is added or read.
LEMMA UnreadMoves ==
  ASSUME IInv, [Next]_vars, NEW l \in ClientLinks, connects[l] = 1, ~ Connect(l),
         ~ \E h \in Connections : ReadSession(h) /\ LinkOf(h) = l,
         ~ \E finished \in BOOLEAN : SendSession(l[1], finished)
  PROVE  LET x == <<l[1], l[2], 1>>
             q == sent[x] \o framesQueue[l]
             z == sent'[x] \o framesQueue'[l]
         IN z \in Seq(Frames) /\ q \in Seq(Frames)
            /\ (Within(z, q) \/ \E f \in Frames : f.type # "session" /\ z = Append(q, f))
<1> DEFINE x == <<l[1], l[2], 1>>
           a == sent[x]
           b == framesQueue[l]
<1>0. /\ TypeOK /\ NetTypes /\ ConnTypes /\ InfoTypes
      /\ l \in Links /\ l[1] \in Clients /\ l[1] \notin ToolServers /\ l[2] \in Coordinators
      /\ l = <<l[1], l[2]>>
  BY ServerLinkFacts, LinkFacts DEF IInv, TypeOK
<1>1. x \in Connections /\ LinkOf(x) = l /\ x[1] = l[1] /\ x[2] = l[2] /\ x[3] = 1
  <2>1. MaxConnects \in Nat /\ deployment.connects[l[1]] \in 0 .. MaxConnects
    BY <1>0, DeploymentFacts, CoordinatorAssumption DEF Processes
  <2>2. 1 \in 1 .. MaxConnects BY <1>0, <2>1 DEF ConnTypes
  <2>3. x \in Connections BY <1>0, <2>2, ConnectionIs DEF Processes
  <2> QED BY <1>0, <2>3 DEF LinkOf
<1> HIDE DEF x
<1>2. a \in Seq(Frames) /\ b \in Seq(Frames) BY <1>0, <1>1 DEF NetTypes
<1>3. \A m \in Links : conn[m] # 0 /\ Current(m) = x => m = l BY <1>0, <1>1, CurrentFacts
<1>4. conn[l] # 0 => Current(l) = x BY <1>0 DEF ConnTypes, Current, x
<1>5. a \o b \in Seq(Frames) /\ Within(a \o b, a \o b)
  <2>1. a \o b \in Seq(Frames) BY <1>2, ConcatFacts
  <2>2. ASSUME NEW s \in Seq(Frames) PROVE Within(s, s)
    <3>1. \A i \in DOMAIN s : i \in Nat BY LenProperties
    <3>2. \A i \in DOMAIN s : i + 0 = i BY <3>1
    <3> QED BY <3>2 DEF Within
  <2> QED BY <2>1, <2>2
<1> DEFINE Moves(s, t) ==
             /\ s \o t \in Seq(Frames)
             /\ \/ Within(s \o t, a \o b)
                \/ \E f \in Frames : f.type # "session" /\ s \o t = Append(a \o b, f)
<1>6. Moves(a, b) BY <1>5
<1>7. << >> \in Seq(Frames) /\ Moves(a, << >>) /\ Moves(<< >>, b)
  BY <1>2, EmptySeq, ConcatFacts, WithinFacts
<1>8. ASSUME a # << >> PROVE Moves(Tail(a), b)
  BY <1>2, <1>8, TailFacts, ConcatFacts, WithinFacts
<1>9. Moves(a \o b, << >>)
  <2>1. (a \o b) \o << >> = a \o b BY <1>5, ConcatEmptySeq
  <2> QED BY <1>5, <2>1
<1>10. ASSUME NEW f \in Frames, f.type # "session" PROVE Moves(a, Append(b, f))
  <2>1. a \o Append(b, f) = Append(a \o b, f) BY <1>2, ConcatAppend
  <2>2. Append(a \o b, f) \in Seq(Frames) BY <1>5, AppendFacts
  <2> QED BY <1>10, <2>1, <2>2
<1> HIDE DEF a, b, Moves
<1>11. SUFFICES Moves(sent'[x], framesQueue'[l]) BY <1>5 DEF Moves, a, b, x
<1>12. ASSUME NEW m \in Links, QuantSend(m) PROVE sent'[x] = a /\ framesQueue'[l] = b
  <2>1. m # l BY <1>0, <1>12 DEF QuantSend, InfoTypes
  <2> QED BY <1>0, <1>12, <2>1 DEF QuantSend, NetTypes, a, b
<1>13. ASSUME NEW m \in Links, QuantRequest(m), m # l PROVE sent'[x] = a /\ framesQueue'[l] = b
  BY <1>0, <1>13 DEF QuantRequest, NetTypes, a, b
<1>14. ASSUME QuantRequest(l) PROVE Moves(sent'[x], framesQueue'[l])
  <2> DEFINE f == [type |-> "request"]
  <2>1. f \in Frames /\ f.type # "session" BY DEF Frames
  <2>2. sent'[x] = a /\ framesQueue'[l] = Append(b, f)
    BY <1>0, <1>14 DEF QuantRequest, NetTypes, a, b
  <2> QED BY <1>10, <2>1, <2>2
<1>15. ASSUME NEW m \in Links, Write(m), m # l PROVE sent'[x] = a /\ framesQueue'[l] = b
  <2>1. Current(m) # x BY <1>3, <1>15 DEF Write, ClientState
  <2> QED BY <1>0, <1>15, <2>1 DEF Write, NetTypes, a, b
<1>16. ASSUME Write(l) PROVE Moves(sent'[x], framesQueue'[l])
  <2>1. conn[l] # 0 /\ framesQueue'[l] = << >> BY <1>0, <1>16 DEF Write, ClientState, NetTypes
  <2>2. Current(l) = x BY <1>4, <2>1
  <2>3. sent'[x] = a \o b \/ sent'[x] = a BY <1>0, <1>1, <1>16, <2>2 DEF Write, NetTypes, a, b
  <2> QED BY <1>7, <1>9, <2>1, <2>3
<1>17. ASSUME NEW c \in Clients, NEW finished \in BOOLEAN, SendSession(c, finished)
       PROVE  sent'[x] = a /\ framesQueue'[l] = b
  <2>1. l[1] # c BY <1>17
  <2> QED BY <1>0, <1>17, <2>1 DEF SendSession, NetTypes, a, b
<1>18. ASSUME UNCHANGED framesQueue PROVE Moves(sent'[x], framesQueue'[l])
  <2>1. sent'[x] = a \/ sent'[x] = << >> \/ (a # << >> /\ sent'[x] = Tail(a))
    <3>1. ASSUME NEW m \in Links, Write(m) PROVE sent'[x] = a
      <4>1. framesQueue[m] # << >> /\ framesQueue'[m] = << >>
        BY <1>0, <3>1 DEF Write, NetTypes
      <4> QED BY <1>18, <4>1
    <3>2. ASSUME NEW h \in Connections, Break(h) PROVE sent'[x] = a \/ sent'[x] = << >>
      BY <1>0, <1>1, <3>2 DEF Break, NetTypes, a
    <3>3. ASSUME NEW h \in Connections, ReadStatus(h) \/ ReadRequest(h) \/ ReadSession(h)
          PROVE  sent'[x] = a \/ (a # << >> /\ sent'[x] = Tail(a))
      <4>1. sent[h] # << >> /\ sent' = [sent EXCEPT ![h] = Tail(@)]
        BY <3>3 DEF ReadStatus, ReadRequest, ReadSession, NextFrame
      <4>2. CASE h = x BY <1>0, <1>1, <4>1, <4>2 DEF NetTypes, a
      <4>3. CASE h # x BY <1>0, <1>1, <4>1, <4>3 DEF NetTypes, a
      <4> QED BY <4>2, <4>3
    <3>4. ASSUME NEW k \in Coordinators, Crash(k) PROVE sent'[x] = a \/ sent'[x] = << >>
      BY <1>1, <3>4 DEF Crash, a
    <3>5. ASSUME UNCHANGED <<sent>> PROVE sent'[x] = a BY <3>5 DEF a
    <3> QED BY <3>1, <3>2, <3>3, <3>4, <3>5, SentChange
  <2>2. framesQueue'[l] = b BY <1>18 DEF b
  <2> QED BY <1>6, <1>7, <1>8, <2>1, <2>2
<1> QED BY <1>6, <1>12, <1>13, <1>14, <1>15, <1>16, <1>17, <1>18, QueuesChange

LEMMA SessionsKept ==
  ASSUME IInv, [Next]_vars
  PROVE  Sessions'
<1> SUFFICES ASSUME NEW l \in ClientLinks
             PROVE  /\ connects'[l] = 0 =>
                         /\ framesQueue'[l] = << >> /\ l[1] \notin ToSet(latestSessions'[l[2]])
                         /\ \A h \in Connections : LinkOf(h) = l => sent'[h] = << >>
                    /\ connects'[l] = 1 /\ session'[l[1]] # "late" =>
                         InOrder(Unread(l)', l[1], session'[l[1]], activeSessions'[l[2]],
                                 latestSessions'[l[2]])
  BY DEF Sessions, InOrder, Once, Ends, Unread
<1> DEFINE c == l[1]
           k == l[2]
           x == <<l[1], l[2], 1>>
<1>0. /\ TypeOK /\ NetTypes /\ ConnTypes /\ InfoTypes /\ SessionTypes
      /\ l \in Links /\ c \in Clients /\ c \notin ToolServers /\ k \in Coordinators
      /\ connects[l] \in Nat /\ conn[l] \in {0, connects[l]}
  BY ServerLinkFacts, LinkFacts DEF IInv, TypeOK, ConnTypes
<1>1. \/ connects'[l] = connects[l] /\ ~ Connect(l)
      \/ Connect(l) /\ connects'[l] = connects[l] + 1
  <2>1. ASSUME Connect(l) PROVE connects'[l] = connects[l] + 1
    BY <1>0, <2>1 DEF Connect, ConnTypes
  <2>2. ASSUME NEW m \in Links, Connect(m), m # l PROVE connects'[l] = connects[l]
    BY <1>0, <2>2 DEF Connect, ConnTypes
  <2>3. ASSUME NEW m \in Links, LoseConnection(m) \/ ApplyList(m) PROVE connects'[l] = connects[l]
    BY <2>3 DEF LoseConnection, ApplyList
  <2> QED BY <2>1, <2>2, <2>3, ConnsChange
<1>2. ASSUME connects'[l] = 0
      PROVE  /\ framesQueue'[l] = << >> /\ c \notin ToSet(latestSessions'[k])
             /\ \A h \in Connections : LinkOf(h) = l => sent'[h] = << >>
  <2>1. connects[l] = 0 /\ conn[l] = 0 BY <1>0, <1>1, <1>2
  <2>2. /\ framesQueue[l] = << >> /\ c \notin ToSet(latestSessions[k])
        /\ \A h \in Connections : LinkOf(h) = l => sent[h] = << >>
    BY <2>1 DEF IInv, Sessions
  <2>3. framesQueue'[l] = << >>
    <3>1. ASSUME NEW m \in Links, QuantSend(m) \/ QuantRequest(m) PROVE framesQueue'[l] = << >>
      <4>1. m # l BY <1>0, <2>1, <3>1 DEF QuantSend, QuantRequest, InfoTypes, ClientState
      <4> QED BY <1>0, <2>2, <3>1, <4>1 DEF QuantSend, QuantRequest, NetTypes
    <3>2. ASSUME NEW m \in Links, Write(m) PROVE framesQueue'[l] = << >>
      BY <1>0, <2>2, <3>2 DEF Write, NetTypes
    <3>3. ASSUME NEW d \in Clients, NEW finished \in BOOLEAN, SendSession(d, finished)
          PROVE  framesQueue'[l] = << >>
      BY <1>0, <2>1, <2>2, <3>3 DEF SendSession, ClientState
    <3> QED BY <2>2, <3>1, <3>2, <3>3, QueuesChange
  <2>4. c \notin ToSet(latestSessions'[k])
    <3>1. ~ \E h \in Connections : ReadSession(h) /\ LinkOf(h) = l BY <2>2, SessionReadFacts
    <3> QED BY <2>2, <3>1, OtherSessions
  <2>5. ASSUME NEW h \in Connections, LinkOf(h) = l PROVE sent'[h] = << >>
    <3>0. sent[h] = << >> BY <2>2, <2>5
    <3>1. ASSUME NEW m \in Links, Write(m) PROVE sent'[h] = << >>
      <4>1. Current(m) # h BY <1>0, <2>1, <2>5, <3>1, CurrentFacts DEF Write, ClientState
      <4> QED BY <1>0, <3>0, <3>1, <4>1 DEF Write, NetTypes
    <3>2. ASSUME NEW g \in Connections, Break(g) PROVE sent'[h] = << >>
      BY <1>0, <3>0, <3>2 DEF Break, NetTypes
    <3>3. ASSUME NEW g \in Connections, ReadStatus(g) \/ ReadRequest(g) \/ ReadSession(g)
          PROVE  sent'[h] = << >>
      <4>1. sent[g] # << >> /\ sent' = [sent EXCEPT ![g] = Tail(@)]
        BY <3>3 DEF ReadStatus, ReadRequest, ReadSession, NextFrame
      <4> QED BY <1>0, <3>0, <4>1 DEF NetTypes
    <3>4. ASSUME NEW m \in Coordinators, Crash(m) PROVE sent'[h] = << >>
      BY <3>0, <3>4 DEF Crash
    <3> QED BY <3>0, <3>1, <3>2, <3>3, <3>4, SentChange
  <2> QED BY <2>3, <2>4, <2>5
<1>3. ASSUME connects'[l] = 1, session'[c] # "late"
      PROVE  InOrder(sent'[x] \o framesQueue'[l], c, session'[c], activeSessions'[k],
                     latestSessions'[k])
  <2>1. CASE Connect(l)
    <3>1. connects[l] = 0 BY <1>0, <1>1, <1>3, <2>1
    <3>2. /\ framesQueue[l] = << >> /\ c \notin ToSet(latestSessions[k])
          /\ \A h \in Connections : LinkOf(h) = l => sent[h] = << >>
      BY <3>1 DEF IInv, Sessions
    <3>3. x \in Connections /\ LinkOf(x) = l
      <4>1. <<l[1], l[2], connects[l] + 1>> \in Connections
            /\ LinkOf(<<l[1], l[2], connects[l] + 1>>) = l
        BY <1>0, <2>1, ConnectFacts
      <4> QED BY <3>1, <4>1
    <3>4. /\ framesQueue'[l] = << >> /\ sent'[x] = << >> /\ latestSessions'[k] = latestSessions[k]
      BY <2>1, <3>2, <3>3 DEF Connect
    <3>5. << >> \o << >> = << >> BY EmptySeq, ConcatEmptySeq
    <3>6. Once(latestSessions'[k], c) BY <3>2, <3>4 DEF Once, ToSet
    <3>7. DOMAIN (sent'[x] \o framesQueue'[l]) = {} BY <3>4, <3>5
    <3> QED BY <3>2, <3>4, <3>6, <3>7 DEF InOrder
  <2>2. CASE ~ Connect(l)
    <3>0. connects[l] = 1 BY <1>1, <1>3, <2>2
    <3>1. session[c] # "late" /\ (session'[c] = session[c] \/ \E f \in BOOLEAN : SendSession(c, f))
      <4>1. ASSUME NEW h \in Connections, ReadSession(h) PROVE session'[c] = session[c]
        BY <4>1 DEF ReadSession
      <4>2. ASSUME NEW m \in Coordinators, Crash(m) PROVE session'[c] = session[c]
        BY <4>2 DEF Crash
      <4>3. ASSUME NEW d \in Clients, NEW f \in BOOLEAN, SendSession(d, f), d # c
            PROVE  session'[c] = session[c]
        BY <1>0, <4>3 DEF SendSession, SessionTypes
      <4>4. ASSUME NEW f \in BOOLEAN, SendSession(c, f) PROVE session[c] # "late"
        BY <4>4 DEF SendSession, NextSession
      <4> QED BY <1>3, <4>1, <4>2, <4>3, <4>4, SessionsChange
    <3>2. InOrder(sent[x] \o framesQueue[l], c, session[c], activeSessions[k], latestSessions[k])
      BY <3>0, <3>1 DEF IInv, Sessions, Unread
    <3>3. x \in Connections /\ LinkOf(x) = l /\ x[3] = 1
      <4>1. MaxConnects \in Nat /\ deployment.connects[l[1]] \in 0 .. MaxConnects
        BY <1>0, DeploymentFacts, CoordinatorAssumption DEF Processes
      <4>2. 1 \in 1 .. MaxConnects BY <1>0, <3>0, <4>1 DEF ConnTypes
      <4>3. x \in Connections BY <1>0, <4>2, ConnectionIs DEF Processes
      <4> QED BY <1>0, <4>3, LinkFacts DEF LinkOf
    <3>4. sent[x] \in Seq(Frames) /\ framesQueue[l] \in Seq(Frames)
      BY <1>0, <3>3 DEF NetTypes
    <3>5. CASE \E h \in Connections : ReadSession(h) /\ LinkOf(h) = l
      <4>1. PICK h \in Connections : ReadSession(h) /\ LinkOf(h) = l BY <3>5
      <4>2. h = x
        <5>1. handlers[h] = "open" /\ sent' = [sent EXCEPT ![h] = Tail(@)]
          BY <4>1, SessionReadFacts
        <5>2. ~ (h[3] > 1) BY <3>0, <4>1, <5>1 DEF IInv, HandlersFit
        <5>3. h = <<h[1], h[2], h[3]>> /\ h[3] \in 1 .. MaxConnects /\ MaxConnects \in Nat
          BY ConnectionFacts, CoordinatorAssumption
        <5>4. h[3] = 1 BY <5>2, <5>3
        <5>5. h[1] = l[1] /\ h[2] = l[2] BY <4>1 DEF LinkOf
        <5> QED BY <5>3, <5>4, <5>5
      <4>3. sent'[x] = Tail(sent[x])
        <5>1. sent' = [sent EXCEPT ![h] = Tail(@)] BY <4>1, SessionReadFacts
        <5>2. h \in DOMAIN sent BY <1>0 DEF NetTypes
        <5>3. sent'[h] = Tail(sent[h]) BY <5>1, <5>2
        <5> QED BY <4>2, <5>3
      <4>4. framesQueue' = framesQueue /\ session' = session BY <4>1 DEF ReadSession
      <4>5. InOrder(Tail(sent[x]) \o framesQueue[l], c, session[c], activeSessions'[k],
                    latestSessions'[k])
        <5>1. x[1] = c /\ x[2] = k OBVIOUS
        <5>2. InOrder(sent[x] \o framesQueue[l], x[1], session[c], activeSessions[x[2]],
                      latestSessions[x[2]])
          BY <3>2, <5>1
        <5> HIDE DEF x
        <5>3. InOrder(Tail(sent[x]) \o framesQueue[l], x[1], session[c], activeSessions'[x[2]],
                      latestSessions'[x[2]])
          BY <3>3, <3>4, <4>1, <4>2, <5>2, SessionRead
        <5> QED BY <5>1, <5>3
      <4> QED BY <4>3, <4>4, <4>5
    <3>6. CASE ~ \E h \in Connections : ReadSession(h) /\ LinkOf(h) = l
      <4> DEFINE q == sent[x] \o framesQueue[l]
                 z == sent'[x] \o framesQueue'[l]
      <4>1. /\ c \in ToSet(latestSessions'[k]) => c \in ToSet(latestSessions[k])
            /\ c \notin activeSessions[k] => c \notin activeSessions'[k]
            /\ Once(latestSessions[k], c) => Once(latestSessions'[k], c)
        BY <3>6, OtherSessions
      <4>2. q \in Seq(Frames) BY <3>4, ConcatFacts
      <4>3. InOrder(q, c, session[c], activeSessions[k], latestSessions[k]) BY <3>2
      <4>4. InOrder(z, c, session'[c], activeSessions[k], latestSessions[k])
        <5>1. CASE ~ \E f \in BOOLEAN : SendSession(c, f)
          <6>1. /\ z \in Seq(Frames)
                /\ Within(z, q) \/ \E f \in Frames : f.type # "session" /\ z = Append(q, f)
            BY <2>2, <3>0, <3>6, <5>1, UnreadMoves
          <6>2. session'[c] = session[c] BY <3>1, <5>1
          <6> HIDE DEF q, z, x, c, k
          <6>3. CASE Within(z, q) BY <4>2, <4>3, <6>1, <6>2, <6>3, InOrderWithin
          <6>4. ASSUME NEW f \in Frames, f.type # "session", z = Append(q, f)
                PROVE  InOrder(z, c, session'[c], activeSessions[k], latestSessions[k])
            <7>1. InOrder(Append(q, f), c, session[c], activeSessions[k], latestSessions[k])
              BY <4>2, <4>3, <6>4, InOrderAppend
            <7> QED BY <6>2, <6>4, <7>1
          <6> QED BY <6>1, <6>3, <6>4
        <5>2. CASE \E f \in BOOLEAN : SendSession(c, f)
          <6>1. PICK finished \in BOOLEAN : SendSession(c, finished) BY <5>2
          <6> DEFINE f == [type |-> "session", finished |-> finished]
          <6>2. /\ session'[c] = IF finished THEN "finished" ELSE "running"
                /\ session[c] \in {"none", "running"}
            BY <1>0, <1>3, <6>1 DEF SendSession, NextSession, SessionTypes
          <6>3. /\ sent' = sent
                /\ framesQueue'[l] = framesQueue[l] \/ framesQueue'[l] = Append(framesQueue[l], f)
            BY <1>0, <6>1 DEF SendSession
          <6>4. f \in Frames /\ f.finished = finished BY DEF Frames
          <6>5. z = q \/ z = Append(q, f)
            <7>1. sent[x] \o Append(framesQueue[l], f) = Append(q, f)
              BY <3>4, <6>4, ConcatAppend
            <7> QED BY <6>3, <7>1
          <6> HIDE DEF q, z, x, c, k, f
          <6>6. /\ c \notin ToSet(latestSessions[k])
                /\ \A i \in DOMAIN q : ~ Ends(q[i])
            BY <4>3, <6>2 DEF InOrder, Ends
          <6>7. InOrder(q, c, session'[c], activeSessions[k], latestSessions[k])
            <7>1. session'[c] # "none" BY <6>2
            <7> QED BY <4>3, <6>2, <6>6, <7>1 DEF InOrder
          <6>8. InOrder(Append(q, f), c, session'[c], activeSessions[k], latestSessions[k])
            BY <4>2, <6>2, <6>4, <6>6, <6>7, InOrderAppend
          <6> QED BY <6>5, <6>7, <6>8
        <5> QED BY <5>1, <5>2
      <4> HIDE DEF z, c, k
      <4>5. InOrder(z, c, session'[c], activeSessions'[k], latestSessions'[k])
        BY <4>1, <4>4 DEF InOrder
      <4> QED BY <4>5 DEF z
    <3> QED BY <3>5, <3>6
  <2> QED BY <2>1, <2>2
<1>4. Unread(l)' = sent'[x] \o framesQueue'[l] BY DEF Unread
<1> QED BY <1>2, <1>3, <1>4

LEMMA FinishedFollows == IInv => FinishedIsNotActive
<1> SUFFICES ASSUME IInv, NEW c \in Clients, NEW k \in Coordinators,
                    session[c] # "late", connects[<<c, k>>] = 1, c \in ToSet(latestSessions[k])
             PROVE  /\ c \notin activeSessions[k]
                    /\ Cardinality({i \in DOMAIN latestSessions[k] : latestSessions[k][i] = c}) = 1
  BY DEF FinishedIsNotActive
<1> DEFINE l == <<c, k>>
           s == latestSessions[k]
<1>1. l \in ClientLinks /\ l[1] = c /\ l[2] = k BY DEF ClientLinks
<1>2. InOrder(Unread(l), c, session[c], activeSessions[k], s) BY <1>1 DEF IInv, Sessions
<1> HIDE DEF l
<1>3. c \notin activeSessions[k] /\ Once(s, c) BY <1>2 DEF InOrder
<1>4. PICK i \in DOMAIN s : s[i] = c BY DEF ToSet
<1>5. {j \in DOMAIN s : s[j] = c} = {i} BY <1>3, <1>4 DEF Once
<1> QED BY <1>3, <1>5, FS_Singleton

(***************************************************************************)
(* The theorems.                                                           *)
(***************************************************************************)
LEMMA InitiallyAll == Init => IInv
<1> SUFFICES ASSUME Init PROVE IInv OBVIOUS
<1>1. TypeOK /\ FramesFit /\ ReadersFit BY Initially
<1>2. \A k \in Coordinators : DOMAIN toolServers[k] = {} BY DEF Init
<1>3. ListedOnce /\ MarkedHere /\ EntriesAreOwned
  BY <1>2 DEF ListedOnce, MarkedHere, EntriesAreOwned
<1>4. SlotsFit /\ CopiesAgree BY DEF Init, SlotsFit, CopiesAgree, Idle
<1>5. \A l \in Links : conn[l] = 0 /\ reading[l] = None BY DEF Init
<1>6. HandlersFit BY <1>5 DEF Init, HandlersFit
<1>7. WorkersRun BY <1>5 DEF WorkersRun
<1>8. WillAnnounce /\ OnItsWay /\ ClientsAreTold /\ NewestAgrees
  BY <1>5, ServerLinkFacts DEF Init, WillAnnounce, OnItsWay, ClientsAreTold, NewestAgrees, Served
<1>9. Chosen /\ UpToDate
  <2>1. \A l \in ServerLinks : linkInfo[l] = info[l[1]] BY DEF Init, ServerLinks
  <2> QED BY <2>1 DEF Init, Chosen, UpToDate
<1>10. Sessions
  <2>1. ASSUME NEW l \in ClientLinks
        PROVE  /\ connects[l] = 0 /\ framesQueue[l] = << >>
               /\ l[1] \notin ToSet(latestSessions[l[2]])
               /\ \A h \in Connections : sent[h] = << >>
    BY ServerLinkFacts, LinkFacts DEF Init, ToSet
  <2> QED BY <2>1 DEF Sessions
<1> QED BY <1>1, <1>3, <1>4, <1>6, <1>7, <1>8, <1>9, <1>10 DEF IInv

LEMMA IInvKept == IInv /\ [Next]_vars => IInv'
<1> SUFFICES ASSUME IInv, [Next]_vars PROVE IInv' OBVIOUS
<1>1. TypeOK' /\ FramesFit' /\ ReadersFit' BY TypesKept, FramesFitKept, ReadersFitKept
<1>2. ListedOnce' /\ MarkedHere' /\ SlotsFit' /\ EntriesAreOwned'
  BY ListedOnceKept, SlotsFitKept, EntriesAreOwnedKept
<1>3. HandlersFit' /\ WorkersRun' /\ WillAnnounce' /\ UpToDate' /\ OnItsWay'
  BY HandlersFitKept, WorkersRunKept, WillAnnounceKept, UpToDateKept, OnItsWayKept
<1>4. Chosen' /\ Sessions' BY ChosenKept, SessionsKept
<1>5. ClientsAreTold' /\ CopiesAgree' /\ NewestAgrees'
  BY ClientsAreToldKept, CopiesAgreeKept, NewestAgreesKept
<1> QED BY <1>1, <1>2, <1>3, <1>4, <1>5 DEF IInv

LEMMA AlwaysIInv == Spec => []IInv
BY InitiallyAll, IInvKept, PTL DEF Spec

\* The state of the processes, of the network and of the coordinators keeps its types: among
\* them, a link's connection is its last or none, and no more workers run than a process has
\* hosts (CoordinatorClient.cpp, CoordinatorServer.cpp).
THEOREM CoordinatorTypes == Spec => []TypeOK
<1>1. IInv => TypeOK BY DEF IInv
<1> QED BY <1>1, AlwaysIInv, PTL

\* The destroy callback never leaves a tool server listed that nobody will remove
\* (CoordinatorServer.cpp): in whatever order connections are made and lost, statuses are
\* read, pointers to the deque are used after the lock and entries are erased, the owner of
\* an entry is a connection of its tool server, unless a stale pointer was written through.
THEOREM ListedAreOwned == Spec => []EntriesAreOwned
<1>1. IInv => EntriesAreOwned BY DEF IInv
<1> QED BY <1>1, AlwaysIInv, PTL

\* Between m_needSendToolServerInfo, the read of m_toolServerInfo, the queue and
\* reconnections, no change of a tool server's info is lost, unless the worker was not in
\* m_workers yet.
THEOREM InfoIsListed == Spec => []AnnouncedIsListed
BY AnnouncedFollows, AlwaysIInv, PTL

\* StopExtraClients leaves a client one worker, whatever lists arrive together
\* (CoordinatorClient.cpp).
THEOREM OneWorkerLeft == Spec => []ExactlyOneChosen
BY OneChosenFollows, AlwaysIInv, PTL

\* Between the list a client's connection starts with, the answers to its requests and the
\* broadcasts, no tool server is announced past a client; and when no lists crossed, what a
\* client with one coordinator has settled on is what the coordinator lists, for any number
\* of tool servers, clients and changes.
THEOREM ListedAreFresh == Spec => []ClientsAreFresh
BY ClientsAreFreshFollows, AlwaysIInv, PTL

\* The session reader remembers a session that ended in order once, and does not show it as
\* active (CoordinatorServer.cpp).
THEOREM FinishedAreRemembered == Spec => []FinishedIsNotActive
BY FinishedFollows, AlwaysIInv, PTL

(***************************************************************************)
(* What a step may never do to a list.                                     *)
(***************************************************************************)
Erased(t, k) ==
  \E h \in Connections :
    LinkOf(h) = <<t, k>> /\ handlers[h] = "broken" /\ handlers'[h] = "erased"

\* CoordinatorServer.cpp:98-106, the destroy callback, is what takes a tool server out of a
\* list, and it takes out nobody else's: a tool server leaves the list of a coordinator that
\* runs on only when a broken connection of its own is erased, unless a pointer was used
\* that an erasure had invalidated.
LeavesOnItsOwn ==
  [][\A k \in Coordinators \ dangled, t \in ToolServers :
       Slots(k, t) # {} /\ Slots(k, t)' = {} => k \notin up' \/ Erased(t, k)]_vars

LEMMA LeavesStep ==
  ASSUME IInv, [Next]_vars, NEW k \in Coordinators \ dangled, NEW t \in ToolServers,
         Slots(k, t) # {}, Slots(k, t)' = {}
  PROVE  k \notin up' \/ Erased(t, k)
<1>0. PICK i \in DOMAIN toolServers[k] : toolServers[k][i].ts = t BY DEF Slots
<1>1. \A j \in DOMAIN toolServers'[k] : toolServers'[k][j].ts # t BY DEF Slots
<1>2. ASSUME NEW h \in Connections, ReadStatus(h) PROVE FALSE
  <2>1. ~ UNCHANGED <<toolServers, reader, overlapped>> BY <1>0, <1>1
  <2>2. k = h[2] BY <1>0, <1>1, <1>2, <2>1, UpdatedElsewhere
  <2>3. PICK n \in DOMAIN toolServers'[h[2]] : UpdatedAt(h, n) BY <1>2, <2>1, UpdatedHere
  <2>4. CASE i = n
    <3>1. toolServers'[k][n].ts = h[1] /\ t = h[1] BY <1>0, <2>2, <2>3, <2>4 DEF UpdatedAt
    <3> QED BY <1>1, <2>2, <2>3, <3>1
  <2>5. CASE i # n
    <3>1. i \in DOMAIN toolServers'[k] /\ toolServers'[k][i] = toolServers[k][i]
      BY <1>0, <2>2, <2>3, <2>5 DEF UpdatedAt
    <3> QED BY <1>0, <1>1, <3>1
  <2> QED BY <2>4, <2>5
<1>3. ASSUME NEW h \in Connections, MarkHandler(h) \/ MarkDangling(h) PROVE FALSE
  <2>1. /\ DOMAIN toolServers'[k] = DOMAIN toolServers[k]
        /\ toolServers'[k][i].ts = toolServers[k][i].ts
    BY <1>0, <1>3, MarkEntries
  <2> QED BY <1>0, <1>1, <2>1
<1>4. ASSUME NEW h \in Connections, EraseWorker(h) PROVE Erased(t, k)
  <2>1. ~ UNCHANGED <<toolServers, reader>> BY <1>0, <1>1
  <2>2. k = h[2] BY <1>0, <1>1, <1>4, <2>1, EraseElsewhere
  <2>3. PICK first \in DOMAIN toolServers[k] : ErasedAt(k, h, first)
    BY <1>4, <2>1, <2>2, EraseHere
  <2>4. i = first
    <3>1. /\ DOMAIN toolServers[k] = 1 .. Len(toolServers[k]) /\ Len(toolServers[k]) \in Nat \ {0}
          /\ DOMAIN toolServers'[k] = 1 .. Len(toolServers[k]) - 1
          /\ \A j \in 1 .. Len(toolServers[k]) - 1 :
               toolServers'[k][j] = IF j < first THEN toolServers[k][j] ELSE toolServers[k][j + 1]
      BY <2>3 DEF ErasedAt
    <3>2. CASE i < first
      <4>1. i \in 1 .. Len(toolServers[k]) - 1 BY <1>0, <2>3, <3>1, <3>2
      <4>2. toolServers'[k][i] = toolServers[k][i] BY <3>1, <3>2, <4>1
      <4> QED BY <1>0, <1>1, <3>1, <4>1, <4>2
    <3>3. CASE i > first
      <4>1. i - 1 \in 1 .. Len(toolServers[k]) - 1 /\ ~(i - 1 < first) /\ (i - 1) + 1 = i
        BY <1>0, <2>3, <3>1, <3>3
      <4>2. toolServers'[k][i - 1] = toolServers[k][i] BY <3>1, <4>1
      <4> QED BY <1>0, <1>1, <3>1, <4>1, <4>2
    <3> QED BY <1>0, <2>3, <3>1, <3>2, <3>3
  <2>5. toolServers[k][i].handler = h BY <2>3, <2>4 DEF ErasedAt
  <2>6. h[1] = t
    <3>1. toolServers[k][i].handler # None BY <2>5, ConnectionFacts
    <3>2. toolServers[k][i].handler[1] = toolServers[k][i].ts
      BY <1>0, <3>1 DEF IInv, EntriesAreOwned
    <3> QED BY <1>0, <2>5, <3>2
  <2>7. handlers[h] = "broken" /\ handlers'[h] = "erased"
    <3>1. handlers[h] = "broken" /\ handlers' = [handlers EXCEPT ![h] = "erased"]
      BY <1>4, EraseFacts
    <3>2. DOMAIN handlers = Connections BY DEF IInv, TypeOK, NetTypes
    <3> QED BY <3>1, <3>2
  <2>8. LinkOf(h) = <<t, k>> BY <2>2, <2>6 DEF LinkOf
  <2> QED BY <2>7, <2>8 DEF Erased
<1>5. ASSUME NEW m \in Coordinators, Crash(m) PROVE k \notin up'
  <2>1. m = k BY <1>0, <1>1, <1>5, CrashFacts
  <2> QED BY <1>5, <2>1 DEF Crash
<1>6. ~ UNCHANGED <<toolServers, overlapped, dangled>> BY <1>0, <1>1
<1> QED BY <1>2, <1>3, <1>4, <1>5, <1>6, ListedChange

\* CoordinatorServer.cpp:98-106: no erasure for one tool server's connection takes another
\* one out of the list.
THEOREM NobodyLeavesForAnother == Spec => LeavesOnItsOwn
<1> DEFINE P == \A k \in Coordinators \ dangled, t \in ToolServers :
                  Slots(k, t) # {} /\ Slots(k, t)' = {} => k \notin up' \/ Erased(t, k)
<1>1. IInv /\ [Next]_vars => P BY LeavesStep
<1>2. IInv /\ [Next]_vars => [P]_vars BY <1>1
<1>3. Spec => []IInv BY AlwaysIInv
<1>4. Spec => [][Next]_vars BY PTL DEF Spec
<1> HIDE DEF P
<1>5. Spec => [][P]_vars BY <1>2, <1>3, <1>4, PTL
<1> QED BY <1>5 DEF LeavesOnItsOwn, P

(***************************************************************************)
(* The infos of a tool server arrive in their order.                       *)
(***************************************************************************)
Numbered(s) == \A i \in DOMAIN s : s[i].ver \in Infos
Ascending(s) == \A i, j \in DOMAIN s : i <= j => s[i].ver <= s[j].ver
Precedes(s, r) == \A i \in DOMAIN s, j \in DOMAIN r : s[i].ver <= r[j].ver
AtMost(s, n) == \A i \in DOMAIN s : s[i].ver <= n
AtLeast(s, n) == \A i \in DOMAIN s : n <= s[i].ver

LatestConn(l) == <<l[1], l[2], connects[l]>>

\* The queue of a tool server's link ascends to the info of the link.
QueueAscends ==
  \A l \in ServerLinks :
    /\ linkInfo[l] <= info[l[1]]
    /\ Ascending(framesQueue[l]) /\ AtMost(framesQueue[l], linkInfo[l])

\* What was sent to a connection ascends to what is queued.
SentAscends ==
  \A h \in Connections : h[1] \in ToolServers =>
    /\ Ascending(sent[h]) /\ AtMost(sent[h], linkInfo[LinkOf(h)])
    /\ Precedes(sent[h], framesQueue[LinkOf(h)])
    /\ h[3] > connects[LinkOf(h)] => sent[h] = << >>

\* Only the latest connection of a link can have a handler, unless it is a double.
OlderErased ==
  \A h \in Connections :
    h[3] < connects[LinkOf(h)] /\ LatestConn(LinkOf(h)) \notin doubled => handlers[h] = "erased"

\* All that is on its way to a coordinator is at least as new.
Behind(l, ver) ==
  /\ ver <= linkInfo[l] /\ AtLeast(framesQueue[l], ver)
  /\ connects[l] # 0 /\ LatestConn(l) \notin doubled => AtLeast(sent[LatestConn(l)], ver)

ListedBehind ==
  \A k \in Coordinators : \A i \in DOMAIN toolServers[k] :
    Behind(<<toolServers[k][i].ts, k>>, toolServers[k][i].ver)

InfoOrder == QueueAscends /\ SentAscends /\ OlderErased /\ ListedBehind

LEMMA InfosAreNumbers == \A n \in Infos : n \in Nat
BY CoordinatorAssumption DEF Infos

LEMMA NumberedAre ==
  ASSUME IInv
  PROVE  /\ \A l \in ServerLinks :
              framesQueue[l] \in Seq(Frames) /\ Numbered(framesQueue[l]) /\ linkInfo[l] \in Infos
         /\ \A h \in Connections :
              h[1] \in ToolServers => sent[h] \in Seq(Frames) /\ Numbered(sent[h])
<1>1. ASSUME NEW s \in Seq(Frames), \A i \in DOMAIN s : s[i].type = "status" PROVE Numbered(s)
  <2>1. ASSUME NEW i \in DOMAIN s PROVE s[i].ver \in Infos
    <3>1. s[i] \in Frames BY <1>1, <2>1, LenProperties
    <3> QED BY <1>1, <2>1, <3>1 DEF Frames
  <2> QED BY <2>1 DEF Numbered
<1>2. ASSUME NEW l \in ServerLinks
      PROVE  framesQueue[l] \in Seq(Frames) /\ Numbered(framesQueue[l]) /\ linkInfo[l] \in Infos
  <2>1. l \in Links /\ l[1] \in ToolServers BY ServerLinkFacts
  <2>2. framesQueue[l] \in Seq(Frames) BY <2>1 DEF IInv, TypeOK, NetTypes
  <2>3. \A i \in DOMAIN framesQueue[l] : framesQueue[l][i].type = "status"
    BY <2>1 DEF IInv, FramesFit
  <2>4. linkInfo[l] \in Infos BY DEF IInv, TypeOK, InfoTypes, ServerLinks
  <2> QED BY <1>1, <2>2, <2>3, <2>4
<1>3. ASSUME NEW h \in Connections, h[1] \in ToolServers
      PROVE  sent[h] \in Seq(Frames) /\ Numbered(sent[h])
  <2>1. sent[h] \in Seq(Frames) BY DEF IInv, TypeOK, NetTypes
  <2>2. \A i \in DOMAIN sent[h] : sent[h][i].type = "status" BY <1>3 DEF IInv, FramesFit
  <2> QED BY <1>1, <2>1, <2>2
<1> QED BY <1>2, <1>3

LEMMA NothingAscends ==
  \A s, n : /\ Ascending(<< >>) /\ AtMost(<< >>, n) /\ AtLeast(<< >>, n)
            /\ Precedes(<< >>, s) /\ Precedes(s, << >>)
BY DEF Ascending, AtMost, AtLeast, Precedes

LEMMA RaisedBound ==
  ASSUME NEW s, NEW m \in Infos, NEW n \in Infos, m <= n, Numbered(s), AtMost(s, m)
  PROVE  AtMost(s, n)
BY InfosAreNumbers DEF AtMost, Numbered

LEMMA AscendingAppend ==
  ASSUME NEW s \in Seq(Frames), NEW x \in Frames, x.ver \in Infos,
         Ascending(s), AtMost(s, x.ver)
  PROVE  /\ Ascending(Append(s, x)) /\ AtMost(Append(s, x), x.ver)
         /\ \A n : AtLeast(s, n) /\ n <= x.ver => AtLeast(Append(s, x), n)
         /\ \A r : Precedes(r, s) /\ AtMost(r, x.ver) => Precedes(r, Append(s, x))
<1> DEFINE c == Append(s, x)
<1>1. /\ DOMAIN c = 1 .. Len(s) + 1 /\ DOMAIN s = 1 .. Len(s) /\ Len(s) \in Nat
      /\ \A i \in 1 .. Len(s) : c[i] = s[i]
      /\ c[Len(s) + 1] = x
  BY AppendFacts
<1> HIDE DEF c
<1>2. \A i \in DOMAIN c : (i \in DOMAIN s /\ c[i] = s[i]) \/ (i = Len(s) + 1 /\ c[i] = x) BY <1>1
<1>3. x.ver <= x.ver BY InfosAreNumbers
<1>4. AtMost(c, x.ver) BY <1>2, <1>3 DEF AtMost
<1>5. ASSUME NEW i \in DOMAIN c, NEW j \in DOMAIN c, i <= j PROVE c[i].ver <= c[j].ver
  <2>1. CASE j = Len(s) + 1 BY <1>1, <1>4, <2>1 DEF AtMost
  <2>2. CASE j # Len(s) + 1
    <3>1. j \in DOMAIN s /\ i \in DOMAIN s /\ c[i] = s[i] /\ c[j] = s[j] BY <1>1, <1>5, <2>2
    <3> QED BY <1>5, <3>1 DEF Ascending
  <2> QED BY <2>1, <2>2
<1>6. \A n : AtLeast(s, n) /\ n <= x.ver => AtLeast(c, n) BY <1>2 DEF AtLeast
<1>7. \A r : Precedes(r, s) /\ AtMost(r, x.ver) => Precedes(r, c) BY <1>2 DEF Precedes, AtMost
<1>8. Ascending(c) BY <1>5 DEF Ascending
<1> QED BY <1>4, <1>6, <1>7, <1>8 DEF c

LEMMA AscendingTail ==
  ASSUME NEW s \in Seq(Frames), s # << >>, Ascending(s)
  PROVE  /\ Ascending(Tail(s)) /\ AtLeast(Tail(s), s[1].ver) /\ 1 \in DOMAIN s
         /\ \A n : /\ AtMost(s, n) => AtMost(Tail(s), n) /\ s[1].ver <= n
                   /\ AtLeast(s, n) => AtLeast(Tail(s), n) /\ n <= s[1].ver
         /\ \A r : Precedes(s, r) => Precedes(Tail(s), r) /\ AtLeast(r, s[1].ver)
<1> DEFINE c == Tail(s)
<1>1. /\ DOMAIN s = 1 .. Len(s) /\ Len(s) \in Nat \ {0}
      /\ DOMAIN c = 1 .. Len(s) - 1 /\ \A i \in 1 .. Len(s) - 1 : c[i] = s[i + 1]
  BY TailFacts, LenProperties
<1> HIDE DEF c
<1>2. /\ 1 \in DOMAIN s
      /\ \A i \in DOMAIN c : i \in Nat /\ i + 1 \in DOMAIN s /\ c[i] = s[i + 1] /\ 1 <= i + 1
  BY <1>1
<1>3. Ascending(c)
  <2>1. ASSUME NEW i \in DOMAIN c, NEW j \in DOMAIN c, i <= j PROVE c[i].ver <= c[j].ver
    <3>1. i + 1 <= j + 1 BY <1>2, <2>1
    <3> QED BY <1>2, <3>1 DEF Ascending
  <2> QED BY <2>1 DEF Ascending
<1>4. AtLeast(c, s[1].ver) BY <1>2 DEF Ascending, AtLeast
<1>5. \A n : /\ AtMost(s, n) => AtMost(c, n) /\ s[1].ver <= n
             /\ AtLeast(s, n) => AtLeast(c, n) /\ n <= s[1].ver
  BY <1>2 DEF AtMost, AtLeast
<1>6. \A r : Precedes(s, r) => Precedes(c, r) /\ AtLeast(r, s[1].ver)
  BY <1>2 DEF Precedes, AtLeast
<1> QED BY <1>2, <1>3, <1>4, <1>5, <1>6 DEF c

LEMMA AscendingConcat ==
  ASSUME NEW s \in Seq(Frames), NEW r \in Seq(Frames), Ascending(s), Ascending(r), Precedes(s, r)
  PROVE  /\ Ascending(s \o r)
         /\ \A n : /\ AtMost(s, n) /\ AtMost(r, n) => AtMost(s \o r, n)
                   /\ AtLeast(s, n) /\ AtLeast(r, n) => AtLeast(s \o r, n)
<1> DEFINE c == s \o r
<1>1. /\ DOMAIN s = 1 .. Len(s) /\ DOMAIN r = 1 .. Len(r) /\ Len(s) \in Nat /\ Len(r) \in Nat
      /\ \A i \in DOMAIN c :
           \/ i \in DOMAIN s /\ c[i] = s[i]
           \/ \E j \in DOMAIN r : i = Len(s) + j /\ c[i] = r[j]
  BY ConcatFacts
<1> HIDE DEF c
<1>2. \A n : /\ AtMost(s, n) /\ AtMost(r, n) => AtMost(c, n)
             /\ AtLeast(s, n) /\ AtLeast(r, n) => AtLeast(c, n)
  BY <1>1 DEF AtMost, AtLeast
<1>3. ASSUME NEW i \in DOMAIN c, NEW j \in DOMAIN c, i <= j PROVE c[i].ver <= c[j].ver
  <2>1. CASE i \in DOMAIN s /\ c[i] = s[i]
    <3>1. CASE j \in DOMAIN s /\ c[j] = s[j] BY <1>3, <2>1, <3>1 DEF Ascending
    <3>2. ASSUME NEW b \in DOMAIN r, c[j] = r[b] PROVE c[i].ver <= c[j].ver
      BY <2>1, <3>2 DEF Precedes
    <3> QED BY <1>1, <3>1, <3>2
  <2>2. ASSUME NEW a \in DOMAIN r, i = Len(s) + a, c[i] = r[a] PROVE c[i].ver <= c[j].ver
    <3>1. j \notin DOMAIN s BY <1>1, <1>3, <2>2
    <3>2. PICK b \in DOMAIN r : j = Len(s) + b /\ c[j] = r[b] BY <1>1, <3>1
    <3>3. a <= b BY <1>1, <1>3, <2>2, <3>2
    <3> QED BY <2>2, <3>2, <3>3 DEF Ascending
  <2> QED BY <1>1, <2>1, <2>2
<1>4. Ascending(c) BY <1>3 DEF Ascending
<1> QED BY <1>2, <1>4 DEF c

\* What a step does to the info, the queue and the connections of a link.
LEMMA InfoGrows ==
  ASSUME IInv, QueueAscends, [Next]_vars, NEW l \in ServerLinks
  PROVE  /\ linkInfo[l] \in Infos /\ linkInfo'[l] \in Infos /\ linkInfo[l] <= linkInfo'[l]
         /\ linkInfo'[l] <= info'[l[1]]
<1>1. /\ l \in ToolServers \X Coordinators /\ l[1] \in ToolServers
      /\ info \in [ToolServers -> Infos] /\ linkInfo \in [ToolServers \X Coordinators -> Infos]
      /\ linkInfo[l] <= info[l[1]]
  BY DEF IInv, TypeOK, InfoTypes, ServerLinks, QueueAscends
<1>2. linkInfo'[l] \in Infos BY <1>1, InfoTypesKept DEF InfoTypes
<1>3. linkInfo[l] \in Infos /\ info[l[1]] \in Infos BY <1>1
<1>4. linkInfo[l] \in Nat /\ info[l[1]] \in Nat BY <1>3, InfosAreNumbers
<1>5. CASE UNCHANGED <<info, linkInfo>> BY <1>1, <1>2, <1>4, <1>5
<1>6. ASSUME NEW p \in Processes, StartWorker(p)
      PROVE  linkInfo[l] <= linkInfo'[l] /\ linkInfo'[l] <= info'[l[1]]
  <2>1. UNCHANGED info BY <1>6, StartWorkerKeeps
  <2>2. linkInfo'[l] = linkInfo[l] \/ (l[1] = p /\ linkInfo'[l] = info[p])
    BY <1>1, <1>6 DEF StartWorker
  <2> QED BY <1>1, <1>4, <2>1, <2>2
<1>7. ASSUME NEW t \in ToolServers, SetToolServerInfo(t)
      PROVE  linkInfo[l] <= linkInfo'[l] /\ linkInfo'[l] <= info'[l[1]]
  <2>1. info' = [info EXCEPT ![t] = @ + 1] BY <1>7 DEF SetToolServerInfo
  <2>2. linkInfo'[l] = linkInfo[l] \/ (l \in {t} \X Coordinators /\ linkInfo'[l] = info[t] + 1)
    BY <1>1, <1>7 DEF SetToolServerInfo
  <2>3. info'[l[1]] = IF l[1] = t THEN info[l[1]] + 1 ELSE info[l[1]] BY <1>1, <2>1
  <2>4. linkInfo'[l] = linkInfo[l] \/ (l[1] = t /\ linkInfo'[l] = info[l[1]] + 1) BY <2>2
  <2> QED BY <1>1, <1>4, <2>3, <2>4
<1>8. UNCHANGED <<info, linkInfo>> \/ (\E p \in Processes : StartWorker(p))
      \/ (\E t \in ToolServers : SetToolServerInfo(t))
  BY InfosChange, QuantClearKeeps, QuantSendKeeps, LoseConnectionKeeps
<1> QED BY <1>2, <1>3, <1>5, <1>6, <1>7, <1>8

Announcement(l) == [type |-> "status", ver |-> linkInfo[l]]

LEMMA QueueStep ==
  ASSUME IInv, [Next]_vars, NEW l \in ServerLinks
  PROVE  \/ framesQueue'[l] = framesQueue[l]
         \/ framesQueue'[l] = << >> /\ Write(l)
         \/ framesQueue'[l] = Append(framesQueue[l], Announcement(l)) /\ QuantSend(l)
<1>1. l \in Links /\ l[1] \notin Clients BY ServerLinkFacts
<1>2. DOMAIN framesQueue = Links BY DEF IInv, TypeOK, NetTypes
<1>3. ASSUME NEW m \in Links, QuantSend(m)
      PROVE  \/ framesQueue'[l] = framesQueue[l]
             \/ framesQueue'[l] = Append(framesQueue[l], Announcement(l)) /\ QuantSend(l)
  BY <1>1, <1>2, <1>3 DEF QuantSend, Announcement
<1>4. ASSUME NEW m \in Links, QuantRequest(m) PROVE framesQueue'[l] = framesQueue[l]
  BY <1>1, <1>2, <1>4 DEF QuantRequest
<1>5. ASSUME NEW m \in Links, Write(m)
      PROVE  framesQueue'[l] = framesQueue[l] \/ (framesQueue'[l] = << >> /\ Write(l))
  <2>1. framesQueue' = [framesQueue EXCEPT ![m] = << >>] BY <1>5 DEF Write
  <2>2. CASE m = l BY <1>1, <1>2, <1>5, <2>1, <2>2
  <2>3. CASE m # l BY <1>1, <1>2, <2>1, <2>3
  <2> QED BY <2>2, <2>3
<1>6. ASSUME NEW c \in Clients, NEW finished \in BOOLEAN, SendSession(c, finished)
      PROVE  framesQueue'[l] = framesQueue[l]
  BY <1>1, <1>2, <1>6 DEF SendSession
<1> QED BY <1>3, <1>4, <1>5, <1>6, QueuesChange

LEMMA SentStep ==
  ASSUME IInv, [Next]_vars, NEW h \in Connections
  PROVE  \/ sent'[h] = sent[h]
         \/ sent'[h] = << >>
         \/ sent[h] # << >> /\ sent'[h] = Tail(sent[h])
         \/ /\ Write(LinkOf(h)) /\ h[3] = connects[LinkOf(h)]
            /\ sent'[h] = sent[h] \o framesQueue[LinkOf(h)]
<1>1. DOMAIN sent = Connections BY DEF IInv, TypeOK, NetTypes
<1>2. ASSUME NEW l \in Links, Write(l)
      PROVE  \/ sent'[h] = sent[h]
             \/ /\ Write(LinkOf(h)) /\ h[3] = connects[LinkOf(h)]
                /\ sent'[h] = sent[h] \o framesQueue[LinkOf(h)]
  <2>1. /\ Current(l) \in Connections /\ LinkOf(Current(l)) = l
        /\ Current(l)[3] = conn[l] /\ conn[l] = connects[l]
    BY <1>2, CurrentFacts DEF Write, ClientState, IInv
  <2>2. CASE h = Current(l)
    <3>1. sent'[h] = sent[h] \/ sent'[h] = sent[h] \o framesQueue[l]
      BY <1>1, <1>2, <2>2 DEF Write
    <3> QED BY <1>2, <2>1, <2>2, <3>1
  <2>3. CASE h # Current(l) BY <1>1, <1>2, <2>1, <2>3 DEF Write
  <2> QED BY <2>2, <2>3
<1>3. ASSUME NEW g \in Connections, ReadStatus(g) \/ ReadRequest(g) \/ ReadSession(g)
      PROVE  sent'[h] = sent[h] \/ (sent[h] # << >> /\ sent'[h] = Tail(sent[h]))
  <2>1. sent[g] # << >> /\ sent' = [sent EXCEPT ![g] = Tail(@)]
    BY <1>3 DEF ReadStatus, ReadRequest, ReadSession, NextFrame
  <2> QED BY <1>1, <2>1
<1>4. ASSUME NEW g \in Connections, Break(g) PROVE sent'[h] = sent[h] \/ sent'[h] = << >>
  BY <1>1, <1>4 DEF Break
<1>5. ASSUME NEW k \in Coordinators, Crash(k) PROVE sent'[h] = sent[h] \/ sent'[h] = << >>
  BY <1>5, CrashFacts
<1>6. CASE UNCHANGED <<sent>> BY <1>6
<1> QED BY <1>2, <1>3, <1>4, <1>5, <1>6, SentChange

LEMMA ConnectsStep ==
  ASSUME IInv, [Next]_vars, NEW l \in Links
  PROVE  \/ /\ connects'[l] = connects[l] /\ LatestConn(l)' = LatestConn(l)
            /\ LatestConn(l) \in doubled => LatestConn(l) \in doubled'
         \/ Connect(l) /\ connects'[l] = connects[l] + 1
<1>1. DOMAIN connects = Links BY DEF IInv, TypeOK, ConnTypes
<1>2. ASSUME NEW m \in Links, Connect(m)
      PROVE  \/ connects'[l] = connects[l]
             \/ Connect(l) /\ connects'[l] = connects[l] + 1
  <2>1. connects' = [connects EXCEPT ![m] = connects[m] + 1] BY <1>2 DEF Connect
  <2>2. CASE m = l BY <1>1, <1>2, <2>1, <2>2
  <2>3. CASE m # l BY <1>1, <2>1, <2>3
  <2> QED BY <2>2, <2>3
<1>3. ASSUME NEW m \in Links, LoseConnection(m) \/ ApplyList(m) PROVE connects'[l] = connects[l]
  BY <1>3, LoseConnectionKeeps DEF ApplyList
<1>4. \/ connects'[l] = connects[l]
      \/ Connect(l) /\ connects'[l] = connects[l] + 1
  <2>1. CASE UNCHANGED <<connects, conn>> BY <2>1
  <2> QED BY <1>2, <1>3, <2>1, ConnsChange
<1>5. doubled \subseteq doubled'
  <2>1. ASSUME NEW m \in Links, Connect(m) PROVE doubled \subseteq doubled' BY <2>1 DEF Connect
  <2>2. CASE UNCHANGED <<doubled>> BY <2>2
  <2> QED BY <2>1, <2>2, DoubledChange
<1>6. connects'[l] = connects[l] => LatestConn(l)' = LatestConn(l) BY DEF LatestConn
<1> QED BY <1>4, <1>5, <1>6

LEMMA ErasedStays ==
  ASSUME IInv, [Next]_vars, NEW h \in Connections, handlers[h] = "erased"
  PROVE  handlers'[h] = "erased"
<1>1. DOMAIN handlers = Connections BY DEF IInv, TypeOK, NetTypes
<1>2. ASSUME NEW l \in Links, Connect(l) PROVE handlers'[h] = "erased"
  <2> DEFINE g == <<l[1], l[2], connects[l] + 1>>
  <2>1. g \in Connections /\ handlers[g] = "none" /\ handlers' = [handlers EXCEPT ![g] = "open"]
    BY <1>2, ConnectFacts
  <2> HIDE DEF g
  <2> QED BY <1>1, <2>1
<1>3. ASSUME NEW g \in Connections, Break(g) \/ EraseWorker(g) PROVE handlers'[h] = "erased"
  BY <1>1, <1>3 DEF Break, EraseWorker
<1>4. ASSUME NEW k \in Coordinators, Crash(k) PROVE handlers'[h] = "erased"
  BY <1>4 DEF Crash
<1>5. CASE UNCHANGED <<handlers>> BY <1>5
<1> QED BY <1>2, <1>3, <1>4, <1>5, HandlersChange

LEMMA OlderErasedKept ==
  ASSUME IInv, OlderErased, [Next]_vars
  PROVE  OlderErased'
<1> SUFFICES ASSUME NEW h \in Connections, h[3] < connects'[LinkOf(h)],
                    LatestConn(LinkOf(h))' \notin doubled'
             PROVE  handlers'[h] = "erased"
  BY DEF OlderErased, LatestConn, LinkOf
<1> DEFINE l == LinkOf(h)
<1>1. l \in Links /\ h[3] \in 1 .. MaxConnects /\ h = <<l[1], l[2], h[3]>>
  BY ConnectionFacts DEF LinkOf
<1> HIDE DEF l
<1>2. h[3] < connects'[l] /\ LatestConn(l)' \notin doubled' BY DEF l
<1>3. CASE connects'[l] = connects[l] /\ LatestConn(l) \notin doubled
  <2>1. handlers[h] = "erased" BY <1>2, <1>3 DEF OlderErased, l
  <2> QED BY <2>1, ErasedStays
<1>4. CASE Connect(l) /\ connects'[l] = connects[l] + 1
  <2> DEFINE n == connects[l] + 1
  <2>1. connects[l] \in Nat BY <1>1 DEF IInv, TypeOK, ConnTypes
  <2>2. h[3] \in 1 .. n - 1
    <3>1. MaxConnects \in Nat BY CoordinatorAssumption
    <3>2. h[3] \in Nat /\ h[3] >= 1 BY <1>1, <3>1
    <3> QED BY <1>2, <1>4, <2>1, <3>2
  <2>3. LatestConn(l)' = <<l[1], l[2], n>> BY <1>4 DEF LatestConn
  <2>4. \A m \in 1 .. n - 1 : handlers[<<l[1], l[2], m>>] = "erased"
    BY <1>2, <1>4, <2>3 DEF Connect
  <2>5. handlers[h] = "erased" BY <1>1, <2>2, <2>4
  <2> QED BY <2>5, ErasedStays
<1>5. \/ connects'[l] = connects[l] /\ LatestConn(l) \notin doubled
      \/ Connect(l) /\ connects'[l] = connects[l] + 1
  BY <1>1, <1>2, ConnectsStep
<1> QED BY <1>3, <1>4, <1>5

LEMMA QueueAscendsKept ==
  ASSUME IInv, QueueAscends, [Next]_vars
  PROVE  QueueAscends'
<1> SUFFICES ASSUME NEW l \in ServerLinks
             PROVE  /\ linkInfo'[l] <= info'[l[1]]
                    /\ Ascending(framesQueue'[l]) /\ AtMost(framesQueue'[l], linkInfo'[l])
  BY DEF QueueAscends, Ascending, AtMost
<1>1. /\ linkInfo[l] \in Infos /\ linkInfo'[l] \in Infos /\ linkInfo[l] <= linkInfo'[l]
      /\ linkInfo'[l] <= info'[l[1]]
  BY InfoGrows
<1>2. /\ framesQueue[l] \in Seq(Frames) /\ Numbered(framesQueue[l])
      /\ Ascending(framesQueue[l]) /\ AtMost(framesQueue[l], linkInfo[l])
  BY NumberedAre DEF QueueAscends
<1>3. CASE framesQueue'[l] = framesQueue[l] BY <1>1, <1>2, <1>3, RaisedBound
<1>4. CASE framesQueue'[l] = << >> BY <1>1, <1>4, NothingAscends
<1>5. CASE framesQueue'[l] = Append(framesQueue[l], Announcement(l)) /\ QuantSend(l)
  <2>1. linkInfo'[l] = linkInfo[l] BY <1>5 DEF QuantSend
  <2>2. Announcement(l) \in Frames /\ Announcement(l).ver = linkInfo[l]
    BY <1>1 DEF Announcement, Frames
  <2> QED BY <1>1, <1>2, <1>5, <2>1, <2>2, AscendingAppend
<1> QED BY <1>1, <1>3, <1>4, <1>5, QueueStep

LEMMA SentAscendsKept ==
  ASSUME IInv, QueueAscends, SentAscends, [Next]_vars
  PROVE  SentAscends'
<1> SUFFICES ASSUME NEW h \in Connections, h[1] \in ToolServers
             PROVE  /\ Ascending(sent'[h]) /\ AtMost(sent'[h], linkInfo'[LinkOf(h)])
                    /\ Precedes(sent'[h], framesQueue'[LinkOf(h)])
                    /\ h[3] > connects'[LinkOf(h)] => sent'[h] = << >>
  BY DEF SentAscends, Ascending, AtMost, Precedes, LinkOf
<1> DEFINE l == LinkOf(h)
<1>1. l \in ServerLinks /\ l \in Links /\ h[3] \in Nat
  <2>1. l \in Links /\ l[1] = h[1] /\ h[3] \in 1 .. MaxConnects BY ConnectionFacts
  <2>2. MaxConnects \in Nat BY CoordinatorAssumption
  <2> QED BY <2>1, <2>2, ServerLinkFacts
<1>2. /\ sent[h] \in Seq(Frames) /\ Numbered(sent[h])
      /\ Ascending(sent[h]) /\ AtMost(sent[h], linkInfo[l])
      /\ Precedes(sent[h], framesQueue[l])
      /\ h[3] > connects[l] => sent[h] = << >>
  BY NumberedAre DEF SentAscends
<1> HIDE DEF l
<1>3. /\ framesQueue[l] \in Seq(Frames) /\ Numbered(framesQueue[l])
      /\ Ascending(framesQueue[l]) /\ AtMost(framesQueue[l], linkInfo[l])
  BY <1>1, NumberedAre DEF QueueAscends
<1>4. linkInfo[l] \in Infos /\ linkInfo'[l] \in Infos /\ linkInfo[l] <= linkInfo'[l]
  BY <1>1, InfoGrows
<1>5. connects[l] \in Nat /\ (connects'[l] = connects[l] \/ connects'[l] = connects[l] + 1)
  <2>1. connects[l] \in Nat BY <1>1 DEF IInv, TypeOK, ConnTypes
  <2> QED BY <1>1, <2>1, ConnectsStep
<1>6. h[3] > connects'[l] => h[3] > connects[l] BY <1>1, <1>5
\* What becomes of the frames that were sent.
<1>7. /\ Ascending(sent'[h]) /\ AtMost(sent'[h], linkInfo[l])
      /\ Precedes(sent'[h], framesQueue[l]) \/ Write(l)
      /\ h[3] > connects[l] => sent'[h] = << >>
  <2>1. CASE sent'[h] = sent[h] BY <1>2, <2>1
  <2>2. CASE sent'[h] = << >> BY <2>2, NothingAscends
  <2>3. CASE sent[h] # << >> /\ sent'[h] = Tail(sent[h])
    BY <1>2, <2>3, AscendingTail
  <2>4. CASE /\ Write(l) /\ h[3] = connects[l] /\ sent'[h] = sent[h] \o framesQueue[l]
    <3>1. Ascending(sent'[h]) /\ AtMost(sent'[h], linkInfo[l])
      BY <1>2, <1>3, <2>4, AscendingConcat
    <3>2. ~(h[3] > connects[l]) BY <1>1, <1>5, <2>4
    <3> QED BY <2>4, <3>1, <3>2
  <2> QED BY <2>1, <2>2, <2>3, <2>4, SentStep DEF l
<1>8. AtMost(sent'[h], linkInfo'[l])
  <2>1. Numbered(sent'[h])
    <3>1. sent'[h] \in Seq(Frames) BY TypesKept DEF TypeOK, NetTypes
    <3>2. \A i \in DOMAIN sent'[h] : sent'[h][i].type = "status" BY FramesFitKept DEF FramesFit
    <3>3. ASSUME NEW i \in DOMAIN sent'[h] PROVE sent'[h][i].ver \in Infos
      <4>1. sent'[h][i] \in Frames BY <3>1, <3>3, LenProperties
      <4> QED BY <3>2, <3>3, <4>1 DEF Frames
    <3> QED BY <3>3 DEF Numbered
  <2> QED BY <1>4, <1>7, <2>1, RaisedBound
<1>9. Precedes(sent'[h], framesQueue'[l])
  <2>1. CASE framesQueue'[l] = << >> BY <2>1, NothingAscends
  <2>2. CASE framesQueue'[l] = framesQueue[l] /\ ~ Write(l) BY <1>7, <2>2
  <2>3. CASE framesQueue'[l] = framesQueue[l] /\ Write(l)
    <3>1. framesQueue' = [framesQueue EXCEPT ![l] = << >>] BY <2>3 DEF Write
    <3>2. DOMAIN framesQueue = Links BY DEF IInv, TypeOK, NetTypes
    <3>3. framesQueue'[l] = << >> BY <1>1, <3>1, <3>2
    <3> QED BY <3>3, NothingAscends
  <2>4. CASE framesQueue'[l] = Append(framesQueue[l], Announcement(l)) /\ QuantSend(l)
    <3>1. UNCHANGED sent BY <2>4 DEF QuantSend
    <3>2. Announcement(l) \in Frames /\ Announcement(l).ver = linkInfo[l]
      BY <1>4 DEF Announcement, Frames
    <3>3. Precedes(sent'[h], framesQueue[l]) BY <1>2, <3>1
    <3> QED BY <1>3, <1>4, <1>7, <2>4, <3>2, <3>3, AscendingAppend
  <2> QED BY <1>1, <2>1, <2>2, <2>3, <2>4, QueueStep
<1> QED BY <1>6, <1>7, <1>8, <1>9 DEF l

\* What is on its way stays as new, whatever is on its way.
BehindNext(l, ver) ==
  /\ ver <= linkInfo'[l] /\ AtLeast(framesQueue'[l], ver)
  /\ connects'[l] # 0 /\ LatestConn(l)' \notin doubled' => AtLeast(sent'[LatestConn(l)'], ver)

LEMMA LatestFits ==
  ASSUME TypeOK, NEW l \in Links, connects[l] # 0
  PROVE  LatestConn(l) \in Connections /\ LinkOf(LatestConn(l)) = l /\ LatestConn(l)[1] = l[1]
<1>1. l[1] \in Processes /\ l[2] \in Coordinators /\ l = <<l[1], l[2]>> BY LinkFacts
<1>2. connects[l] \in 1 .. MaxConnects
  <2>1. MaxConnects \in Nat BY CoordinatorAssumption
  <2>2. deployment.connects[l[1]] \in 0 .. MaxConnects BY <2>1, <1>1, DeploymentFacts, Zenon
  <2>3. connects[l] \in Nat /\ connects[l] <= deployment.connects[l[1]] BY DEF TypeOK, ConnTypes
  <2> QED BY <2>1, <2>2, <2>3
<1>3. LatestConn(l) \in Connections BY <1>1, <1>2, ConnectionIs DEF LatestConn
<1> QED BY <1>1, <1>3 DEF LatestConn, LinkOf

LEMMA BehindKept ==
  ASSUME IInv, QueueAscends, SentAscends, [Next]_vars, NEW l \in ServerLinks, NEW ver \in Infos,
         Behind(l, ver)
  PROVE  BehindNext(l, ver)
<1>1. l \in Links /\ l[1] \in ToolServers BY ServerLinkFacts
<1>2. /\ framesQueue[l] \in Seq(Frames) /\ Ascending(framesQueue[l])
      /\ ver <= linkInfo[l] /\ AtLeast(framesQueue[l], ver)
  BY NumberedAre DEF QueueAscends, Behind
<1>3. linkInfo[l] \in Infos /\ linkInfo'[l] \in Infos /\ linkInfo[l] <= linkInfo'[l]
  BY InfoGrows
<1>4. ver <= linkInfo'[l] BY <1>2, <1>3, InfosAreNumbers
<1>5. AtLeast(framesQueue'[l], ver)
  <2>1. CASE framesQueue'[l] = framesQueue[l] BY <1>2, <2>1
  <2>2. CASE framesQueue'[l] = << >> BY <2>2, NothingAscends
  <2>3. CASE framesQueue'[l] = Append(framesQueue[l], Announcement(l))
    <3>1. Announcement(l) \in Frames /\ Announcement(l).ver = linkInfo[l]
      BY <1>3 DEF Announcement, Frames
    <3>2. AtMost(framesQueue[l], linkInfo[l]) BY DEF QueueAscends
    <3> QED BY <1>2, <1>3, <2>3, <3>1, <3>2, AscendingAppend
  <2> QED BY <2>1, <2>2, <2>3, QueueStep
<1>6. ASSUME connects'[l] # 0, LatestConn(l)' \notin doubled'
      PROVE  AtLeast(sent'[LatestConn(l)'], ver)
  <2>1. CASE connects'[l] = connects[l] /\ LatestConn(l)' = LatestConn(l) /\ LatestConn(l) \notin doubled
    <3> DEFINE h == LatestConn(l)
    <3>1. h \in Connections /\ LinkOf(h) = l /\ h[1] \in ToolServers
      BY <1>1, <1>6, <2>1, LatestFits DEF IInv
    <3>2. AtLeast(sent[h], ver) BY <1>6, <2>1 DEF Behind
    <3>3. sent[h] \in Seq(Frames) /\ Ascending(sent[h]) /\ Precedes(sent[h], framesQueue[l])
      BY <3>1, NumberedAre DEF SentAscends
    <3> HIDE DEF h
    <3>4. AtLeast(sent'[h], ver)
      <4>1. CASE sent'[h] = sent[h] BY <3>2, <4>1
      <4>2. CASE sent'[h] = << >> BY <4>2, NothingAscends
      <4>3. CASE sent[h] # << >> /\ sent'[h] = Tail(sent[h]) BY <3>2, <3>3, <4>3, AscendingTail
      <4>4. CASE sent'[h] = sent[h] \o framesQueue[l]
        BY <1>2, <3>2, <3>3, <4>4, AscendingConcat
      <4> QED BY <3>1, <4>1, <4>2, <4>3, <4>4, SentStep
    <3> QED BY <2>1, <3>4 DEF h
  <2>2. CASE Connect(l) /\ connects'[l] = connects[l] + 1
    <3> DEFINE h == <<l[1], l[2], connects[l] + 1>>
    <3>1. h \in Connections /\ LinkOf(h) = l BY <1>1, <2>2, ConnectFacts
    <3>2. h[1] \in ToolServers /\ h[3] > connects[l]
      <4>1. connects[l] \in Nat BY <1>1 DEF IInv, TypeOK, ConnTypes
      <4> QED BY <1>1, <4>1
    <3>3. LatestConn(l)' = h BY <2>2 DEF LatestConn
    <3> HIDE DEF h
    <3>4. sent[h] = << >> BY <3>1, <3>2 DEF SentAscends
    <3>5. sent'[h] = << >> BY <2>2, <3>4 DEF Connect
    <3> QED BY <3>3, <3>5, NothingAscends
  <2> QED BY <1>1, <1>6, <2>1, <2>2, ConnectsStep
<1> QED BY <1>4, <1>5, <1>6 DEF BehindNext

\* A status is read on the latest connection of its link, unless that is a double.
LEMMA ReadOnLatest ==
  ASSUME IInv, OlderErased, NEW h \in Connections, ReadStatus(h),
         LatestConn(LinkOf(h)) \notin doubled
  PROVE  h = LatestConn(LinkOf(h)) /\ connects[LinkOf(h)] # 0
<1> DEFINE l == LinkOf(h)
<1>1. l \in Links /\ h[3] \in 1 .. MaxConnects /\ h = <<l[1], l[2], h[3]>>
  BY ConnectionFacts DEF LinkOf
<1>2. handlers[h] = "open" BY ReadStatusFacts
<1>3. h[3] <= connects[l] /\ ~(h[3] < connects[l]) /\ connects[l] \in Nat /\ h[3] \in Nat \ {0}
  <2>1. connects[l] \in Nat BY <1>1 DEF IInv, TypeOK, ConnTypes
  <2>2. MaxConnects \in Nat BY CoordinatorAssumption
  <2>3. ~(h[3] > connects[l]) BY <1>2 DEF IInv, HandlersFit
  <2>4. ~(h[3] < connects[l]) BY <1>2 DEF OlderErased
  <2> HIDE DEF l
  <2> QED BY <1>1, <2>1, <2>2, <2>3, <2>4
<1> HIDE DEF l
<1>4. h[3] = connects[l] /\ connects[l] # 0 BY <1>3
<1>5. h = LatestConn(l) BY <1>1, <1>4 DEF LatestConn
<1> QED BY <1>4, <1>5 DEF l

LEMMA ReadIsBehind ==
  ASSUME IInv, InfoOrder, [Next]_vars, NEW h \in Connections, ReadStatus(h)
  PROVE  BehindNext(LinkOf(h), sent[h][1].ver)
<1> DEFINE l == LinkOf(h)
           ver == sent[h][1].ver
<1>1. h[1] \in ToolServers /\ ver \in Infos /\ sent[h] # << >> /\ sent' = [sent EXCEPT ![h] = Tail(@)]
  BY ReadStatusFacts
<1>2. l \in ServerLinks /\ l \in Links
  <2>1. l \in Links /\ l[1] = h[1] BY ConnectionFacts
  <2> QED BY <1>1, <2>1, ServerLinkFacts
<1>3. /\ sent[h] \in Seq(Frames) /\ Ascending(sent[h])
      /\ AtMost(sent[h], linkInfo[l]) /\ Precedes(sent[h], framesQueue[l])
  BY <1>1, NumberedAre DEF InfoOrder, SentAscends
<1>4. UNCHANGED <<linkInfo, framesQueue, connects, doubled>> BY ReadStatusKeeps
<1>5. LatestConn(l)' = LatestConn(l) BY <1>4 DEF LatestConn, LinkOf
<1>6. sent'[h] = Tail(sent[h])
  <2>1. DOMAIN sent = Connections BY DEF IInv, TypeOK, NetTypes
  <2> QED BY <1>1, <2>1
<1>7. LatestConn(l) \notin doubled => h = LatestConn(l) BY ReadOnLatest DEF InfoOrder
<1> HIDE DEF l
<1>8. ver <= linkInfo[l] /\ AtLeast(framesQueue[l], ver) /\ AtLeast(sent'[h], ver)
  BY <1>1, <1>3, <1>6, AscendingTail
<1>9. BehindNext(l, ver) BY <1>4, <1>5, <1>7, <1>8 DEF BehindNext
<1> QED BY <1>9 DEF l

\* An entry was there with its info, or its info was just read on a connection of its own.
WasListed(k, f) ==
  \E i \in DOMAIN toolServers[k] :
    toolServers[k][i].ts = f.ts /\ toolServers[k][i].ver = f.ver

JustRead(k, f) ==
  \E h \in Connections : ReadStatus(h) /\ LinkOf(h) = <<f.ts, k>> /\ sent[h][1].ver = f.ver

LEMMA EntryBefore ==
  ASSUME IInv, [Next]_vars, NEW k \in Coordinators, NEW j \in DOMAIN toolServers'[k]
  PROVE  WasListed(k, toolServers'[k][j]) \/ JustRead(k, toolServers'[k][j])
<1> DEFINE f == toolServers'[k][j]
<1>1. CASE toolServers'[k] = toolServers[k] BY <1>1 DEF WasListed
<1>2. ASSUME NEW h \in Connections, ReadStatus(h), toolServers'[k] # toolServers[k]
      PROVE  WasListed(k, f) \/ JustRead(k, f)
  <2>1. ~ UNCHANGED <<toolServers, reader, overlapped>> BY <1>2
  <2>2. k = h[2] BY <1>2, <2>1, UpdatedElsewhere
  <2>3. PICK n \in DOMAIN toolServers'[h[2]] : UpdatedAt(h, n) BY <1>2, <2>1, UpdatedHere
  <2>4. CASE j = n
    <3>1. f.ts = h[1] /\ f.ver = sent[h][1].ver BY <2>2, <2>3, <2>4 DEF UpdatedAt
    <3>2. LinkOf(h) = <<f.ts, k>> BY <2>2, <3>1 DEF LinkOf
    <3> QED BY <1>2, <3>1, <3>2 DEF JustRead
  <2>5. CASE j # n
    <3>1. j \in DOMAIN toolServers[k] /\ f = toolServers[k][j]
      BY <2>2, <2>3, <2>5 DEF UpdatedAt
    <3> QED BY <3>1 DEF WasListed
  <2> QED BY <2>4, <2>5
<1>3. ASSUME NEW h \in Connections, MarkHandler(h) \/ MarkDangling(h) PROVE WasListed(k, f)
  <2>1. DOMAIN toolServers'[k] = DOMAIN toolServers[k] BY <1>3, MarkEntries
  <2>2. f.ts = toolServers[k][j].ts /\ f.ver = toolServers[k][j].ver
    BY <1>3, <2>1, MarkEntries
  <2> QED BY <2>1, <2>2 DEF WasListed
<1>4. ASSUME NEW h \in Connections, EraseWorker(h), toolServers'[k] # toolServers[k]
      PROVE  WasListed(k, f)
  <2>1. ~ UNCHANGED <<toolServers, reader>> BY <1>4
  <2>2. k = h[2] BY <1>4, <2>1, EraseElsewhere
  <2>3. PICK first \in DOMAIN toolServers[k] : ErasedAt(k, h, first)
    BY <1>4, <2>1, <2>2, EraseHere
  <2>4. PICK i \in DOMAIN toolServers[k] : f = toolServers[k][i]
    <3>1. /\ DOMAIN toolServers[k] = 1 .. Len(toolServers[k]) /\ Len(toolServers[k]) \in Nat \ {0}
          /\ j \in 1 .. Len(toolServers[k]) - 1
          /\ f = IF j < first THEN toolServers[k][j] ELSE toolServers[k][j + 1]
      BY <2>3 DEF ErasedAt
    <3>2. j \in DOMAIN toolServers[k] /\ j + 1 \in DOMAIN toolServers[k] BY <3>1
    <3> QED BY <3>1, <3>2
  <2> QED BY <2>4 DEF WasListed
<1>5. ASSUME NEW m \in Coordinators, Crash(m) PROVE toolServers'[k] = toolServers[k]
  BY <1>5, CrashFacts
<1>6. CASE UNCHANGED <<toolServers, overlapped, dangled>> BY <1>1, <1>6
<1> QED BY <1>1, <1>2, <1>3, <1>4, <1>5, <1>6, ListedChange

LEMMA ListedBehindKept ==
  ASSUME IInv, InfoOrder, [Next]_vars
  PROVE  ListedBehind'
<1>1. ASSUME NEW k \in Coordinators, NEW j \in DOMAIN toolServers'[k], NEW t \in ToolServers,
             toolServers'[k][j].ts = t
      PROVE  BehindNext(<<t, k>>, toolServers'[k][j].ver)
  <2> DEFINE f == toolServers'[k][j]
  <2>1. CASE WasListed(k, f)
    <3>1. PICK i \in DOMAIN toolServers[k] :
            toolServers[k][i].ts = t /\ toolServers[k][i].ver = f.ver
      BY <1>1, <2>1 DEF WasListed
    <3>2. toolServers[k][i] \in Entry
      BY LenProperties DEF IInv, TypeOK, ServerTypes
    <3>3. f.ver \in Infos /\ <<t, k>> \in ServerLinks BY <3>1, <3>2 DEF Entry, ServerLinks
    <3>4. Behind(<<t, k>>, f.ver) BY <3>1 DEF InfoOrder, ListedBehind
    <3> HIDE DEF f
    <3>5. BehindNext(<<t, k>>, f.ver) BY <3>3, <3>4, BehindKept DEF InfoOrder
    <3> QED BY <3>5 DEF f
  <2>2. CASE JustRead(k, f)
    <3>1. PICK h \in Connections :
            ReadStatus(h) /\ LinkOf(h) = <<t, k>> /\ sent[h][1].ver = f.ver
      BY <1>1, <2>2 DEF JustRead
    <3>2. BehindNext(LinkOf(h), sent[h][1].ver) BY <3>1, ReadIsBehind
    <3> QED BY <3>1, <3>2
  <2> QED BY <2>1, <2>2, EntryBefore
<1>2. ASSUME NEW k \in Coordinators, NEW j \in DOMAIN toolServers'[k]
      PROVE  Behind(<<toolServers[k][j].ts, k>>, toolServers[k][j].ver)'
  <2>1. toolServers'[k][j] \in Entry
    BY TypesKept, LenProperties DEF TypeOK, ServerTypes
  <2>2. PICK t \in ToolServers : toolServers'[k][j].ts = t BY <2>1 DEF Entry
  <2>3. BehindNext(<<t, k>>, toolServers'[k][j].ver) BY <1>1, <2>2
  <2> QED BY <2>2, <2>3 DEF Behind, BehindNext, AtLeast, LatestConn
<1> QED BY <1>2 DEF ListedBehind

LEMMA InfoOrderInit == Init => InfoOrder
<1> SUFFICES ASSUME Init PROVE InfoOrder OBVIOUS
<1>1. QueueAscends
  <2>1. ASSUME NEW l \in ServerLinks
        PROVE  linkInfo[l] = 1 /\ info[l[1]] = 1 /\ framesQueue[l] = << >>
    <3>1. l \in Links /\ l[1] \in ToolServers BY ServerLinkFacts
    <3>2. l \in ToolServers \X Coordinators BY DEF ServerLinks
    <3> QED BY <3>1, <3>2 DEF Init
  <2>2. 1 <= 1 OBVIOUS
  <2> QED BY <2>1, <2>2, NothingAscends DEF QueueAscends
<1>2. SentAscends
  <2>1. \A h \in Connections : sent[h] = << >> BY DEF Init
  <2> QED BY <2>1, NothingAscends DEF SentAscends
<1>3. OlderErased
  <2>1. ASSUME NEW h \in Connections PROVE ~(h[3] < connects[LinkOf(h)])
    <3>1. LinkOf(h) \in Links /\ h[3] \in 1 .. MaxConnects BY ConnectionFacts
    <3>2. connects[LinkOf(h)] = 0 BY <3>1 DEF Init
    <3>3. MaxConnects \in Nat BY CoordinatorAssumption
    <3> QED BY <3>1, <3>2, <3>3
  <2> QED BY <2>1 DEF OlderErased
<1>4. ListedBehind BY DEF Init, ListedBehind
<1> QED BY <1>1, <1>2, <1>3, <1>4 DEF InfoOrder

LEMMA InfoOrderKept == IInv /\ InfoOrder /\ [Next]_vars => InfoOrder'
BY QueueAscendsKept, SentAscendsKept, OlderErasedKept, ListedBehindKept DEF InfoOrder

\* CoordinatorServer.cpp:83-93: what a coordinator lists of a tool server never goes back to
\* an older info, through the two flags of the client, its queue, reconnections and restarts
\* of the coordinator: unless the tool server's latest connection was made while an older
\* one still had a handler, whose thread may read what is older later.
InfoGoesForward ==
  [][\A k \in Coordinators :
       \A i \in DOMAIN toolServers[k], j \in DOMAIN toolServers'[k] :
         LET e == toolServers[k][i]
             f == toolServers'[k][j]
         IN e.ts = f.ts /\ LatestConn(<<e.ts, k>>) \notin doubled => e.ver <= f.ver]_vars

LEMMA InfoForwardStep ==
  ASSUME IInv, InfoOrder, [Next]_vars, NEW k \in Coordinators,
         NEW i \in DOMAIN toolServers[k], NEW j \in DOMAIN toolServers'[k],
         toolServers[k][i].ts = toolServers'[k][j].ts,
         LatestConn(<<toolServers[k][i].ts, k>>) \notin doubled
  PROVE  toolServers[k][i].ver <= toolServers'[k][j].ver
<1> DEFINE e == toolServers[k][i]
           f == toolServers'[k][j]
<1>1. e \in Entry BY LenProperties DEF IInv, TypeOK, ServerTypes
<1>2. e.ver <= e.ver BY <1>1, InfosAreNumbers DEF Entry
<1>3. CASE WasListed(k, f)
  <2>1. PICK n \in DOMAIN toolServers[k] :
          toolServers[k][n].ts = f.ts /\ toolServers[k][n].ver = f.ver
    BY <1>3 DEF WasListed
  <2>2. n = i BY <2>1 DEF IInv, ListedOnce
  <2> QED BY <1>2, <2>1, <2>2
<1>4. CASE JustRead(k, f)
  <2>1. PICK h \in Connections :
          ReadStatus(h) /\ LinkOf(h) = <<f.ts, k>> /\ sent[h][1].ver = f.ver
    BY <1>4 DEF JustRead
  <2>2. LinkOf(h) = <<e.ts, k>> BY <2>1
  <2>3. h = LatestConn(LinkOf(h)) /\ connects[LinkOf(h)] # 0
    BY <2>1, <2>2, ReadOnLatest DEF InfoOrder
  <2>4. Behind(<<e.ts, k>>, e.ver) BY DEF InfoOrder, ListedBehind
  <2>5. AtLeast(sent[h], e.ver)
    <3> HIDE DEF e, f
    <3> QED BY <2>2, <2>3, <2>4 DEF Behind, e
  <2>6. 1 \in DOMAIN sent[h]
    <3>1. sent[h] # << >> BY <2>1, ReadStatusFacts
    <3>2. sent[h] \in Seq(Frames) BY DEF IInv, TypeOK, NetTypes
    <3> QED BY <3>1, <3>2, TailFacts, LenProperties
  <2>7. e.ver <= sent[h][1].ver BY <2>5, <2>6 DEF AtLeast
  <2> QED BY <2>1, <2>7
<1> QED BY <1>3, <1>4, EntryBefore

\* CoordinatorServer.cpp:83-93: statuses are read in the order they were made, so a newer
\* info in the list is never replaced by an older one.
THEOREM ListedGoesForward == Spec => InfoGoesForward
<1> DEFINE P == \A k \in Coordinators :
                  \A i \in DOMAIN toolServers[k], j \in DOMAIN toolServers'[k] :
                    LET e == toolServers[k][i]
                        f == toolServers'[k][j]
                    IN e.ts = f.ts /\ LatestConn(<<e.ts, k>>) \notin doubled => e.ver <= f.ver
<1>1. IInv /\ InfoOrder /\ [Next]_vars => P BY InfoForwardStep
<1>2. IInv /\ InfoOrder /\ [Next]_vars => [P]_vars BY <1>1
<1>3. Spec => []IInv BY AlwaysIInv
<1>4. Spec => [][Next]_vars BY PTL DEF Spec
<1>5. Spec => []InfoOrder BY InfoOrderInit, InfoOrderKept, <1>3, PTL DEF Spec
<1> HIDE DEF P
<1>6. Spec => [][P]_vars BY <1>2, <1>3, <1>4, <1>5, PTL
<1> QED BY <1>6 DEF InfoGoesForward, P
=============================================================================
