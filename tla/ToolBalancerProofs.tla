------------------------ MODULE ToolBalancerProofs ------------------------
(***************************************************************************)
(* Proofs about ToolBalancer, for any set of servers and tools: what its   *)
(* vector of clients looks like after every operation, that the cached     *)
(* loads and totals are never stale, and what FindFreeClient returns.      *)
(***************************************************************************)
EXTENDS ToolBalancer, NatLemmas, SequenceTheorems, TLAPS

(***************************************************************************)
(* Arithmetic.  The widths are used by these two facts only: the literals  *)
(* 32768 and 65536 are of no use to the provers.                           *)
(***************************************************************************)
\* A uint16_t and the weight of a task are positive numbers.
LEMMA Widths == U16 \in Nat \ {0} /\ EachTaskWeight \in Nat \ {0}
BY DEF U16, EachTaskWeight

\* Reducing a number to 16 bits gives a uint16_t.
LEMMA Reduced == ASSUME NEW n \in Int PROVE n % U16 \in UInt16
BY Widths DEF UInt16

\* The load of a server is the full weight exactly when no thread is free.
LEMMA LoadBound ==
  ASSUME NEW busy \in Nat, NEW threads \in Nat, threads > 0, busy <= threads
  PROVE  /\ Load(busy, threads) \in 0 .. EachTaskWeight
         /\ busy < threads => Load(busy, threads) < EachTaskWeight
         /\ busy = threads => Load(busy, threads) = EachTaskWeight
<1> DEFINE W == EachTaskWeight
           q == (busy * W) \div threads
           r == (busy * W) % threads
<1>0. W \in Nat /\ W > 0 BY Widths
<1> HIDE DEF W
<1>1. q \in Int /\ r \in 0 .. threads - 1 /\ busy * W = q * threads + r
  BY <1>0
<1>2. Load(busy, threads) = q BY DEF Load, W
<1> HIDE DEF q, r
<1>3. q >= 0 BY <1>0, <1>1
<1>4. q <= W BY <1>0, <1>1
<1>5. busy < threads => q < W BY <1>0, <1>1
<1>6. busy = threads => q >= W BY <1>0, <1>1
<1>7. /\ q \in 0 .. W
      /\ busy < threads => q < W
      /\ busy = threads => q = W
  BY <1>0, <1>1, <1>3, <1>4, <1>5, <1>6
<1> QED BY <1>2, <1>7 DEF W

(***************************************************************************)
(* UpdateLoad.                                                             *)
(***************************************************************************)
LEMMA ServerType ==
  ASSUME NEW s \in ToolServers
  PROVE  /\ s.totalThreads \in UInt16
         /\ s.othersUsed \in UInt16
         /\ BusyOthers(s) \in UInt16
BY BalancerAssumption, Widths DEF BusyOthers, UInt16

\* The network penalty stays a uint16_t, although it is raised and lowered.
LEMMA PenaltyType ==
  ASSUME NEW c \in ClientInfo
  PROVE  Penalty(c) \in UInt16
<1>1. /\ c.busyByNetworkLoad \in UInt16
      /\ c.toolServer.totalThreads \in UInt16
  BY ServerType DEF ClientInfo
<1>2. (c.busyByNetworkLoad + 1) % U16 \in UInt16
  BY <1>1, Reduced DEF UInt16
<1>3. RaisedPenalty(c) \in UInt16
  BY <1>1, <1>2 DEF RaisedPenalty, Lesser
<1> QED BY <1>3, Widths DEF Penalty, UInt16

\* The total of a server never exceeds its threads, so its load fits the weight.
LEMMA BusyTotalType ==
  ASSUME NEW others \in UInt16, NEW mine \in UInt16, NEW penalty \in UInt16,
         NEW threads \in UInt16
  PROVE  /\ BusyTotal(others, mine, penalty, threads) \in UInt16
         /\ BusyTotal(others, mine, penalty, threads) <= threads
<1>1. (others + mine + penalty) % U16 \in UInt16
  BY Reduced DEF UInt16
<1> QED BY <1>1, Widths DEF BusyTotal, Lesser, UInt16

\* The cached load is at most the full weight.
LEMMA LoadType ==
  ASSUME NEW busy \in UInt16, NEW threads \in UInt16, busy <= threads
  PROVE  Load(busy, threads) \in 0 .. EachTaskWeight
<1>1. CASE threads = 0 BY <1>1, Widths DEF Load
<1>2. CASE threads # 0 BY <1>2, LoadBound, Widths DEF UInt16
<1> QED BY <1>1, <1>2

\* UpdateLoad keeps a client well typed, refreshes its caches, and touches nothing
\* else of it.
LEMMA UpdateLoadFresh ==
  ASSUME NEW c \in ClientInfo
  PROVE  /\ UpdateLoad(c) \in ClientInfo
         /\ LoadFresh(UpdateLoad(c))
         /\ UpdateLoad(c).toolServer = c.toolServer
         /\ UpdateLoad(c).compatible = c.compatible
<1> DEFINE s == c.toolServer
           busy == BusyTotal(BusyOthers(s), c.busyMine, Penalty(c), s.totalThreads)
<1>1. /\ s \in ToolServers
      /\ c.busyMine \in UInt16
  BY DEF ClientInfo
<1>2. /\ s.totalThreads \in UInt16
      /\ BusyOthers(s) \in UInt16
      /\ Penalty(c) \in UInt16
  BY <1>1, ServerType, PenaltyType
<1>3. busy \in UInt16 /\ busy <= s.totalThreads
  BY <1>1, <1>2, BusyTotalType
<1>4. Load(busy, s.totalThreads) \in 0 .. EachTaskWeight
  BY <1>2, <1>3, LoadType
<1>5. UpdateLoad(c) = [c EXCEPT !.busyOthers        = BusyOthers(s),
                                !.busyByNetworkLoad = Penalty(c),
                                !.busyTotal         = busy,
                                !.clientLoad        = Load(busy, s.totalThreads)]
  BY DEF UpdateLoad
<1> HIDE DEF busy
<1>6. UpdateLoad(c) \in ClientInfo
  BY <1>2, <1>3, <1>4, <1>5 DEF ClientInfo
<1>7. /\ UpdateLoad(c).toolServer = s
      /\ UpdateLoad(c).compatible = c.compatible
      /\ UpdateLoad(c).busyMine = c.busyMine
      /\ UpdateLoad(c).busyOthers = BusyOthers(s)
      /\ UpdateLoad(c).busyByNetworkLoad = Penalty(c)
      /\ UpdateLoad(c).busyTotal = busy
      /\ UpdateLoad(c).clientLoad = Load(busy, s.totalThreads)
  BY <1>5 DEF ClientInfo
<1> QED BY <1>6, <1>7 DEF LoadFresh, busy

(***************************************************************************)
(* The vector of clients.                                                  *)
(***************************************************************************)
\* What the operations rely on: every client is well typed with fresh caches, and
\* no server is known twice.
ClientsInv == ClientsTypeOK /\ LoadsFresh /\ ServersKnownOnce

\* A client of the vector is replaced by one of the same server.
LEMMA ReplaceClient ==
  ASSUME ClientsInv, NEW i \in DOMAIN clients, NEW c \in ClientInfo, LoadFresh(c),
         c.toolServer = clients[i].toolServer,
         clients' = [clients EXCEPT ![i] = c]
  PROVE  ClientsInv' /\ DOMAIN clients' = DOMAIN clients
<1>1. /\ clients' \in Seq(ClientInfo)
      /\ DOMAIN clients' = DOMAIN clients
      /\ \A j \in DOMAIN clients :
           clients'[j] = IF j = i THEN c ELSE clients[j]
  BY ExceptSeq, LenProperties DEF ClientsInv, ClientsTypeOK
<1>2. \A j \in DOMAIN clients : LoadFresh(clients'[j])
  BY <1>1 DEF ClientsInv, LoadsFresh
<1>3. \A j \in DOMAIN clients : clients'[j].toolServer = clients[j].toolServer
  BY <1>1
<1>4. LoadsFresh'
  BY <1>1, <1>2 DEF LoadsFresh, LoadFresh
<1>5. ServersKnownOnce'
  BY <1>1, <1>3 DEF ClientsInv, ServersKnownOnce
<1> QED BY <1>1, <1>4, <1>5 DEF ClientsInv, ClientsTypeOK

\* The operations on one client: which field they change, and that they keep
\* whether its tools are accepted.
LEMMA ClientAt ==
  ASSUME ClientsInv, NEW i \in DOMAIN clients
  PROVE  clients[i] \in ClientInfo /\ LoadFresh(clients[i])
BY ElementOfSeq, LenProperties DEF ClientsInv, ClientsTypeOK, LoadsFresh

\* One task more on a server.
LEMMA StartTaskStep ==
  ASSUME ClientsInv, NEW i \in DOMAIN clients, StartTask(i)
  PROVE  /\ ClientsInv' /\ DOMAIN clients' = DOMAIN clients
         /\ \A j \in DOMAIN clients : clients'[j].compatible = clients[j].compatible
<1> DEFINE b == [clients[i] EXCEPT !.busyMine = (clients[i].busyMine + 1) % U16]
<1>1. clients[i] \in ClientInfo BY ClientAt
<1>2. (clients[i].busyMine + 1) % U16 \in UInt16
  BY <1>1, Reduced DEF ClientInfo, UInt16
<1>3. /\ b \in ClientInfo
      /\ b.toolServer = clients[i].toolServer
      /\ b.compatible = clients[i].compatible
  BY <1>1, <1>2 DEF ClientInfo
<1>4. clients' = [clients EXCEPT ![i] = UpdateLoad(b)]
  BY DEF StartTask, SetClients
<1> HIDE DEF b
<1>5. ClientsInv' /\ DOMAIN clients' = DOMAIN clients
  BY <1>3, <1>4, UpdateLoadFresh, ReplaceClient
<1> QED BY <1>3, <1>4, <1>5, UpdateLoadFresh

\* One task less on a server, never below zero.
LEMMA FinishTaskStep ==
  ASSUME ClientsInv, NEW i \in DOMAIN clients, FinishTask(i)
  PROVE  /\ ClientsInv' /\ DOMAIN clients' = DOMAIN clients
         /\ \A j \in DOMAIN clients : clients'[j].compatible = clients[j].compatible
<1> DEFINE mine == IF clients[i].busyMine > 0 THEN clients[i].busyMine - 1 ELSE 0
           b == [clients[i] EXCEPT !.busyMine = mine]
<1>1. clients[i] \in ClientInfo BY ClientAt
<1>2. mine \in UInt16
  BY <1>1, Widths DEF ClientInfo, UInt16
<1> HIDE DEF mine
<1>3. /\ b \in ClientInfo
      /\ b.toolServer = clients[i].toolServer
      /\ b.compatible = clients[i].compatible
  BY <1>1, <1>2 DEF ClientInfo
<1>4. clients' = [clients EXCEPT ![i] = UpdateLoad(b)]
  BY DEF FinishTask, SetClients, mine
<1> HIDE DEF b
<1>5. ClientsInv' /\ DOMAIN clients' = DOMAIN clients
  BY <1>3, <1>4, UpdateLoadFresh, ReplaceClient
<1> QED BY <1>3, <1>4, <1>5, UpdateLoadFresh

\* A load report of a server.
LEMMA SetServerSideLoadStep ==
  ASSUME ClientsInv, NEW i \in DOMAIN clients, NEW load \in UInt16,
         SetServerSideLoad(i, load)
  PROVE  /\ ClientsInv' /\ DOMAIN clients' = DOMAIN clients
         /\ \A j \in DOMAIN clients : clients'[j].compatible = clients[j].compatible
<1> DEFINE c == clients[i]
           avg == (load + c.serverSideQueue) \div 2
           b == [c EXCEPT !.serverSideQueuePrev = c.serverSideQueue,
                          !.serverSideQueue     = load,
                          !.serverSideQueueAvg  = avg]
<1>1. c \in ClientInfo BY ClientAt
<1>2. c.serverSideQueue \in UInt16 /\ avg \in UInt16
  BY <1>1, Widths DEF ClientInfo, UInt16
<1> HIDE DEF avg
<1>3. /\ b \in ClientInfo
      /\ b.toolServer = c.toolServer
      /\ b.compatible = c.compatible
  BY <1>1, <1>2 DEF ClientInfo
<1>4. clients' = [clients EXCEPT ![i] = UpdateLoad(b)]
  BY DEF SetServerSideLoad, SetClients, avg
<1> HIDE DEF b
<1>5. ClientsInv' /\ DOMAIN clients' = DOMAIN clients
  BY <1>3, <1>4, UpdateLoadFresh, ReplaceClient
<1> QED BY <1>3, <1>4, <1>5, UpdateLoadFresh

\* A server's connection comes or goes: its load is untouched.
LEMMA SetClientActiveStep ==
  ASSUME ClientsInv, NEW i \in DOMAIN clients, NEW isActive \in BOOLEAN,
         SetClientActive(i, isActive)
  PROVE  /\ ClientsInv' /\ DOMAIN clients' = DOMAIN clients
         /\ \A j \in DOMAIN clients : clients'[j].compatible = clients[j].compatible
<1> DEFINE b == [clients[i] EXCEPT !.active = isActive]
<1>1. clients[i] \in ClientInfo /\ LoadFresh(clients[i]) BY ClientAt
<1>2. /\ b \in ClientInfo
      /\ b.toolServer = clients[i].toolServer
      /\ b.compatible = clients[i].compatible
  BY <1>1 DEF ClientInfo
<1>3. LoadFresh(b)
  BY <1>1 DEF ClientInfo, LoadFresh
<1>4. clients' = [clients EXCEPT ![i] = b]
  BY DEF SetClientActive, SetClients
<1> HIDE DEF b
<1>5. ClientsInv' /\ DOMAIN clients' = DOMAIN clients
  BY <1>2, <1>3, <1>4, ReplaceClient
<1> QED BY <1>2, <1>4, <1>5

\* The answer to a version request.
LEMMA SetClientCompatibleStep ==
  ASSUME ClientsInv, NEW i \in DOMAIN clients, NEW isCompatible \in BOOLEAN,
         SetClientCompatible(i, isCompatible)
  PROVE  /\ ClientsInv' /\ DOMAIN clients' = DOMAIN clients
         /\ clients'[i].compatible = isCompatible
         /\ \A j \in DOMAIN clients \ {i} : clients'[j] = clients[j]
<1> DEFINE b == [clients[i] EXCEPT !.compatible = isCompatible, !.checked = TRUE]
<1>1. clients[i] \in ClientInfo /\ LoadFresh(clients[i]) BY ClientAt
<1>2. /\ b \in ClientInfo
      /\ b.toolServer = clients[i].toolServer
      /\ b.compatible = isCompatible
  BY <1>1 DEF ClientInfo
<1>3. LoadFresh(b)
  BY <1>1 DEF ClientInfo, LoadFresh
<1>4. clients' = [clients EXCEPT ![i] = b]
  BY DEF SetClientCompatible, SetClients
<1> HIDE DEF b
<1>5. ClientsInv' /\ DOMAIN clients' = DOMAIN clients
  BY <1>2, <1>3, <1>4, ReplaceClient
<1> QED BY <1>2, <1>4, <1>5

\* A server is announced: the vector keeps its clients or gets one more, which is
\* not compatible yet.
LEMMA UpdateClientStep ==
  ASSUME ClientsInv, NEW s \in ToolServers, UpdateClient(s)
  PROVE  /\ ClientsInv'
         /\ \A j \in DOMAIN clients : /\ j \in DOMAIN clients'
                                      /\ clients'[j].compatible = clients[j].compatible
         /\ IF Skipped(s) \/ Known(s)
            THEN DOMAIN clients' = DOMAIN clients
            ELSE /\ DOMAIN clients' = 1 .. Len(clients) + 1
                 /\ ~clients'[Len(clients) + 1].compatible
<1>0. /\ clients \in Seq(ClientInfo)
      /\ Len(clients) \in Nat
      /\ DOMAIN clients = 1 .. Len(clients)
  BY LenProperties DEF ClientsInv, ClientsTypeOK
<1>1. CASE Skipped(s)
  BY <1>1 DEF UpdateClient, balancerVars, ClientsInv, ClientsTypeOK, LoadsFresh,
              LoadFresh, ServersKnownOnce
<1>2. CASE ~Skipped(s) /\ Known(s)
  <2> DEFINE b(i) == [clients[i] EXCEPT !.toolServer = s]
             new(i) == IF EqualIdTo(clients[i].toolServer, s)
                       THEN UpdateLoad(b(i)) ELSE clients[i]
  <2>1. clients' = [i \in DOMAIN clients |-> new(i)]
    BY <1>2 DEF UpdateClient, SetClients
  <2>2. ASSUME NEW i \in DOMAIN clients
        PROVE  /\ new(i) \in ClientInfo
               /\ LoadFresh(new(i))
               /\ new(i).compatible = clients[i].compatible
               /\ new(i).toolServer.id = clients[i].toolServer.id
    <3>1. clients[i] \in ClientInfo /\ LoadFresh(clients[i]) BY ClientAt
    <3>2. /\ b(i) \in ClientInfo
          /\ b(i).toolServer = s
          /\ b(i).compatible = clients[i].compatible
      BY <3>1 DEF ClientInfo
    <3> HIDE DEF b
    <3>3. /\ UpdateLoad(b(i)) \in ClientInfo
          /\ LoadFresh(UpdateLoad(b(i)))
          /\ UpdateLoad(b(i)).toolServer = s
          /\ UpdateLoad(b(i)).compatible = clients[i].compatible
      BY <3>2, UpdateLoadFresh
    <3> QED BY <3>1, <3>3 DEF EqualIdTo
  <2> HIDE DEF new
  <2>3. /\ DOMAIN clients' = DOMAIN clients
        /\ \A i \in DOMAIN clients : clients'[i] = new(i)
    BY <2>1
  <2>4. clients' \in Seq(ClientInfo)
    BY <1>0, <2>1, <2>2, IsASeq
  <2>5. LoadsFresh'
    BY <2>2, <2>3 DEF LoadsFresh, LoadFresh
  <2>6. ServersKnownOnce'
    BY <2>2, <2>3 DEF ClientsInv, ServersKnownOnce, EqualIdTo
  <2> QED BY <1>2, <2>2, <2>3, <2>4, <2>5, <2>6 DEF ClientsInv, ClientsTypeOK
<1>3. CASE ~Skipped(s) /\ ~Known(s)
  <2> DEFINE c == UpdateLoad(NewClient(s))
             n == Len(clients) + 1
  <2>1. /\ NewClient(s) \in ClientInfo
        /\ NewClient(s).toolServer = s
        /\ NewClient(s).compatible = FALSE
    BY Widths DEF NewClient, ClientInfo, UInt16
  <2>2. c \in ClientInfo /\ LoadFresh(c) /\ c.toolServer = s /\ c.compatible = FALSE
    BY <2>1, UpdateLoadFresh
  <2>3. clients' = Append(clients, c)
    BY <1>3 DEF UpdateClient, SetClients
  <2> HIDE DEF c
  <2>4. /\ clients' \in Seq(ClientInfo)
        /\ DOMAIN clients' = 1 .. n
        /\ clients'[n] = c
        /\ \A j \in DOMAIN clients : clients'[j] = clients[j]
    BY <1>0, <2>2, <2>3
  <2>5. \A j \in DOMAIN clients' : j = n \/ j \in DOMAIN clients
    BY <1>0, <2>4
  <2>6. LoadsFresh'
    BY <2>2, <2>4, <2>5 DEF ClientsInv, LoadsFresh, LoadFresh
  <2>7. ServersKnownOnce'
    BY <1>3, <2>2, <2>4, <2>5 DEF ClientsInv, ServersKnownOnce, Known, EqualIdTo
  <2>8. \A j \in DOMAIN clients : j \in DOMAIN clients'
    BY <1>0, <2>4
  <2> QED BY <1>3, <2>2, <2>4, <2>6, <2>7, <2>8 DEF ClientsInv, ClientsTypeOK
<1> QED BY <1>1, <1>2, <1>3

(***************************************************************************)
(* FindFreeClient.                                                         *)
(***************************************************************************)
\* When some client is a candidate, FindFreeClient returns one, and none has a
\* smaller load.
LEMMA FindFreeClientLeast ==
  ASSUME ClientsTypeOK, NEW t, Candidates(t) # {}
  PROVE  /\ FindFreeClient(t) \in Candidates(t)
         /\ \A j \in Candidates(t) :
              clients[FindFreeClient(t)].clientLoad <= clients[j].clientLoad
<1> DEFINE C == Candidates(t)
           load(i) == clients[i].clientLoad
           first(i) == \A j \in C \ {i} :
                         \/ clients[i].clientLoad < clients[j].clientLoad
                         \/ clients[i].clientLoad = clients[j].clientLoad /\ i < j
<1>1. /\ C \subseteq DOMAIN clients
      /\ DOMAIN clients \subseteq Nat
      /\ \A i \in C : load(i) \in Nat
  <2>1. /\ C \subseteq DOMAIN clients
        /\ DOMAIN clients = 1 .. Len(clients)
        /\ Len(clients) \in Nat
    BY LenProperties DEF ClientsTypeOK, Candidates
  <2>2. \A i \in DOMAIN clients : clients[i] \in ClientInfo
    BY <2>1, ElementOfSeq DEF ClientsTypeOK
  <2>3. \A i \in C : load(i) \in 0 .. EachTaskWeight
    BY <2>1, <2>2 DEF ClientInfo
  <2> QED BY <2>1, <2>3, Widths
<1>2. PICK m \in C : \A j \in C : load(m) <= load(j)
  <2> DEFINE loads == {load(i) : i \in C}
  <2>1. loads \in SUBSET Nat /\ loads # {} BY <1>1
  <2>2. PICK l \in loads : \A k \in loads : l <= k BY <2>1, LeastMember
  <2> QED BY <2>2
<1>3. PICK i \in C : load(i) = load(m) /\ \A j \in C : load(j) = load(m) => i <= j
  <2> DEFINE best == {j \in C : load(j) = load(m)}
  <2>1. best \in SUBSET Nat /\ best # {} BY <1>1
  <2> QED BY <2>1, LeastMember
<1>4. first(i)
  <2> SUFFICES ASSUME NEW j \in C \ {i}
               PROVE  load(i) < load(j) \/ (load(i) = load(j) /\ i < j)
    OBVIOUS
  <2>1. i \in Nat /\ j \in Nat /\ load(i) \in Nat /\ load(j) \in Nat /\ i # j
    BY <1>1
  <2>2. load(i) <= load(j) /\ (load(j) = load(i) => i <= j) BY <1>2, <1>3
  <2> HIDE DEF load
  <2> QED BY <2>1, <2>2
<1>5. FindFreeClient(t) = CHOOSE k \in C : first(k)
  BY DEF FindFreeClient
<1> HIDE DEF first
<1>6. FindFreeClient(t) \in C /\ first(FindFreeClient(t))
  BY <1>4, <1>5
<1> QED BY <1>1, <1>6 DEF first

\* A full server is picked only when every candidate is full: only its load is the
\* whole weight, and FindFreeClient returns the least load.
LEMMA FullNotPreferred ==
  ASSUME ClientsTypeOK, LoadsFresh
  PROVE  FullServerNotPreferred
<1> SUFFICES ASSUME NEW t \in Tools,
                    FindFreeClient(t) # NoClient,
                    clients[FindFreeClient(t)].toolServer.totalThreads > 0,
                    ~HasFreeThread(clients[FindFreeClient(t)]),
                    NEW j \in Candidates(t)
             PROVE  ~HasFreeThread(clients[j])
  BY DEF FullServerNotPreferred
<1> DEFINE i == FindFreeClient(t)
<1>1. /\ i \in Candidates(t)
      /\ clients[i].clientLoad <= clients[j].clientLoad
  BY FindFreeClientLeast
<1>2. ASSUME NEW k \in Candidates(t)
      PROVE  /\ clients[k].toolServer.totalThreads \in Nat
             /\ clients[k].busyTotal \in Nat
             /\ clients[k].busyTotal <= clients[k].toolServer.totalThreads
             /\ clients[k].clientLoad =
                  Load(clients[k].busyTotal, clients[k].toolServer.totalThreads)
  <2>1. k \in DOMAIN clients BY DEF Candidates
  <2>2. clients[k] \in ClientInfo
    BY <2>1, ElementOfSeq, LenProperties DEF ClientsTypeOK
  <2>3. LoadFresh(clients[k]) BY <2>1 DEF LoadsFresh
  <2>4. /\ clients[k].toolServer.totalThreads \in UInt16
        /\ clients[k].busyOthers \in UInt16
        /\ clients[k].busyMine \in UInt16
        /\ clients[k].busyByNetworkLoad \in UInt16
    BY <2>2, ServerType DEF ClientInfo
  <2>5. /\ clients[k].busyTotal \in UInt16
        /\ clients[k].busyTotal <= clients[k].toolServer.totalThreads
    BY <2>3, <2>4, BusyTotalType DEF LoadFresh
  <2>6. \A n \in UInt16 : n \in Nat BY Widths DEF UInt16
  <2> QED BY <2>3, <2>4, <2>5, <2>6 DEF LoadFresh
<1>3. clients[i].clientLoad = EachTaskWeight
  <2>1. clients[i].busyTotal = clients[i].toolServer.totalThreads
    BY <1>1, <1>2 DEF HasFreeThread
  <2> QED BY <1>1, <1>2, <2>1, LoadBound
<1>4. CASE clients[j].busyTotal < clients[j].toolServer.totalThreads
  <2>1. clients[j].clientLoad < EachTaskWeight /\ clients[j].clientLoad \in Nat
    BY <1>2, <1>4, LoadBound, Widths
  <2> QED BY <1>1, <1>3, <2>1, Widths
<1> QED BY <1>4 DEF HasFreeThread

(***************************************************************************)
(* The totals.                                                             *)
(***************************************************************************)
\* One client counted in leaves the totals in their widths.
LEMMA CountingType ==
  ASSUME NEW t \in Totals, NEW c \in ClientInfo
  PROVE  Counting(t, c) \in Totals
<1>1. /\ c.toolServer \in ToolServers
      /\ c.busyTotal \in UInt16 /\ c.busyMine \in UInt16
      /\ t.remote \in UInt16 /\ t.free \in UInt16 /\ t.used \in UInt16
  BY DEF ClientInfo, Totals
<1>2. c.toolServer.totalThreads \in UInt16 BY <1>1, ServerType
<1>3. \A n \in UInt16 : n \in Int BY Widths DEF UInt16
<1>4. /\ t.remote + c.toolServer.totalThreads \in Int
      /\ t.free + c.toolServer.totalThreads - c.busyTotal \in Int
      /\ t.used + c.busyMine \in Int
  BY <1>1, <1>2, <1>3
<1>5. /\ (t.remote + c.toolServer.totalThreads) % U16 \in UInt16
      /\ (t.free + c.toolServer.totalThreads - c.busyTotal) % U16 \in UInt16
      /\ (t.used + c.busyMine) % U16 \in UInt16
  BY <1>4, Reduced
<1> QED BY <1>5 DEF Counting, Totals

LEMMA NoThreadsType == NoThreads \in Totals
BY Widths DEF NoThreads, Totals, UInt16

\* The totals of any vector are defined, and within their widths.
LEMMA RecalcAvailableType ==
  ASSUME NEW cs \in Seq(ClientInfo)
  PROVE  RecalcAvailable(cs) \in Totals
<1> DEFINE L == Len(cs)
           Eq(g) == g = [n \in 0 .. L |-> IF n = 0 THEN NoThreads
                                          ELSE Counting(g[n - 1], cs[n])]
           sum == CHOOSE g : Eq(g)
           step == [p \in Nat \X Totals |-> IF p[1] + 1 \in 1 .. L
                                            THEN Counting(p[2], cs[p[1] + 1]) ELSE p[2]]
<1>0. L \in Nat /\ \A n \in 1 .. L : cs[n] \in ClientInfo
  BY ElementOfSeq, LenProperties
<1>1. \E g : Eq(g)
  <2>1. step \in Steps(Totals) BY <1>0, CountingType DEF Steps
  <2>2. \A n \in Nat, t \in Totals :
          step[<<n, t>>] = IF n + 1 \in 1 .. L THEN Counting(t, cs[n + 1]) ELSE t
    OBVIOUS
  <2> HIDE DEF step
  <2>3. PICK f : IsRecursive(f, Totals, NoThreads, step)
    BY <2>1, NoThreadsType, NatRecursive
  <2> USE DEF IsRecursive
  <2> DEFINE g == [n \in 0 .. L |-> f[n]]
  <2>4. ASSUME NEW n \in 0 .. L
        PROVE  f[n] = IF n = 0 THEN NoThreads ELSE Counting(g[n - 1], cs[n])
    <3>1. CASE n = 0 BY <3>1, <2>3
    <3>2. CASE n # 0
      <4>1. n - 1 \in Nat /\ n - 1 \in 0 .. L /\ (n - 1) + 1 = n /\ n \in 1 .. L
        BY <3>2, <1>0
      <4>2. f[n] = step[<<n - 1, f[n - 1]>>] BY <4>1, <2>3
      <4>3. f[n - 1] \in Totals /\ g[n - 1] = f[n - 1] BY <4>1, <2>3
      <4> HIDE DEF g
      <4>4. step[<<n - 1, f[n - 1]>>] = Counting(f[n - 1], cs[n]) BY <4>1, <4>3, <2>2
      <4> QED BY <3>2, <4>2, <4>3, <4>4
    <3> QED BY <3>1, <3>2
  <2>5. Eq(g) BY <2>4
  <2> QED BY <2>5
<1>2. Eq(sum)
  <2> HIDE DEF Eq
  <2> QED BY <1>1
<1>3. RecalcAvailable(cs) = sum[L] BY DEF RecalcAvailable
<1>4. \A n \in 0 .. L : sum[n] = IF n = 0 THEN NoThreads ELSE Counting(sum[n - 1], cs[n])
  <2> HIDE DEF sum
  <2> QED BY <1>2
<1> DEFINE T == {n \in Nat : n <= L => sum[n] \in Totals}
<1> HIDE DEF sum, L
<1>5. 0 \in T BY <1>0, <1>4, NoThreadsType
<1>6. ASSUME NEW n \in T PROVE n + 1 \in T
  <2> SUFFICES ASSUME n + 1 <= L PROVE sum[n + 1] \in Totals OBVIOUS
  <2>1. n + 1 \in 0 .. L /\ n + 1 \in 1 .. L /\ n + 1 # 0 /\ (n + 1) - 1 = n BY <1>0
  <2>2. sum[n + 1] = Counting(sum[n], cs[n + 1]) BY <1>4, <2>1
  <2>3. sum[n] \in Totals BY <1>0
  <2>4. cs[n + 1] \in ClientInfo BY <1>0, <2>1
  <2> QED BY <2>2, <2>3, <2>4, CountingType
<1>7. T \in SUBSET Nat OBVIOUS
<1> HIDE DEF T
<1>8. T = Nat BY <1>5, <1>6, <1>7, NatInductive
<1>9. L \in T /\ L <= L BY <1>0, <1>8
<1> QED BY <1>3, <1>9 DEF T

\* Nobody is counted: nothing is free.
LEMMA RecalcAvailableNone == RecalcAvailable(<< >>) = NoThreads
<1> DEFINE Eq(g) == g = [n \in 0 .. Len(<< >>) |-> IF n = 0 THEN NoThreads
                                                ELSE Counting(g[n - 1], << >>[n])]
           sum == CHOOSE g : Eq(g)
           one == [n \in 0 .. 0 |-> NoThreads]
<1>1. Len(<< >>) = 0 OBVIOUS
<1>2. Eq(one) BY <1>1
<1>3. Eq(sum)
  <2> HIDE DEF Eq, one
  <2> QED BY <1>2
<1>4. RecalcAvailable(<< >>) = sum[0] BY <1>1 DEF RecalcAvailable
<1> HIDE DEF sum
<1> QED BY <1>1, <1>3, <1>4

\* What readers of the totals rely on, in addition to the vector.
BalancerInv == ClientsInv /\ totals = RecalcAvailable(clients)

(***************************************************************************)
(* Theorems.                                                               *)
(***************************************************************************)
\* The invariant holds at the start and after every operation.
LEMMA ClientsInvInit == BalancerInit => ClientsInv
BY DEF BalancerInit, ClientsInv, ClientsTypeOK, LoadsFresh, ServersKnownOnce

\* Every operation preserves the invariant of the vector.
LEMMA ClientsInvNext == ClientsInv /\ [BalancerNext]_balancerVars => ClientsInv'
<1> SUFFICES ASSUME ClientsInv, [BalancerNext]_balancerVars PROVE ClientsInv'
  OBVIOUS
<1>1. ASSUME NEW s \in ToolServers, UpdateClient(s) PROVE ClientsInv'
  BY <1>1, UpdateClientStep
<1>2. ASSUME NEW i \in DOMAIN clients, NEW b \in BOOLEAN, SetClientActive(i, b)
      PROVE  ClientsInv'
  BY <1>2, SetClientActiveStep
<1>3. ASSUME NEW i \in DOMAIN clients, NEW b \in BOOLEAN, SetClientCompatible(i, b)
      PROVE  ClientsInv'
  BY <1>3, SetClientCompatibleStep
<1>4. ASSUME NEW i \in DOMAIN clients, NEW load \in QueueLoads, SetServerSideLoad(i, load)
      PROVE  ClientsInv'
  BY <1>4, SetServerSideLoadStep, BoundsAssumption
<1>5. ASSUME NEW i \in DOMAIN clients, StartTask(i) PROVE ClientsInv'
  BY <1>5, StartTaskStep
<1>6. ASSUME NEW i \in DOMAIN clients, FinishTask(i) PROVE ClientsInv'
  BY <1>6, FinishTaskStep
<1>7. CASE UNCHANGED balancerVars
  BY <1>7 DEF balancerVars, ClientsInv, ClientsTypeOK, LoadsFresh, LoadFresh,
              ServersKnownOnce
<1> QED BY <1>1, <1>2, <1>3, <1>4, <1>5, <1>6, <1>7 DEF BalancerNext

\* Every operation ends with RecalcAvailable, or leaves vector and totals alone.
LEMMA BalancerInvNext == BalancerInv /\ [BalancerNext]_balancerVars => BalancerInv'
<1> SUFFICES ASSUME BalancerInv, [BalancerNext]_balancerVars PROVE BalancerInv'
  OBVIOUS
<1>1. ClientsInv' BY ClientsInvNext DEF BalancerInv
<1>2. \/ UNCHANGED balancerVars
      \/ totals' = RecalcAvailable(clients')
  <2>1. ASSUME NEW cs, SetClients(cs) PROVE totals' = RecalcAvailable(clients')
    BY <2>1 DEF SetClients
  <2>2. ASSUME NEW s \in ToolServers, UpdateClient(s)
        PROVE  UNCHANGED balancerVars \/ totals' = RecalcAvailable(clients')
    BY <2>1, <2>2 DEF UpdateClient
  <2>3. ASSUME NEW i \in DOMAIN clients,
               \/ \E b \in BOOLEAN : SetClientActive(i, b)
               \/ \E b \in BOOLEAN : SetClientCompatible(i, b)
               \/ \E load \in QueueLoads : SetServerSideLoad(i, load)
               \/ StartTask(i)
               \/ FinishTask(i)
        PROVE  totals' = RecalcAvailable(clients')
    BY <2>1, <2>3 DEF SetClientActive, SetClientCompatible, SetServerSideLoad, StartTask,
                      FinishTask
  <2> QED BY <2>2, <2>3 DEF BalancerNext
<1>3. totals' = RecalcAvailable(clients')
  BY <1>2 DEF balancerVars, BalancerInv
<1> QED BY <1>1, <1>3 DEF BalancerInv

LEMMA AlwaysBalancerInv == BalancerSpec => []BalancerInv
<1>1. BalancerInit => BalancerInv
  BY ClientsInvInit, RecalcAvailableNone DEF BalancerInit, BalancerInv
<1> QED BY <1>1, BalancerInvNext, PTL DEF BalancerSpec

\* The vector of servers (ToolBalancer.cpp, m_clients) is typed, without duplicates and fresh.
THEOREM ClientsInvariant == BalancerSpec => []ClientsInv
BY ClientsInvInit, ClientsInvNext, PTL DEF BalancerSpec

\* The vector of clients is well typed in every behaviour of the balancer: in
\* particular the load estimate fits its weight and no field leaves uint16_t.
THEOREM TypeCorrect == BalancerSpec => []ClientsTypeOK
<1>1. ClientsInv => ClientsTypeOK BY DEF ClientsInv
<1> QED BY <1>1, ClientsInvariant, PTL

\* A server is known once, whatever is announced in which order.
THEOREM KnownOnce == BalancerSpec => []ServersKnownOnce
<1>1. ClientsInv => ServersKnownOnce BY DEF ClientsInv
<1> QED BY <1>1, ClientsInvariant, PTL

\* No operation leaves a stale load estimate behind.
THEOREM LoadsStayFresh == BalancerSpec => []LoadsFresh
<1>1. ClientsInv => LoadsFresh BY DEF ClientsInv
<1> QED BY <1>1, ClientsInvariant, PTL

\* The totals that callers read without the lock (GetTotalThreads, GetFreeThreads,
\* GetUsedThreads) are uint16_t: no sum of threads leaves them otherwise.
THEOREM BalancerTypeCorrect == BalancerSpec => []BalancerTypeOK
<1>1. BalancerInv => BalancerTypeOK
  BY RecalcAvailableType DEF BalancerInv, BalancerTypeOK, ClientsInv, ClientsTypeOK
<1> QED BY <1>1, AlwaysBalancerInv, PTL

\* The totals are those of the current fields after every operation: none forgets
\* RecalcAvailable, so no caller is told of threads that are gone.
THEOREM CachesStayFresh == BalancerSpec => []CachesFresh
<1>1. BalancerInv => CachesFresh BY DEF BalancerInv, ClientsInv, CachesFresh
<1> QED BY <1>1, AlwaysBalancerInv, PTL

\* A task never goes to a full server while a candidate with a free thread exists.
THEOREM FullServersAvoided == BalancerSpec => []FullServerNotPreferred
<1>1. ClientsInv => FullServerNotPreferred BY FullNotPreferred DEF ClientsInv
<1> QED BY <1>1, ClientsInvariant, PTL
=============================================================================
