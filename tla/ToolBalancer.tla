---------------------------- MODULE ToolBalancer ----------------------------
(***************************************************************************)
(* The load balancer of the remote tool client (ToolBalancer.cpp): the     *)
(* vector of known tool servers, a load estimate for each, and three       *)
(* cached totals that callers read without the lock.  Every operation runs *)
(* under m_clientsMutex, so each is one action.                            *)
(*                                                                         *)
(* A ToolServerInfo carries, of the list m_connectedClients, only what the *)
(* balancer takes from it: othersUsed, the sum of m_usedThreads over the   *)
(* sessions that are neither 0 nor the balancer's own.                     *)
(***************************************************************************)
EXTENDS Integers, Sequences, FiniteSets

CONSTANTS
  ToolServers,   (* the values a ToolServerInfo may take                      *)
  RequiredTools, (* m_requiredToolIds: the tools this build needs             *)
  Tools          (* the tool ids a task may name                              *)

VARIABLES
  clients,  (* m_clients, indexed from 1                                      *)
  totals    (* m_totalRemoteThreads, m_freeRemoteThreads, m_usedThreads       *)

balancerVars == <<clients, totals>>

U16 == 65536                 \* uint16_t holds 0 .. U16 - 1
UInt16 == 0 .. U16 - 1
EachTaskWeight == 32768
NoClient == 0                \* the size_t maximum FindFreeClient returns

ASSUME BalancerAssumption ==
  /\ RequiredTools \subseteq Tools
  /\ \A s \in ToolServers : /\ s.toolIds \subseteq Tools
                            /\ s.totalThreads \in UInt16
                            /\ s.othersUsed \in UInt16

ClientInfo ==
  [toolServer          : ToolServers,
   checked             : BOOLEAN,
   active              : BOOLEAN,
   compatible          : BOOLEAN,
   serverSideQueue     : UInt16,
   serverSideQueuePrev : UInt16,
   serverSideQueueAvg  : UInt16,
   busyMine            : UInt16,
   busyOthers          : UInt16,
   busyTotal           : UInt16,
   busyByNetworkLoad   : UInt16,
   clientLoad          : 0 .. EachTaskWeight]

Totals == [remote : UInt16, free : UInt16, used : UInt16]

Lesser(a, b) == IF a <= b THEN a ELSE b

(***************************************************************************)
(* ClientInfo::UpdateLoad.                                                 *)
(***************************************************************************)
\* Mutant: the decrement without its guard.
BusyOthersUnguarded(s) == s.othersUsed - 1

\* "reduce other's load for more greedy behaviour"
BusyOthers(s) == IF s.othersUsed > 0 THEN s.othersUsed - 1 ELSE 0

\* The comparison promotes both sides to int: busyMine - 1 may be -1.
RaisedPenalty(c) ==
  IF c.serverSideQueueAvg >= c.busyMine - 1
  THEN Lesser((c.busyByNetworkLoad + 1) % U16, c.toolServer.totalThreads)
  ELSE c.busyByNetworkLoad

Penalty(c) ==
  IF c.serverSideQueueAvg = 0 /\ RaisedPenalty(c) > 0
  THEN RaisedPenalty(c) - 1
  ELSE RaisedPenalty(c)

BusyTotal(others, mine, penalty, threads) ==
  Lesser((others + mine + penalty) % U16, threads)

\* Mutant: the load is the free share of the server instead of the busy one.
LoadOfFreeShare(busy, threads) ==
  IF threads > 0 THEN ((threads - busy) * EachTaskWeight) \div threads ELSE 0

Load(busy, threads) ==
  IF threads > 0 THEN (busy * EachTaskWeight) \div threads ELSE 0

UpdateLoad(c) ==
  LET s    == c.toolServer
      busy == BusyTotal(BusyOthers(s), c.busyMine, Penalty(c), s.totalThreads)
  IN  [c EXCEPT !.busyOthers        = BusyOthers(s),
                !.busyByNetworkLoad = Penalty(c),
                !.busyTotal         = busy,
                !.clientLoad        = Load(busy, s.totalThreads)]

(***************************************************************************)
(* RecalcAvailable: the totals over the usable servers, in uint16_t, added *)
(* up in the order of the vector.                                          *)
(***************************************************************************)
\* Mutant: a connected server is usable before its tool versions were compared.
UsableUnchecked(c) == c.active

Usable(c) == c.active /\ c.compatible

NoThreads == [remote |-> 0, free |-> 0, used |-> 0]

Counting(t, c) ==
  IF Usable(c)
  THEN [remote |-> (t.remote + c.toolServer.totalThreads) % U16,
        free   |-> (t.free + c.toolServer.totalThreads - c.busyTotal) % U16,
        used   |-> (t.used + c.busyMine) % U16]
  ELSE t

RecalcAvailable(cs) ==
  LET sum[n \in 0 .. Len(cs)] ==
        IF n = 0 THEN NoThreads ELSE Counting(sum[n - 1], cs[n])
  IN  sum[Len(cs)]

SetClients(cs) == clients' = cs /\ totals' = RecalcAvailable(cs)

(***************************************************************************)
(* The operations.                                                         *)
(***************************************************************************)
EqualIdTo(s, t) == s.id = t.id   \* m_toolServerId, host and port

\* A server that names its tools and has none of the required ones.
Skipped(s) ==
  /\ RequiredTools # {} /\ s.toolIds # {}
  /\ RequiredTools \cap s.toolIds = {}

NewClient(s) ==
  [toolServer |-> s, checked |-> FALSE, active |-> FALSE, compatible |-> FALSE,
   serverSideQueue |-> 0, serverSideQueuePrev |-> 0, serverSideQueueAvg |-> 0,
   busyMine |-> 0, busyOthers |-> 0, busyTotal |-> 0, busyByNetworkLoad |-> 0,
   clientLoad |-> 0]

\* Mutant: a server whose description has changed is taken for a new one.
KnownUnchanged(s) == \E i \in DOMAIN clients : clients[i].toolServer = s

Known(s) == \E i \in DOMAIN clients : EqualIdTo(clients[i].toolServer, s)

UpdateClient(s) ==
  IF Skipped(s) THEN UNCHANGED balancerVars
  ELSE IF Known(s)
  THEN SetClients([i \in DOMAIN clients |->
                     IF EqualIdTo(clients[i].toolServer, s)
                     THEN UpdateLoad([clients[i] EXCEPT !.toolServer = s])
                     ELSE clients[i]])
  ELSE SetClients(Append(clients, UpdateLoad(NewClient(s))))

\* Mutant: the totals are not recomputed when a server comes or goes.
SetClientActiveOnly(i, isActive) ==
  clients' = [clients EXCEPT ![i].active = isActive] /\ UNCHANGED totals

SetClientActive(i, isActive) ==
  SetClients([clients EXCEPT ![i].active = isActive])

SetClientCompatible(i, isCompatible) ==
  SetClients([clients EXCEPT ![i].compatible = isCompatible, ![i].checked = TRUE])

SetServerSideLoad(i, load) ==
  LET c == clients[i]
  IN  SetClients([clients EXCEPT ![i] = UpdateLoad(
        [c EXCEPT !.serverSideQueuePrev = c.serverSideQueue,
                  !.serverSideQueue     = load,
                  !.serverSideQueueAvg  = (load + c.serverSideQueue) \div 2])])

StartTask(i) ==
  LET c == clients[i]
  IN  SetClients([clients EXCEPT ![i] =
        UpdateLoad([c EXCEPT !.busyMine = (c.busyMine + 1) % U16])])

FinishTask(i) ==
  LET c    == clients[i]
      mine == IF c.busyMine > 0 THEN c.busyMine - 1 ELSE 0
  IN  SetClients([clients EXCEPT ![i] = UpdateLoad([c EXCEPT !.busyMine = mine])])

(***************************************************************************)
(* FindFreeClient: the first of the least loaded usable servers that has   *)
(* the tool; a server that names no tools has them all.                    *)
(***************************************************************************)
HasTool(s, toolId) == s.toolIds = {} \/ toolId \in s.toolIds

Candidates(toolId) ==
  {i \in DOMAIN clients : Usable(clients[i]) /\ HasTool(clients[i].toolServer, toolId)}

FindFreeClient(toolId) ==
  IF Candidates(toolId) = {} THEN NoClient
  ELSE CHOOSE i \in Candidates(toolId) : \A j \in Candidates(toolId) \ {i} :
         \/ clients[i].clientLoad < clients[j].clientLoad
         \/ clients[i].clientLoad = clients[j].clientLoad /\ i < j

IsAllChecked == \A i \in DOMAIN clients : clients[i].checked

(***************************************************************************)
(* The balancer on its own, with callers that start a task on a server     *)
(* that was picked before (the pick may be stale by then) and finish every *)
(* started task at most once.                                              *)
(***************************************************************************)
CONSTANTS
  QueueLoads,  (* the uniqueRepliesQueued values a server may report          *)
  MaxBusyMine  (* bound on the tasks this client has on one server            *)

ASSUME BoundsAssumption == QueueLoads \subseteq UInt16 /\ MaxBusyMine \in UInt16

BalancerInit ==
  clients = << >> /\ totals = NoThreads

BalancerNext ==
  \/ \E s \in ToolServers : UpdateClient(s)
  \/ \E i \in DOMAIN clients :
       \/ \E b \in BOOLEAN : SetClientActive(i, b)
       \/ \E b \in BOOLEAN : SetClientCompatible(i, b)
       \/ \E load \in QueueLoads : SetServerSideLoad(i, load)
       \/ clients[i].busyMine < MaxBusyMine /\ StartTask(i)
       \/ clients[i].busyMine > 0 /\ FinishTask(i)

BalancerSpec == BalancerInit /\ [][BalancerNext]_balancerVars

(***************************************************************************)
(* Properties.                                                             *)
(***************************************************************************)
\* The types of the client vector and of the cached totals.
ClientsTypeOK == clients \in Seq(ClientInfo)
BalancerTypeOK == ClientsTypeOK /\ totals \in Totals

\* A server is known once: a repeated announcement updates its entry, so an index
\* handed to the channel callbacks stays the index of that server.
ServersKnownOnce ==
  \A i, j \in DOMAIN clients :
    EqualIdTo(clients[i].toolServer, clients[j].toolServer) => i = j

\* After every operation the cached load and totals are those of the current
\* fields: no operation forgets UpdateLoad or RecalcAvailable, although readers
\* of the totals and FindFreeClient use the cached values only.
LoadFresh(c) ==
  /\ c.busyOthers = BusyOthers(c.toolServer)
  /\ c.busyTotal = BusyTotal(c.busyOthers, c.busyMine, c.busyByNetworkLoad,
                             c.toolServer.totalThreads)
  /\ c.clientLoad = Load(c.busyTotal, c.toolServer.totalThreads)
LoadsFresh == \A i \in DOMAIN clients : LoadFresh(clients[i])
CachesFresh == LoadsFresh /\ totals = RecalcAvailable(clients)

\* A server whose threads are all taken is never picked while a candidate with a
\* free thread exists.  (A server of unknown size, totalThreads = 0, is not full.)
HasFreeThread(c) == c.busyTotal < c.toolServer.totalThreads
FullServerNotPreferred ==
  \A t \in Tools : LET i == FindFreeClient(t) IN
    /\ i # NoClient
    /\ clients[i].toolServer.totalThreads > 0
    /\ ~HasFreeThread(clients[i])
    => \A j \in Candidates(t) : ~HasFreeThread(clients[j])
=============================================================================
