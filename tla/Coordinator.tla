---------------------------- MODULE Coordinator ----------------------------
(***************************************************************************)
(* Coordinators (CoordinatorServer.cpp) and the processes connected to     *)
(* them (CoordinatorClient.cpp): tool servers announce what they offer,    *)
(* a coordinator keeps a list of them and sends it to the tool clients.    *)
(* A process has a worker per coordinator it is configured with: a link    *)
(* <<process, coordinator>>.  A link connects again and again; each        *)
(* connection <<process, coordinator, n>> has a handler of its own, with   *)
(* its own thread, in the coordinator's SocketFrameService.                *)
(*                                                                         *)
(* What a tool server announces is the number of its latest change; the    *)
(* lists tool servers receive are left out, as nothing reads them.         *)
(***************************************************************************)
EXTENDS Naturals, Sequences, FiniteSets, TLC, SequencesExt

CONSTANTS
  ToolServers, Clients,
  Coordinators,
  Deployments,       (* what the processes may be configured with, and bounds  *)
  MaxConnects,       (* bound: connections of a link                           *)
  MaxInfo,           (* bound: the last info of a tool server                  *)
  LatestSessionsSize,(* m_lastestSessionsSize                                  *)
  None               (* the null m_opaqueFrameHandler                          *)

Processes == ToolServers \cup Clients
Links == Processes \X Coordinators
Connections ==
  UNION {{<<p, k, n>> : n \in 1 .. MaxConnects} : p \in Processes, k \in Coordinators}
LinkOf(h) == <<h[1], h[2]>>
Infos == 1 .. MaxInfo
Lists == UNION {[S -> Infos] : S \in SUBSET ToolServers}

\* A deployment: m_coordinatorHost of every process, the processes that were started
\* before, the clients whose sessions are reported, and bounds: connections of a process's
\* link, infos of a tool server, connections that fail of themselves, coordinators that go
\* down.
DeploymentRecords ==
  [hosts : [Processes -> Seq(Coordinators)], started : SUBSET Processes,
   sessions : SUBSET Clients, connects : [Processes -> 0 .. MaxConnects],
   infos : [ToolServers -> Infos], losses : Nat, crashes : Nat]

ASSUME CoordinatorAssumption ==
  /\ ToolServers \cap Clients = {}
  /\ MaxConnects \in Nat
  /\ MaxInfo \in Nat \ {0} /\ LatestSessionsSize \in Nat
  /\ Deployments \subseteq DeploymentRecords
  /\ \A d \in Deployments, p \in Processes : IsInjective(d.hosts[p])
  /\ None \notin Connections \cup Lists

VARIABLES
  deployment,
  running, pushed, (* workers started, and workers in m_workers, per process   *)
  exclusive,       (* m_exclusiveModeSet, per client                           *)
  stopped,         (* the links StopExtraClients has stopped                   *)
  connects, conn,  (* connections made by a link; the current one, or 0        *)
  info,            (* m_lastInfo of a tool server                              *)
  linkInfo,        (* m_toolServerInfo of a tool server's link                 *)
  needSend, needRequest, (* m_needSendToolServerInfo, m_needRequestData        *)
  sending,         (* links whose Quant has cleared m_needSendToolServerInfo   *)
  framesQueue,     (* frames a link has queued                                 *)
  sent,            (* frames written to a connection, not read yet             *)
  lists,           (* lists queued to a client's connection, not read yet      *)
  handlers,        (* the coordinator's side of a connection                   *)
  reader,          (* where the thread of a handler is with a frame            *)
  toolServers,     (* m_info.m_toolServers of a coordinator                    *)
  activeSessions, latestSessions,
  session,         (* how far the session of a client is                       *)
  reading,         (* the list a client's link has read and not applied, or None *)
  coord,           (* m_coord of a client: a tool server's info; 0: it has none *)
  losses,          (* how many connections have failed of themselves           *)
  up, crashes,     (* coordinators that run; how often one went down           *)
  overlapped,      (* history: coordinators where two handlers' lists crossed  *)
  dangled,         (* history: coordinators that wrote through a stale pointer *)
  doubled,         (* history: connections made while an older handler existed *)
  early,           (* history: clients that chose before all workers were known *)
  missed           (* history: links started, but not in m_workers at a change  *)

workerVars == <<running, pushed, exclusive, stopped>>
connVars == <<connects, conn>>
infoVars == <<info, linkInfo, needSend, sending>>
clientVars == <<needRequest, reading, coord>>
processVars == <<workerVars, connVars, infoVars, clientVars, session>>
serverVars == <<reader, toolServers>>
listedSessions == <<activeSessions, latestSessions>>
coordinatorVars == <<serverVars, listedSessions>>
netVars == <<framesQueue, sent, lists, handlers>>
envVars == <<deployment, losses, up, crashes>>
history == <<overlapped, dangled, doubled, early, missed>>
vars == <<processVars, coordinatorVars, netVars, envVars, history>>

Idle == [at |-> "idle"]
Entry == [ts : ToolServers, ver : Infos, handler : Connections \cup {None}]
Frames == [type : {"status"}, ver : Infos] \cup [type : {"request"}]
          \cup [type : {"session"}, finished : BOOLEAN]

ReaderStates ==
  {Idle} \cup [at : {"updated"}, slot : Nat \ {0}] \cup [at : {"dangling", "marked"}]
         \cup [at : {"copied", "replying"}, list : Lists]

WorkerTypes ==
  /\ deployment \in Deployments
  /\ running \in [Processes -> Nat] /\ pushed \in [Processes -> Nat]
  /\ \A p \in Processes : pushed[p] <= running[p] /\ running[p] <= Len(deployment.hosts[p])
  /\ exclusive \in SUBSET Clients /\ stopped \in SUBSET Links

ConnTypes ==
  /\ connects \in [Links -> Nat] /\ conn \in [Links -> Nat]
  /\ \A l \in Links : conn[l] \in {0, connects[l]} /\ connects[l] <= deployment.connects[l[1]]

InfoTypes ==
  /\ info \in [ToolServers -> Infos] /\ linkInfo \in [ToolServers \X Coordinators -> Infos]
  /\ needSend \in SUBSET Links /\ sending \in SUBSET (ToolServers \X Coordinators)

ClientTypes ==
  /\ needRequest \in SUBSET Links /\ reading \in [Links -> Lists \cup {None}]
  /\ coord \in [Clients -> [ToolServers -> {0} \cup Infos]]

NetTypes ==
  /\ framesQueue \in [Links -> Seq(Frames)] /\ sent \in [Connections -> Seq(Frames)]
  /\ lists \in [Connections -> Seq(Lists)]
  /\ handlers \in [Connections -> {"none", "open", "broken", "erased"}]

ServerTypes ==
  /\ reader \in [Connections -> ReaderStates]
  /\ toolServers \in [Coordinators -> Seq(Entry)]

SessionTypes ==
  /\ activeSessions \in [Coordinators -> SUBSET Clients]
  /\ latestSessions \in [Coordinators -> Seq(Clients)]
  /\ session \in [Clients -> {"none", "running", "finished", "late"}]

HistoryTypes ==
  /\ losses \in Nat /\ up \in SUBSET Coordinators /\ crashes \in Nat
  /\ overlapped \in SUBSET Coordinators /\ dangled \in SUBSET Coordinators
  /\ doubled \in SUBSET Connections /\ early \in SUBSET Clients /\ missed \in SUBSET Links

TypeOK ==
  /\ WorkerTypes /\ ConnTypes /\ InfoTypes /\ ClientTypes
  /\ NetTypes /\ ServerTypes /\ SessionTypes /\ HistoryTypes

Init ==
  /\ deployment \in Deployments
  /\ running = [p \in Processes |->
       IF p \in deployment.started THEN Len(deployment.hosts[p]) ELSE 0]
  /\ pushed = running
  /\ exclusive = {} /\ stopped = {}
  /\ connects = [l \in Links |-> 0] /\ conn = connects
  /\ info = [t \in ToolServers |-> 1] /\ linkInfo = [l \in ToolServers \X Coordinators |-> 1]
  /\ needSend = Links /\ needRequest = Links /\ sending = {}
  /\ framesQueue = [l \in Links |-> << >>]
  /\ sent = [h \in Connections |-> << >>] /\ lists = sent
  /\ handlers = [h \in Connections |-> "none"]
  /\ reader = [h \in Connections |-> Idle]
  /\ toolServers = [k \in Coordinators |-> << >>]
  /\ activeSessions = [k \in Coordinators |-> {}]
  /\ latestSessions = [k \in Coordinators |-> << >>]
  /\ session = [c \in Clients |-> "none"]
  /\ coord = [c \in Clients |-> [t \in ToolServers |-> 0]]
  /\ up = Coordinators /\ crashes = 0 /\ losses = 0
  /\ reading = [l \in Links |-> None]
  /\ overlapped = {} /\ dangled = {} /\ doubled = {} /\ early = {} /\ missed = {}

(***************************************************************************)
(* The processes: CoordinatorClient and its workers.                       *)
(***************************************************************************)
Hosts(p) == deployment.hosts[p]
IsRunning(l) == \E i \in 1 .. running[l[1]] : Hosts(l[1])[i] = l[2]
IsPushed(l) == \E i \in 1 .. pushed[l[1]] : Hosts(l[1])[i] = l[2]
Current(l) == <<l[1], l[2], conn[l]>>
ClientState(l) == conn[l] # 0

\* Start, a turn of its loop: a worker gets m_lastInfo and runs, then is put into m_workers.
StartWorker(p) ==
  /\ running[p] = pushed[p] /\ running[p] < Len(Hosts(p))
  /\ running' = [running EXCEPT ![p] = @ + 1]
  /\ linkInfo' = [l \in DOMAIN linkInfo |->
       IF l = <<p, Hosts(p)[running[p] + 1]>> THEN info[p] ELSE linkInfo[l]]
  /\ UNCHANGED <<coordinatorVars, envVars, netVars, history, connVars, clientVars, pushed,
                 exclusive, stopped, info, needSend, sending, session>>

PushWorker(p) ==
  /\ pushed[p] < running[p]
  /\ pushed' = [pushed EXCEPT ![p] = @ + 1]
  /\ UNCHANGED <<coordinatorVars, envVars, netVars, history, connVars, infoVars, clientVars,
                 running, exclusive, stopped, session>>

\* SetToolServerInfo tells the workers that are in m_workers; one that Start has given the
\* info before and not put there yet is not told.
SetToolServerInfo(t) ==
  /\ info[t] < deployment.infos[t]
  /\ info' = [info EXCEPT ![t] = @ + 1]
  /\ LET told == {l \in {t} \X Coordinators : IsPushed(l)}
     IN /\ linkInfo' = [l \in DOMAIN linkInfo |-> IF l \in told THEN info[t] + 1 ELSE linkInfo[l]]
        /\ needSend' = needSend \cup told
        /\ missed' = {l \in missed : l[1] # t}
                     \cup {l \in {t} \X Coordinators : IsRunning(l) /\ l \notin told}
  /\ UNCHANGED <<coordinatorVars, envVars, netVars, workerVars, connVars, clientVars,
                 sending, session, overlapped, dangled, doubled, early>>

Queue(l, frame) ==
  /\ framesQueue' = [framesQueue EXCEPT ![l] = Append(@, frame)]
  /\ UNCHANGED <<sent, lists, handlers>>

\* Quant of a tool server's worker, once m_sendInfoInterval has passed: the flag is cleared
\* first, the info is read under m_toolServerInfoMutex later.
QuantClear(l) ==
  /\ l[1] \in ToolServers /\ ClientState(l) /\ l \in needSend /\ l \notin sending
  /\ needSend' = needSend \ {l} /\ sending' = sending \cup {l}
  /\ UNCHANGED <<coordinatorVars, envVars, netVars, history, workerVars, connVars, clientVars,
                 info, linkInfo, session>>

QuantSend(l) ==
  /\ l \in sending
  /\ sending' = sending \ {l}
  /\ Queue(l, [type |-> "status", ver |-> linkInfo[l]])
  /\ UNCHANGED <<coordinatorVars, envVars, history, workerVars, connVars, clientVars, info,
                 linkInfo, needSend, session>>

QuantRequest(l) ==
  /\ l[1] \in Clients /\ ClientState(l) /\ l \in needRequest
  /\ needRequest' = needRequest \ {l}
  /\ Queue(l, [type |-> "request"])
  /\ UNCHANGED <<coordinatorVars, envVars, history, workerVars, connVars, infoVars, reading,
                 coord, session>>

\* UpdateSessionInfo and FinishSession of RemoteToolClient run in different threads, and
\* nothing keeps an update from following the end.
NextSession(c, finished) ==
  CASE finished /\ session[c] \in {"none", "running"} -> "finished"
    [] ~finished /\ session[c] = "none"               -> "running"
    [] ~finished /\ session[c] = "finished"           -> "late"
    [] OTHER                                          -> session[c]

\* SendToolServerSessionInfo; the frame is not queued where there is no connection.
SendSession(c, finished) ==
  /\ c \in deployment.sessions
  /\ NextSession(c, finished) # session[c]
  /\ session' = [session EXCEPT ![c] = NextSession(c, finished)]
  /\ framesQueue' = [l \in Links |->
       IF l[1] = c /\ IsPushed(l) /\ ClientState(l)
       THEN Append(framesQueue[l], [type |-> "session", finished |-> finished])
       ELSE framesQueue[l]]
  /\ UNCHANGED <<coordinatorVars, envVars, history, workerVars, connVars, infoVars, clientVars,
                 sent, lists, handlers>>

(***************************************************************************)
(* The connections.  A handler of the service is created with the list     *)
(* already queued (the init callback); the two ends notice a loss          *)
(* independently, and what was written before may still be read.           *)
(***************************************************************************)
InfosOf(k) ==
  [t \in {e.ts : e \in ToSet(toolServers[k])} |->
     (CHOOSE e \in ToSet(toolServers[k]) : e.ts = t).ver]

Connect(l) ==
  LET n == connects[l] + 1
      h == <<l[1], l[2], n>>
  IN /\ IsRunning(l) /\ l \notin stopped /\ l[2] \in up
     /\ conn[l] = 0 /\ n <= deployment.connects[l[1]]
     /\ connects' = [connects EXCEPT ![l] = n]
     /\ conn' = [conn EXCEPT ![l] = n]
     /\ handlers' = [handlers EXCEPT ![h] = "open"]
     /\ lists' = IF l[1] \in Clients
                 THEN [lists EXCEPT ![h] = <<InfosOf(l[2])>>] ELSE lists
     /\ doubled' = IF \E m \in 1 .. n - 1 : handlers[<<l[1], l[2], m>>] # "erased"
                   THEN doubled \cup {h} ELSE doubled
     /\ UNCHANGED <<coordinatorVars, envVars, workerVars, infoVars, clientVars, session,
                    framesQueue, sent, overlapped, dangled, early, missed>>

\* WriteFrames of the client's handler.
Write(l) ==
  /\ ClientState(l) /\ framesQueue[l] # << >>
  /\ framesQueue' = [framesQueue EXCEPT ![l] = << >>]
  /\ sent' = IF handlers[Current(l)] = "open"
             THEN [sent EXCEPT ![Current(l)] = @ \o framesQueue[l]] ELSE sent
  /\ UNCHANGED <<processVars, coordinatorVars, envVars, history, lists, handlers>>

\* One end fails; when the other has not, this is a failure of the network.
Fails(ofItself) ==
  /\ ofItself => losses < deployment.losses
  /\ losses' = IF ofItself THEN losses + 1 ELSE losses
  /\ UNCHANGED <<up, crashes>>

\* Mutant: only the list is asked for again.
LoseConnectionSilently(l) ==
  /\ ClientState(l)
  /\ Fails(handlers[Current(l)] = "open")
  /\ conn' = [conn EXCEPT ![l] = 0]
  /\ lists' = [lists EXCEPT ![Current(l)] = << >>]
  /\ needRequest' = needRequest \cup {l}
  /\ UNCHANGED <<coordinatorVars, history, workerVars, infoVars, deployment, connects, reading,
                 coord, session, framesQueue, sent, handlers>>

\* The client's end fails: the channel notifier.
LoseConnection(l) ==
  /\ ClientState(l)
  /\ Fails(handlers[Current(l)] = "open")
  /\ conn' = [conn EXCEPT ![l] = 0]
  /\ lists' = [lists EXCEPT ![Current(l)] = << >>]
  /\ needRequest' = needRequest \cup {l}
  /\ needSend' = needSend \cup {l}
  /\ UNCHANGED <<coordinatorVars, history, workerVars, deployment, connects, info, linkInfo,
                 sending, reading, coord, session, framesQueue, sent, handlers>>

\* The coordinator's end fails, in the thread of the handler.
Break(h) ==
  /\ handlers[h] = "open" /\ reader[h] = Idle
  /\ Fails(conn[LinkOf(h)] = h[3])
  /\ handlers' = [handlers EXCEPT ![h] = "broken"]
  /\ sent' = [sent EXCEPT ![h] = << >>]
  /\ UNCHANGED <<processVars, coordinatorVars, history, deployment, framesQueue, lists>>

(***************************************************************************)
(* The coordinator: CoordinatorServer.                                     *)
(***************************************************************************)
At(h, state) == reader' = [reader EXCEPT ![h] = state]

NextFrame(h, type) ==
  /\ handlers[h] = "open" /\ reader[h] = Idle
  /\ sent[h] # << >> /\ Head(sent[h]).type = type
  /\ sent' = [sent EXCEPT ![h] = Tail(@)]

\* Somebody holds a list it has copied and not queued.
Crossing(k, h) ==
  \E g \in Connections : g # h /\ g[2] = k /\ reader[g].at \in {"copied", "replying"}

Slots(k, t) == {i \in DOMAIN toolServers[k] : toolServers[k][i].ts = t}

\* The status reader, under m_infoMutex: CoordinatorInfo::Update.  A changed entry is
\* assigned as a whole, which resets its m_opaqueFrameHandler.
ReadStatus(h) ==
  LET k == h[2]
      t == h[1]
      ver == Head(sent[h]).ver
      entry == [ts |-> t, ver |-> ver, handler |-> None]
      found == Slots(k, t)
  IN /\ NextFrame(h, "status")
     /\ \/ \E i \in found : toolServers[k][i].ver = ver /\ UNCHANGED <<serverVars, overlapped>>
        \/ \E i \in found :
             /\ toolServers[k][i].ver # ver
             /\ toolServers' = [toolServers EXCEPT ![k][i] = entry]
             /\ At(h, [at |-> "updated", slot |-> i])
             /\ overlapped' = IF Crossing(k, h) THEN overlapped \cup {k} ELSE overlapped
        \/ /\ found = {}
           /\ toolServers' = [toolServers EXCEPT ![k] = Append(@, entry)]
           /\ At(h, [at |-> "updated", slot |-> Len(toolServers[k]) + 1])
           /\ overlapped' = IF Crossing(k, h) THEN overlapped \cup {k} ELSE overlapped
     /\ UNCHANGED <<processVars, envVars, listedSessions, framesQueue, lists, handlers, dangled,
                    doubled, early, missed>>

\* modified[0]->m_opaqueFrameHandler = handler, without the lock.
MarkHandler(h) ==
  /\ reader[h].at = "updated"
  /\ toolServers' = [toolServers EXCEPT ![h[2]][reader[h].slot].handler = h]
  /\ At(h, [at |-> "marked"])
  /\ UNCHANGED <<processVars, envVars, netVars, history, listedSessions>>

\* The same through a pointer an erasure has invalidated: undefined behaviour; the write
\* reaches nothing, or some entry.
MarkDangling(h) ==
  LET k == h[2]
  IN /\ reader[h].at = "dangling"
     /\ \/ UNCHANGED toolServers
        \/ \E i \in DOMAIN toolServers[k] :
             toolServers' = [toolServers EXCEPT ![k][i].handler = h]
     /\ At(h, [at |-> "marked"])
     /\ dangled' = dangled \cup {k}
     /\ UNCHANGED <<processVars, envVars, netVars, listedSessions, overlapped, doubled, early,
                    missed>>

\* GetResponse.
CopyList(h) ==
  /\ reader[h].at = "marked"
  /\ At(h, [at |-> "copied", list |-> InfosOf(h[2])])
  /\ UNCHANGED <<processVars, envVars, netVars, history, listedSessions, toolServers>>

\* QueueFrameToAll, under m_workersLock.
QueueFrameToAll(h) ==
  /\ reader[h].at = "copied"
  /\ At(h, Idle)
  /\ lists' = [g \in Connections |->
       IF g # h /\ g[2] = h[2] /\ g[1] \in Clients /\ handlers[g] = "open"
       THEN Append(lists[g], reader[h].list) ELSE lists[g]]
  /\ UNCHANGED <<processVars, envVars, history, listedSessions, framesQueue, sent, handlers,
                 toolServers>>

ReadRequest(h) ==
  /\ NextFrame(h, "request")
  /\ At(h, [at |-> "replying", list |-> InfosOf(h[2])])
  /\ UNCHANGED <<processVars, envVars, history, listedSessions, framesQueue, lists, handlers,
                 toolServers>>

Reply(h) ==
  /\ reader[h].at = "replying"
  /\ At(h, Idle)
  /\ lists' = [lists EXCEPT ![h] = Append(@, reader[h].list)]
  /\ UNCHANGED <<processVars, envVars, history, listedSessions, framesQueue, sent, handlers,
                 toolServers>>

\* The session reader, under m_infoMutex.
Latest(k, c) ==
  LET pushedBack == Append(latestSessions[k], c)
  IN IF Len(pushedBack) > LatestSessionsSize THEN Tail(pushedBack) ELSE pushedBack

\* Mutant: a finished session stays active.
ReadSessionKeeping(h) ==
  LET k == h[2]
      c == h[1]
  IN /\ NextFrame(h, "session")
     /\ IF Head(sent[h]).finished
        THEN /\ latestSessions' = [latestSessions EXCEPT ![k] = Latest(k, c)]
             /\ UNCHANGED activeSessions
        ELSE /\ activeSessions' = [activeSessions EXCEPT ![k] = @ \cup {c}]
             /\ UNCHANGED latestSessions
     /\ UNCHANGED <<processVars, envVars, history, serverVars, framesQueue, lists, handlers>>

ReadSession(h) ==
  LET k == h[2]
      c == h[1]
  IN /\ NextFrame(h, "session")
     /\ IF Head(sent[h]).finished
        THEN /\ latestSessions' = [latestSessions EXCEPT ![k] = Latest(k, c)]
             /\ activeSessions' = [activeSessions EXCEPT ![k] = @ \ {c}]
        ELSE /\ activeSessions' = [activeSessions EXCEPT ![k] = @ \cup {c}]
             /\ UNCHANGED latestSessions
     /\ UNCHANGED <<processVars, envVars, history, serverVars, framesQueue, lists, handlers>>

\* What an erasure at position i does to a pointer into the deque: an erasure at either end
\* leaves the pointers to the other entries valid, any other invalidates them all.
SlotAfterErase(k, i, state) ==
  IF state.at # "updated" THEN state
  ELSE IF i = state.slot \/ i \notin {1, Len(toolServers[k])} THEN [at |-> "dangling"]
  ELSE IF i = 1 THEN [state EXCEPT !.slot = @ - 1]
  ELSE state

\* Mutant: the entry stays, as the entry of a session does.
EraseWorkerKeeping(h) ==
  /\ handlers[h] = "broken"
  /\ handlers' = [handlers EXCEPT ![h] = "erased"]
  /\ UNCHANGED <<processVars, coordinatorVars, envVars, history, framesQueue, sent, lists>>

\* Quant of the service and the destroy callback, under m_workersLock and m_infoMutex: the
\* first entry marked with the handler is erased.  The sessions' m_opaqueFrameHandler is
\* never set, so no session is.
EraseWorker(h) ==
  LET k == h[2]
      marked == {i \in DOMAIN toolServers[k] : toolServers[k][i].handler = h}
      first == CHOOSE i \in marked : \A j \in marked : i <= j
  IN /\ handlers[h] = "broken"
     /\ handlers' = [handlers EXCEPT ![h] = "erased"]
     /\ IF marked = {}
        THEN UNCHANGED serverVars
        ELSE /\ toolServers' = [toolServers EXCEPT ![k] = RemoveAt(@, first)]
             /\ reader' = [g \in Connections |->
                  IF g[2] = k THEN SlotAfterErase(k, first, reader[g]) ELSE reader[g]]
     /\ UNCHANGED <<processVars, envVars, history, listedSessions, framesQueue, sent, lists>>

\* The coordinator's process ends; another one, with no memory of it, is started.
Crash(k) ==
  /\ k \in up /\ crashes < deployment.crashes
  /\ up' = up \ {k} /\ crashes' = crashes + 1
  /\ handlers' = [h \in Connections |->
       IF h[2] = k /\ handlers[h] # "none" THEN "erased" ELSE handlers[h]]
  /\ reader' = [h \in Connections |-> IF h[2] = k THEN Idle ELSE reader[h]]
  /\ sent' = [h \in Connections |-> IF h[2] = k THEN << >> ELSE sent[h]]
  /\ toolServers' = [toolServers EXCEPT ![k] = << >>]
  /\ activeSessions' = [activeSessions EXCEPT ![k] = {}]
  /\ latestSessions' = [latestSessions EXCEPT ![k] = << >>]
  /\ overlapped' = overlapped \ {k} /\ dangled' = dangled \ {k}
  /\ UNCHANGED <<processVars, deployment, framesQueue, lists, losses, doubled, early, missed>>

Restart(k) ==
  /\ k \notin up
  /\ up' = up \cup {k}
  /\ UNCHANGED <<processVars, coordinatorVars, netVars, history, deployment, losses, crashes>>

(***************************************************************************)
(* The tool client's list reader: m_coordMutex covers all but the start.   *)
(***************************************************************************)
ReadList(l) ==
  /\ ClientState(l) /\ reading[l] = None
  /\ lists[Current(l)] # << >>
  /\ reading' = [reading EXCEPT ![l] = Head(lists[Current(l)])]
  /\ lists' = [lists EXCEPT ![Current(l)] = Tail(@)]
  /\ UNCHANGED <<coordinatorVars, envVars, history, workerVars, connVars, infoVars, needRequest,
                 coord, session, framesQueue, sent, handlers>>

\* StopExtraClients, with Redundance::Any: the other workers in m_workers.
Extra(l) == {m \in {l[1]} \X Coordinators : m # l /\ IsPushed(m)}

\* Mutant: m_exclusiveModeSet is not looked at.
StopExtraClientsAlways(l) ==
  /\ exclusive' = exclusive \cup {l[1]}
  /\ stopped' = stopped \cup Extra(l)
  /\ conn' = [m \in Links |-> IF m \in Extra(l) THEN 0 ELSE conn[m]]
  /\ early' = IF pushed[l[1]] < Len(Hosts(l[1])) THEN early \cup {l[1]} ELSE early

StopExtraClients(l) ==
  IF l[1] \in exclusive
  THEN UNCHANGED <<exclusive, stopped, conn, early>>
  ELSE /\ exclusive' = exclusive \cup {l[1]}
       /\ stopped' = stopped \cup Extra(l)
       /\ conn' = [m \in Links |-> IF m \in Extra(l) THEN 0 ELSE conn[m]]
       /\ early' = IF pushed[l[1]] < Len(Hosts(l[1])) THEN early \cup {l[1]} ELSE early

\* Mutant: an info that is known is not replaced.
UpdatedOnlyNew(known, list) ==
  [t \in DOMAIN known |-> IF t \in DOMAIN list /\ known[t] = 0 THEN list[t] ELSE known[t]]

\* CoordinatorInfo::Update of m_coord: nothing is ever removed.
Updated(known, list) ==
  [t \in DOMAIN known |-> IF t \in DOMAIN list THEN list[t] ELSE known[t]]

ApplyList(l) ==
  /\ reading[l] # None
  /\ reading' = [reading EXCEPT ![l] = None]
  /\ StopExtraClients(l)
  /\ coord' = [coord EXCEPT ![l[1]] = Updated(@, reading[l])]
  /\ UNCHANGED <<coordinatorVars, envVars, netVars, infoVars, running, pushed, connects,
                 needRequest, session, overlapped, dangled, doubled, missed>>

-----------------------------------------------------------------------------
ProcessStep ==
  \/ \E p \in Processes : StartWorker(p) \/ PushWorker(p)
  \/ \E l \in Links : \/ QuantClear(l) \/ QuantSend(l) \/ QuantRequest(l)
                      \/ Connect(l) \/ Write(l) \/ ReadList(l) \/ ApplyList(l)

ServerStep(h) ==
  \/ ReadStatus(h) \/ MarkHandler(h) \/ MarkDangling(h) \/ CopyList(h) \/ QueueFrameToAll(h)
  \/ ReadRequest(h) \/ Reply(h) \/ ReadSession(h)
  \/ EraseWorker(h)

Environment ==
  \/ \E t \in ToolServers : SetToolServerInfo(t)
  \/ \E c \in Clients, finished \in BOOLEAN : SendSession(c, finished)
  \/ \E l \in Links : LoseConnection(l)
  \/ \E h \in Connections : Break(h)
  \/ \E k \in Coordinators : Crash(k) \/ Restart(k)

Next == ProcessStep \/ (\E h \in Connections : ServerStep(h)) \/ Environment

Spec == Init /\ [][Next]_vars

(***************************************************************************)
(* Safety.                                                                 *)
(***************************************************************************)
\* A tool server never stays in a list with nobody left to remove it: its entry is marked
\* with one of its own connections, not erased yet, or the thread of a connection that has
\* changed the entry is about to mark it.  (Unless a pointer was used that an erasure had
\* invalidated, which takes a third tool server.)
EntriesAreOwned ==
  \A k \in Coordinators \ dangled : \A i \in DOMAIN toolServers[k] :
    LET e == toolServers[k][i]
    IN IF e.handler = None
       THEN \E h \in Connections :
              /\ h[1] = e.ts /\ h[2] = k
              /\ reader[h] \in {[at |-> "updated", slot |-> i], [at |-> "dangling"]}
       ELSE e.handler[1] = e.ts /\ handlers[e.handler] \in {"open", "broken"}

\* The link's info is on no way to its coordinator any more.
Announced(l) ==
  /\ ClientState(l) /\ handlers[Current(l)] = "open"
  /\ l \notin needSend \cup sending
  /\ framesQueue[l] = << >> /\ sent[Current(l)] = << >>
  /\ reader[Current(l)] = Idle

IsListed(k, t, ver) == \E e \in ToSet(toolServers[k]) : e.ts = t /\ e.ver = ver

\* Once a connected tool server has nothing left to send, the coordinator lists its latest
\* info: no change is lost between the two flags, the queue and a reconnection, and no
\* erasure for another connection takes the entry away (the coordinator had erased the
\* earlier ones of this tool server before it connected).  A change is lost when it falls
\* between the start of a worker and its entry in m_workers (CoordinatorClient.cpp:60-62),
\* until there is another.
AnnouncedIsListed ==
  \A l \in ToolServers \X Coordinators :
    (/\ Announced(l) /\ Current(l) \notin doubled
     /\ l[2] \notin dangled /\ l \notin missed)
      => IsListed(l[2], l[1], info[l[1]])

\* The client has read what its coordinator queued, and the coordinator queues no more.
Settled(l) ==
  /\ ClientState(l) /\ handlers[Current(l)] = "open"
  /\ lists[Current(l)] = << >> /\ reading[l] = None
  /\ \A h \in Connections : h[2] = l[2] => reader[h] = Idle

\* A client that has read what was queued for it knows every listed tool server: none is
\* announced between the list it connected with and the broadcasts.  And unless a change
\* came while another thread held a copy of the list it had not queued yet, the list a
\* client has is the coordinator's: no order of updates, broadcasts, requests and
\* connections leaves a client with an older info.
ClientsAreFresh ==
  \A l \in Clients \X Coordinators :
    Settled(l) => \A e \in ToSet(toolServers[l[2]]) :
      /\ coord[l[1]][e.ts] # 0
      /\ (Len(Hosts(l[1])) = 1 /\ l[2] \notin overlapped) => coord[l[1]][e.ts] = e.ver

\* A client that has chosen a coordinator keeps its worker, even when the lists of two
\* coordinators arrive together; and it keeps no other, unless the choice was made before
\* Start had put all workers into m_workers.
ExactlyOneChosen ==
  \A c \in exclusive :
    LET left == {l \in {c} \X Coordinators : IsRunning(l) /\ l \notin stopped}
    IN left # {} /\ (c \notin early => Cardinality(left) = 1)

\* A session that ended in order is not shown as active, and is remembered once.
FinishedIsNotActive ==
  \A c \in Clients, k \in Coordinators :
    (session[c] # "late" /\ connects[<<c, k>>] = 1 /\ c \in ToSet(latestSessions[k])) =>
      /\ c \notin activeSessions[k]
      /\ Cardinality({i \in DOMAIN latestSessions[k] : latestSessions[k][i] = c}) = 1
=============================================================================
