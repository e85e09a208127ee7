-------------------------- MODULE RemoteToolServer --------------------------
(***************************************************************************)
(* The tool server (RemoteToolServer.cpp) with its SocketFrameService and  *)
(* its LocalExecutor (LocalExecutor.cpp): requests read by the workers'    *)
(* threads become executor tasks, whose callbacks, run by the executor's   *)
(* thread, queue the replies; the service's thread erases the workers of   *)
(* lost connections.  The server counts, per client session and in total,  *)
(* the tasks it runs, and announces these counts through the coordinator;  *)
(* the clients' balancers take them as the load by others.                 *)
(***************************************************************************)
EXTENDS SocketFrameService, Integers, FiniteSets

CONSTANTS
  Tasks,         (* the requests clients send; a retry is a request of its own *)
  Sessions,      (* the clients' session ids                                   *)
  SessionOf,     (* the session of the client that makes a connection          *)
  ThreadCount,   (* m_maxSubProcesses                                          *)
  None           (* no task; for m_sessionsIds, the session id 0               *)

ASSUME ServerAssumption ==
  /\ SessionOf \in [Connections -> Sessions]
  /\ ThreadCount \in Nat \ {0}
  /\ None \notin Tasks \cup Sessions \cup Connections

VARIABLES
  reading,          (* where each worker's thread is with a request            *)
  sessionsIds,      (* m_sessionsIds                                           *)
  connectedClients, (* m_info.m_connectedClients: m_usedThreads per session    *)
  runningTasks,     (* m_runningTasks                                          *)
  origin,           (* the connection a task came from                         *)
  taskQueue,        (* the executor's m_taskQueue                              *)
  running,          (* the tasks of the subprocesses in running_               *)
  ended,            (* the tasks of those in finished_, in order               *)
  executor,         (* where the executor's thread is, and its task            *)
  finished,         (* history: the tasks whose callback was called            *)
  unwritten,        (* history: the tasks whose input file was not written     *)
  replies           (* the replies queued to each worker                       *)

infoVars     == <<sessionsIds, connectedClients, runningTasks>>
executorVars == <<taskQueue, running, ended, executor, finished, unwritten>>
vars == <<serviceVars, infoVars, executorVars, reading, origin, replies>>

U16 == 65536

NotReading == [pc |-> "idle", task |-> None]
Filling == [pc |-> "filling", task |-> None]

TypeOK ==
  /\ ServiceTypeOK
  /\ reading \in [Connections ->
       {NotReading} \cup [pc : {"registered", "counted"}, task : Tasks]]
  /\ sessionsIds \in [Connections -> Sessions \cup {None}]
  /\ DOMAIN connectedClients \subseteq Sessions
  /\ \A s \in DOMAIN connectedClients : connectedClients[s] \in 0 .. U16 - 1
  /\ runningTasks \in 0 .. U16 - 1
  /\ origin \in [Tasks -> Connections \cup {None}]
  /\ taskQueue \in Seq(Tasks)
  /\ running \in SUBSET Tasks /\ Cardinality(running) <= ThreadCount
  /\ ended \in Seq(Tasks)
  /\ \/ executor.pc \in {"filling", "waiting"} /\ executor.task = None
     \/ executor.pc \in {"finishing", "replying", "alive"} /\ executor.task \in Tasks
  /\ finished \in SUBSET Tasks
  /\ unwritten \in SUBSET Tasks
  /\ replies \in [Connections -> SUBSET Tasks]

Init ==
  /\ ServiceInit
  /\ reading = [c \in Connections |-> NotReading]
  /\ sessionsIds = [c \in Connections |-> None]
  /\ connectedClients = [s \in {} |-> 0]
  /\ runningTasks = 0
  /\ origin = [t \in Tasks |-> None]
  /\ taskQueue = << >>
  /\ running = {} /\ ended = << >>
  /\ executor = Filling
  /\ finished = {} /\ unwritten = {}
  /\ replies = [c \in Connections |-> {}]

(***************************************************************************)
(* The counts.  UpdateInfo: without clients nothing is taken to run.       *)
(***************************************************************************)
UsedBy(s) == IF s \in DOMAIN connectedClients THEN connectedClients[s] ELSE 0

\* connectedClients with one entry set, and with one entry removed.
WithClient(s, used) ==
  [x \in DOMAIN connectedClients \cup {s} |-> IF x = s THEN used ELSE connectedClients[x]]
WithoutClient(s) == [x \in DOMAIN connectedClients \ {s} |-> connectedClients[x]]

\* Mutant: the total is kept when the last client leaves.
UpdateInfoKeeping(clients, tasks) ==
  connectedClients' = clients /\ runningTasks' = tasks

UpdateInfo(clients, tasks) ==
  /\ connectedClients' = clients
  /\ runningTasks' = IF DOMAIN clients = {} THEN 0 ELSE tasks

StartTask(s) ==
  UpdateInfo(WithClient(s, (UsedBy(s) + 1) % U16), (runningTasks + 1) % U16)

\* Mutant: a finished task is taken off the total only.
FinishTaskTotalOnly(s) ==
  UpdateInfo(connectedClients, IF runningTasks > 0 THEN runningTasks - 1 ELSE 0)

\* FinishTask(sessionId, false): an entry that was not there is not created; one that
\* is may belong to a later connection of the session, and wrap below zero.
FinishTask(s) ==
  UpdateInfo(IF s \in DOMAIN connectedClients
             THEN WithClient(s, (UsedBy(s) + U16 - 1) % U16)
             ELSE connectedClients,
             IF runningTasks > 0 THEN runningTasks - 1 ELSE 0)

\* FinishTask(sessionId, true).
RemoveSession(s) == UpdateInfo(WithoutClient(s), runningTasks)

(***************************************************************************)
(* The workers' threads: the reader of RemoteToolRequest.                  *)
(***************************************************************************)
Reading(c, pc, t) == reading' = [reading EXCEPT ![c] = [pc |-> pc, task |-> t]]

\* Mutant: the session is not noted.
ReadRequestUnnoted(c, t) ==
  /\ workers[c] = "connected"
  /\ reading[c] = NotReading
  /\ origin[t] = None
  /\ origin' = [origin EXCEPT ![t] = c]
  /\ Reading(c, "registered", t)
  /\ UNCHANGED <<serviceVars, executorVars, infoVars, replies>>

\* The request is read, and its session noted for the worker.
ReadRequest(c, t) ==
  /\ workers[c] = "connected"
  /\ reading[c] = NotReading
  /\ origin[t] = None
  /\ origin' = [origin EXCEPT ![t] = c]
  /\ sessionsIds' = [sessionsIds EXCEPT ![c] = SessionOf[c]]
  /\ Reading(c, "registered", t)
  /\ UNCHANGED <<serviceVars, executorVars, connectedClients, runningTasks, replies>>

\* The connection may be lost from here on: the thread is still in the reader.
CountRequest(c) ==
  /\ reading[c].pc = "registered"
  /\ StartTask(SessionOf[c])
  /\ Reading(c, "counted", reading[c].task)
  /\ UNCHANGED <<serviceVars, executorVars, sessionsIds, origin, replies>>

AddTask(c) ==
  /\ reading[c].pc = "counted"
  /\ taskQueue' = Append(taskQueue, reading[c].task)
  /\ reading' = [reading EXCEPT ![c] = NotReading]
  /\ UNCHANGED <<serviceVars, infoVars, running, ended, executor, finished, unwritten,
                 origin, replies>>

(***************************************************************************)
(* The service's thread.                                                   *)
(***************************************************************************)
Accepting ==
  /\ AddWorker \/ \E c \in Connections :
                    \/ Arrive(c) \/ DoAccept(c) \/ AcceptFails(c) \/ Break(c)
  /\ UNCHANGED <<infoVars, executorVars, reading, origin, replies>>

\* Mutant: the callback is called before the worker's thread is joined.
DestroyWorkerUnjoined(c) ==
  /\ EraseWorker(c)
  /\ RemoveSession(sessionsIds[c])
  /\ sessionsIds' = [sessionsIds EXCEPT ![c] = None]
  /\ UNCHANGED <<executorVars, reading, origin, replies>>

\* Stop joins the worker's thread, then the destroy callback removes the session.
DestroyWorker(c) ==
  /\ reading[c] = NotReading
  /\ EraseWorker(c)
  /\ RemoveSession(sessionsIds[c])
  /\ sessionsIds' = [sessionsIds EXCEPT ![c] = None]
  /\ UNCHANGED <<executorVars, reading, origin, replies>>

(***************************************************************************)
(* The executor's thread: LocalExecutor::Quant.                            *)
(***************************************************************************)
Execute(pc, t) == executor' = [pc |-> pc, task |-> t]

\* Only running_ is bounded: what has ended and was not taken yet is not counted.
CanLaunch ==
  /\ executor.pc = "filling"
  /\ taskQueue # << >>
  /\ Cardinality(running) < ThreadCount

\* The first task gets a subprocess, which on Windows has ended at once when the program
\* is not found; or fails early and has its callback called; or is dropped because its
\* input file could not be written.
Launch ==
  /\ CanLaunch
  /\ taskQueue' = Tail(taskQueue)
  /\ \/ /\ running' = running \cup {Head(taskQueue)}
        /\ UNCHANGED <<ended, executor, unwritten>>
     \/ /\ ended' = Append(ended, Head(taskQueue))
        /\ UNCHANGED <<running, executor, unwritten>>
     \/ /\ Execute("finishing", Head(taskQueue))
        /\ UNCHANGED <<running, ended, unwritten>>
     \/ /\ unwritten' = unwritten \cup {Head(taskQueue)}
        /\ UNCHANGED <<running, ended, executor>>
  /\ UNCHANGED <<serviceVars, infoVars, finished, reading, origin, replies>>

\* Nothing more can be launched and running_ is not empty: finished_ is not asked for.
MustWait == executor.pc = "filling" /\ ~CanLaunch /\ running # {}

\* Mutant: the thread waits for a subprocess although none runs.
WaitForever ==
  /\ executor.pc = "filling" /\ ~CanLaunch
  /\ ended = << >>
  /\ Execute("waiting", None)
  /\ UNCHANGED <<serviceVars, infoVars, taskQueue, running, ended, finished, unwritten,
                 reading, origin, replies>>

\* DoWork is called, and polls the subprocesses until one has ended; meanwhile the thread
\* takes no task from the queue.
Wait ==
  /\ MustWait
  /\ ended = << >>
  /\ Execute("waiting", None)
  /\ UNCHANGED <<serviceVars, infoVars, taskQueue, running, ended, finished, unwritten,
                 reading, origin, replies>>

\* A subprocess passes to finished_; one poll may find that several have ended.
ProcessEnds(t) ==
  /\ executor.pc = "waiting"
  /\ t \in running
  /\ running' = running \ {t}
  /\ ended' = Append(ended, t)
  /\ UNCHANGED <<serviceVars, infoVars, taskQueue, executor, finished, unwritten,
                 reading, origin, replies>>

\* One of those that ended is taken; the others stay until the thread has to wait again.
NextFinished ==
  /\ MustWait \/ executor.pc = "waiting"
  /\ ended # << >>
  /\ ended' = Tail(ended)
  /\ Execute("finishing", Head(ended))
  /\ UNCHANGED <<serviceVars, infoVars, taskQueue, running, finished, unwritten,
                 reading, origin, replies>>

\* The task's callback, in three steps: FinishTask under its lock, the test of
\* m_isAlive, and QueueFrame on the worker.
CallbackFinish ==
  /\ executor.pc = "finishing"
  /\ FinishTask(SessionOf[origin[executor.task]])
  /\ finished' = finished \cup {executor.task}
  /\ Execute("replying", executor.task)
  /\ UNCHANGED <<serviceVars, sessionsIds, taskQueue, running, ended, unwritten,
                 reading, origin, replies>>

CallbackCheck ==
  /\ executor.pc = "replying"
  /\ IF workers[origin[executor.task]] = "erased"
     THEN executor' = Filling
     ELSE Execute("alive", executor.task)
  /\ UNCHANGED <<serviceVars, infoVars, taskQueue, running, ended, finished, unwritten,
                 reading, origin, replies>>

CallbackReply ==
  /\ executor.pc = "alive"
  /\ replies' = [replies EXCEPT ![origin[executor.task]] = @ \cup {executor.task}]
  /\ executor' = Filling
  /\ UNCHANGED <<serviceVars, infoVars, taskQueue, running, ended, finished, unwritten,
                 reading, origin>>

Callback == CallbackFinish \/ CallbackCheck \/ CallbackReply

Next ==
  \/ Accepting
  \/ \E c \in Connections : (\E t \in Tasks : ReadRequest(c, t)) \/ CountRequest(c)
                            \/ AddTask(c) \/ DestroyWorker(c)
  \/ Launch \/ Wait \/ NextFinished \/ Callback
  \/ \E t \in running : ProcessEnds(t)

Spec == Init /\ [][Next]_vars

(***************************************************************************)
(* Safety.                                                                 *)
(***************************************************************************)
Read == {t \in Tasks : origin[t] # None}
Counted == {t \in Read : reading[origin[t]] # [pc |-> "registered", task |-> t]}
Unfinished(s) == {t \in Counted \ finished : SessionOf[origin[t]] = s}

\* A session is announced as a client only while one of its connections has a worker:
\* the worker's thread is joined before its session is removed, so no request can
\* bring the entry back and leave it behind, a client that never goes away.
EveryClientHasWorker ==
  \A s \in DOMAIN connectedClients : \E c \in Connections :
    sessionsIds[c] = s /\ workers[c] \in {"connected", "broken"}

\* Until a connection of the session was erased, m_usedThreads is the number of its
\* tasks that were counted and not called back.  After that, tasks of the lost connection
\* are taken off the count of the new one, which then wraps to 65535.
UsedThreadsExact ==
  \A s \in Sessions :
    (\A c \in Connections : SessionOf[c] = s => workers[c] # "erased")
      => UsedBy(s) = Cardinality(Unfinished(s))

\* The announced total never exceeds the tasks that were counted and not called back,
\* among them those dropped with an unwritten input, although it is set to 0 whenever the
\* last client leaves and their tasks run on.
RunningNotOverstated ==
  /\ runningTasks <= Cardinality(Counted \ finished)
  /\ DOMAIN connectedClients = {} => runningTasks = 0

\* A worker that reads a request has noted its session, and is not erased before it is
\* done: its thread is joined first.
WorkerHasSession ==
  \A c \in Connections :
    /\ sessionsIds[c] \in {None, SessionOf[c]}
    /\ reading[c] # NotReading =>
         workers[c] \in {"connected", "broken"} /\ sessionsIds[c] = SessionOf[c]

\* The tasks with a subprocess: those m_subprocToTask has.
Ended == {ended[k] : k \in DOMAIN ended}
subprocesses == running \cup Ended

\* DoWork never polls an empty running_, before anything has ended.
PollsSome == executor.pc = "waiting" => running # {} \/ ended # << >>

\* The task a worker reads is its own, and the executor has not seen it.
AtExecutor ==
  {taskQueue[k] : k \in DOMAIN taskQueue} \cup subprocesses \cup finished
    \cup {t \in Tasks : executor.task = t}
ReaderHoldsTask ==
  /\ AtExecutor \subseteq Read
  /\ \A c \in Connections : reading[c] # NotReading =>
       origin[reading[c].task] = c /\ reading[c].task \notin AtExecutor

\* The inductive invariant behind TypeOK, EveryClientHasWorker and RunningNotOverstated.
Inv ==
  /\ TypeOK
  /\ IsFiniteSet(running) /\ IsFiniteSet(Read)
  /\ PollsSome
  /\ OneAccepting
  /\ WorkerHasSession
  /\ ReaderHoldsTask
  /\ EveryClientHasWorker
  /\ RunningNotOverstated

(***************************************************************************)
(* Liveness: the three kinds of threads run, and every subprocess ends.    *)
(***************************************************************************)
ExecutorFairness ==
  /\ \A c \in Connections : WF_vars(CountRequest(c)) /\ WF_vars(AddTask(c))
  /\ WF_vars(Launch \/ Wait \/ NextFinished \/ Callback)
  /\ \A t \in Tasks : SF_vars(t \in running /\ ProcessEnds(t))

ServiceFairness ==
  /\ WF_vars(Accepting /\ AddWorker)
  /\ \A c \in Connections :
       /\ WF_vars(Accepting /\ (DoAccept(c) \/ AcceptFails(c)))
       /\ WF_vars(DestroyWorker(c))

FairSpec == Spec /\ ExecutorFairness /\ ServiceFairness

\* What the executor keeps of LocalExecutorTask.h:47, "Called when process finished or on
\* fail.": a written task is called back, or its subprocess has ended and was left in
\* finished_ by a thread that has nothing running and nothing queued (LocalExecutor.cpp:182);
\* and once any subprocess runs again, those left behind are called back.  The thread never
\* waits for a subprocess while none runs, and the queue is served although it takes
\* nothing from it meanwhile.
Asleep == executor = Filling /\ taskQueue = << >> /\ running = {}
CalledBackOrLeftBehind ==
  \A t \in Tasks :
    /\ t \in Read ~> t \in finished \cup unwritten \/ (t \in Ended /\ Asleep)
    /\ t \in Ended /\ running # {} ~> t \in finished

\* Every connection in the backlog gets its turn until the white list turns one away;
\* from then on none is taken any more, those of the hosts that TcpConnectionParams.h:66
\* says "are allowed to connect" neither.  Without a white list, every one gets its turn.
EveryConnectionTaken ==
  \A c \in Connections : InBacklog(c) ~> ~InBacklog(c) \/ (refused # {} /\ whiteList # {})
=============================================================================
