----------------------- MODULE RemoteToolServerProofs -----------------------
(***************************************************************************)
(* Proofs about RemoteToolServer, for any connections, sessions, requests  *)
(* and number of subprocesses: its types, that only one worker accepts at  *)
(* a time, that every announced client has a worker, that the announced    *)
(* number of running tasks is never too high, and that the used threads of *)
(* a session are the tasks it waits for.                                   *)
(***************************************************************************)
EXTENDS RemoteToolServer, FiniteSetTheorems, SequenceTheorems, TLAPS

(***************************************************************************)
(* Arithmetic, by these facts only: the literal 65536 is of no use to the  *)
(* provers.                                                                *)
(***************************************************************************)
\* A uint16_t has some positive number of values.
LEMMA Widths == U16 \in Nat \ {0}
BY DEF U16

\* Reducing a number to 16 bits gives a uint16_t, and never a larger number.
LEMMA Reduced ==
  ASSUME NEW n \in Int
  PROVE  /\ n % U16 \in 0 .. U16 - 1
         /\ n \in 0 .. U16 - 1 => n % U16 = n
BY Widths

\* Counting one task more, in 16 bits, adds at most one.
LEMMA OneMore == ASSUME NEW n \in 0 .. U16 - 1 PROVE (n + 1) % U16 <= n + 1
<1>1. n + 1 \in Int /\ n \in Nat BY Widths
<1>2. (n + 1) % U16 \in 0 .. U16 - 1 BY <1>1, Reduced
<1>3. CASE n + 1 \in 0 .. U16 - 1 BY <1>1, <1>3, Reduced
<1>4. CASE n + 1 \notin 0 .. U16 - 1
  BY <1>1, <1>2, <1>4, Widths
<1> QED BY <1>3, <1>4

(***************************************************************************)
(* The counts: what StartTask and the two uses of FinishTask do to them.   *)
(***************************************************************************)
InfoTypeOK ==
  /\ DOMAIN connectedClients \subseteq Sessions
  /\ \A s \in DOMAIN connectedClients : connectedClients[s] \in 0 .. U16 - 1
  /\ runningTasks \in 0 .. U16 - 1

\* UpdateInfo sets the counts, the total to 0 without clients.
LEMMA UpdateInfoStep ==
  ASSUME NEW C, DOMAIN C \subseteq Sessions, \A s \in DOMAIN C : C[s] \in 0 .. U16 - 1,
         NEW n \in 0 .. U16 - 1, UpdateInfo(C, n)
  PROVE  /\ InfoTypeOK'
         /\ connectedClients' = C
         /\ runningTasks' <= n
         /\ DOMAIN connectedClients' = {} => runningTasks' = 0
BY Widths DEF UpdateInfo, InfoTypeOK

\* A started task makes its session a client and adds at most one to the total.
LEMMA StartTaskStep ==
  ASSUME InfoTypeOK, NEW s \in Sessions, StartTask(s)
  PROVE  /\ InfoTypeOK'
         /\ DOMAIN connectedClients' = DOMAIN connectedClients \cup {s}
         /\ runningTasks' <= runningTasks + 1
         /\ DOMAIN connectedClients' = {} => runningTasks' = 0
<1> DEFINE C == WithClient(s, (UsedBy(s) + 1) % U16)
           n == (runningTasks + 1) % U16
<1>1. UsedBy(s) \in Int /\ runningTasks \in Int
  BY Widths DEF UsedBy, InfoTypeOK
<1>2. n \in 0 .. U16 - 1 /\ (UsedBy(s) + 1) % U16 \in 0 .. U16 - 1
  BY <1>1, Reduced
<1>3. /\ DOMAIN C = DOMAIN connectedClients \cup {s}
      /\ \A x \in DOMAIN C : C[x] \in 0 .. U16 - 1
  BY <1>2 DEF WithClient, InfoTypeOK
<1>4. n <= runningTasks + 1 BY OneMore DEF InfoTypeOK
<1>5. DOMAIN C \subseteq Sessions BY <1>3 DEF InfoTypeOK
<1>6. UpdateInfo(C, n) BY DEF StartTask
<1> HIDE DEF C, n
<1>7. /\ InfoTypeOK' /\ connectedClients' = C /\ runningTasks' <= n
      /\ DOMAIN connectedClients' = {} => runningTasks' = 0
  BY <1>2, <1>3, <1>5, <1>6, UpdateInfoStep
<1>8. n \in Int /\ runningTasks' \in Int BY <1>2, <1>7, Widths DEF InfoTypeOK
<1> QED BY <1>1, <1>3, <1>4, <1>7, <1>8

\* A finished task changes no client's presence and takes one off a positive total.
LEMMA FinishTaskStep ==
  ASSUME InfoTypeOK, NEW s, FinishTask(s)
  PROVE  /\ InfoTypeOK'
         /\ DOMAIN connectedClients' = DOMAIN connectedClients
         /\ runningTasks' <= IF runningTasks > 0 THEN runningTasks - 1 ELSE 0
         /\ DOMAIN connectedClients' = {} => runningTasks' = 0
<1> DEFINE C == IF s \in DOMAIN connectedClients
                THEN WithClient(s, (UsedBy(s) + U16 - 1) % U16)
                ELSE connectedClients
           n == IF runningTasks > 0 THEN runningTasks - 1 ELSE 0
<1>1. UsedBy(s) + U16 - 1 \in Int
  BY Widths DEF UsedBy, InfoTypeOK
<1>2. (UsedBy(s) + U16 - 1) % U16 \in 0 .. U16 - 1
  BY <1>1, Reduced
<1>3. /\ DOMAIN C = DOMAIN connectedClients
      /\ \A x \in DOMAIN C : C[x] \in 0 .. U16 - 1
  BY <1>2 DEF WithClient, InfoTypeOK
<1>4. n \in 0 .. U16 - 1 BY Widths DEF InfoTypeOK
<1>5. DOMAIN C \subseteq Sessions BY <1>3 DEF InfoTypeOK
<1>6. UpdateInfo(C, n) BY DEF FinishTask
<1>7. n = IF runningTasks > 0 THEN runningTasks - 1 ELSE 0 OBVIOUS
<1> HIDE DEF C, n
<1>8. /\ InfoTypeOK' /\ connectedClients' = C /\ runningTasks' <= n
      /\ DOMAIN connectedClients' = {} => runningTasks' = 0
  BY <1>3, <1>4, <1>5, <1>6, UpdateInfoStep
<1> QED BY <1>3, <1>7, <1>8

\* A removed session is no client any more, and adds nothing to the total.
LEMMA RemoveSessionStep ==
  ASSUME InfoTypeOK, NEW s, RemoveSession(s)
  PROVE  /\ InfoTypeOK'
         /\ DOMAIN connectedClients' = DOMAIN connectedClients \ {s}
         /\ runningTasks' <= runningTasks
         /\ DOMAIN connectedClients' = {} => runningTasks' = 0
<1> DEFINE C == WithoutClient(s)
<1>1. /\ DOMAIN C = DOMAIN connectedClients \ {s}
      /\ \A x \in DOMAIN C : C[x] \in 0 .. U16 - 1
  BY DEF WithoutClient, InfoTypeOK
<1>2. DOMAIN C \subseteq Sessions /\ runningTasks \in 0 .. U16 - 1
  BY <1>1 DEF InfoTypeOK
<1>3. UpdateInfo(C, runningTasks) BY DEF RemoveSession
<1> HIDE DEF C
<1> QED BY <1>1, <1>2, <1>3, UpdateInfoStep

(***************************************************************************)
(* The service.                                                            *)
(***************************************************************************)
\* The worker that has to accept is for the first connection of the backlog; without
\* it, none of the others is about to be accepted.
LEMMA HeadTaken ==
  ASSUME ServiceTypeOK, OneAccepting, NEW c \in Connections, workers[c] = "pending",
         backlog' = Tail(backlog), NEW state \in {"connected", "broken"},
         SetWorker(c, state), waitingAccept' \in BOOLEAN, refused' \in SUBSET Connections,
         waitingAccept' => refused' # {}, UNCHANGED whiteList
  PROVE  ServiceTypeOK' /\ OneAccepting'
<1>1. /\ backlog \in Seq(Connections) /\ backlog # << >> /\ Head(backlog) = c
      /\ workers \in [Connections -> WorkerStates]
  BY DEF OneAccepting, ServiceTypeOK
<1>2. /\ Len(backlog) \in Nat \ {0} /\ DOMAIN backlog = 1 .. Len(backlog)
      /\ backlog[1] = c
  BY <1>1, EmptySeq, LenProperties
<1>3. /\ backlog' \in Seq(Connections)
      /\ DOMAIN backlog' = 1 .. Len(backlog) - 1
      /\ \A k \in 1 .. Len(backlog) - 1 : backlog'[k] = backlog[k + 1]
  BY <1>1, <1>2, HeadTailProperties, LenProperties
<1>4. /\ workers' \in [Connections -> WorkerStates]
      /\ workers'[c] = state
      /\ \A x \in Connections : x # c => workers'[x] = workers[x]
  BY <1>1 DEF SetWorker, WorkerStates
<1>5. \A x \in Connections : workers'[x] # "pending"
  BY <1>1, <1>4 DEF OneAccepting
<1>6. \A k \in DOMAIN backlog' :
        /\ k + 1 \in DOMAIN backlog /\ k + 1 # 1
        /\ backlog'[k] = backlog[k + 1]
        /\ backlog'[k] \in Connections /\ backlog'[k] # c
  BY <1>2, <1>3, <1>1, ElementOfSeq DEF OneAccepting
<1>7. \A j, k \in DOMAIN backlog' : backlog'[j] = backlog'[k] => j = k
  <2> SUFFICES ASSUME NEW j \in DOMAIN backlog', NEW k \in DOMAIN backlog',
                      backlog'[j] = backlog'[k]
               PROVE  j = k
    OBVIOUS
  <2>1. j + 1 = k + 1 BY <1>6 DEF OneAccepting
  <2> QED BY <2>1, <1>2, <1>3
<1>8. \A k \in DOMAIN backlog' : workers'[backlog'[k]] \in {"none", "pending"}
  BY <1>4, <1>6 DEF OneAccepting
<1> QED BY <1>3, <1>4, <1>5, <1>7, <1>8 DEF OneAccepting, ServiceTypeOK

\* A connection reaches the backlog.
LEMMA ArriveStep ==
  ASSUME ServiceTypeOK, OneAccepting, NEW c \in Connections, Arrive(c)
  PROVE  ServiceTypeOK' /\ OneAccepting'
<1>1. /\ backlog \in Seq(Connections) /\ backlog' = Append(backlog, c)
      /\ workers[c] = "none" /\ workers' = workers /\ waitingAccept' = waitingAccept
      /\ refused' = refused /\ whiteList' = whiteList
      /\ \A k \in DOMAIN backlog : backlog[k] # c
  BY DEF Arrive, ServiceTypeOK, InBacklog
<1>2. /\ Len(backlog) \in Nat
      /\ DOMAIN backlog = 1 .. Len(backlog)
      /\ backlog' \in Seq(Connections) /\ backlog' # << >>
      /\ DOMAIN backlog' = 1 .. Len(backlog) + 1
      /\ \A k \in 1 .. Len(backlog) : backlog'[k] = backlog[k]
      /\ backlog'[Len(backlog) + 1] = c
  BY <1>1, LenProperties, AppendProperties
<1>3. \A k \in DOMAIN backlog' : workers'[backlog'[k]] \in {"none", "pending"}
  BY <1>1, <1>2 DEF OneAccepting
<1>4. \A j, k \in DOMAIN backlog' : backlog'[j] = backlog'[k] => j = k
  BY <1>1, <1>2 DEF OneAccepting
<1> QED BY <1>1, <1>2, <1>3, <1>4 DEF OneAccepting, ServiceTypeOK

\* The service creates a worker for the head of the backlog when no other accepts.
LEMMA AddWorkerStep ==
  ASSUME ServiceTypeOK, OneAccepting, AddWorker
  PROVE  ServiceTypeOK' /\ OneAccepting'
<1> DEFINE c == Head(backlog)
<1>1. /\ backlog \in Seq(Connections) /\ backlog # << >> /\ c \in Connections
      /\ workers \in [Connections -> WorkerStates]
      /\ backlog' = backlog /\ waitingAccept' = TRUE /\ refused' = refused
      /\ whiteList' = whiteList
      /\ workers' = [workers EXCEPT ![c] = "pending"]
      /\ \A x \in Connections : workers[x] # "pending"
  BY HeadTailProperties DEF AddWorker, SetWorker, ServiceTypeOK, OneAccepting
<1>2. /\ DOMAIN backlog = 1 .. Len(backlog)
      /\ \A k \in DOMAIN backlog : backlog[k] \in Connections
  BY <1>1, LenProperties, ElementOfSeq
<1> HIDE DEF c
<1>3. /\ workers' \in [Connections -> WorkerStates]
      /\ \A x \in Connections : workers'[x] = IF x = c THEN "pending" ELSE workers[x]
  BY <1>1 DEF WorkerStates
<1>4. \A k \in DOMAIN backlog' : workers'[backlog'[k]] \in {"none", "pending"}
  BY <1>1, <1>2, <1>3 DEF OneAccepting
<1>5. \A x \in Connections : workers'[x] = "pending" => x = c
  BY <1>1, <1>3
<1>6. c = Head(backlog') BY <1>1 DEF c
<1>7. workers'[c] = "pending" BY <1>1, <1>3
<1> QED BY <1>1, <1>3, <1>4, <1>5, <1>6, <1>7 DEF OneAccepting, ServiceTypeOK

\* A worker that has accepted is lost, or erased: the backlog does not tell.
LEMMA LeaveStep ==
  ASSUME ServiceTypeOK, OneAccepting, NEW c \in Connections,
         workers[c] \in {"connected", "broken"}, NEW state \in {"broken", "erased"},
         SetWorker(c, state), UNCHANGED <<whiteList, backlog, waitingAccept, refused>>
  PROVE  ServiceTypeOK' /\ OneAccepting'
<1>1. /\ workers' \in [Connections -> WorkerStates]
      /\ \A x \in Connections : workers'[x] = IF x = c THEN state ELSE workers[x]
  BY DEF SetWorker, ServiceTypeOK, WorkerStates
<1>2. \A k \in DOMAIN backlog : backlog[k] \in Connections /\ backlog[k] # c
  <2>1. /\ DOMAIN backlog = 1 .. Len(backlog)
        /\ \A k \in DOMAIN backlog : backlog[k] \in Connections
    BY LenProperties, ElementOfSeq DEF ServiceTypeOK
  <2> QED BY <2>1 DEF OneAccepting
<1> QED BY <1>1, <1>2 DEF OneAccepting, ServiceTypeOK

\* A step of the service's or a worker's thread that makes or takes a connection leaves
\* the accepted ones alone, save that they may break.
LEMMA AcceptingStep ==
  ASSUME ServiceTypeOK, OneAccepting, Accepting
  PROVE  /\ ServiceTypeOK' /\ OneAccepting'
         /\ \A c \in Connections : workers[c] \in {"connected", "broken"}
              => workers'[c] \in {"connected", "broken"}
<1>1. CASE AddWorker
  <2>1. /\ backlog \in Seq(Connections) /\ backlog # << >>
        /\ workers \in [Connections -> WorkerStates]
        /\ workers' = [workers EXCEPT ![Head(backlog)] = "pending"]
    BY <1>1 DEF AddWorker, SetWorker, ServiceTypeOK
  <2>2. 1 \in DOMAIN backlog /\ Head(backlog) = backlog[1]
    BY <2>1, EmptySeq, LenProperties
  <2>3. workers[Head(backlog)] \in {"none", "pending"} BY <2>2 DEF OneAccepting
  <2> QED BY <1>1, <2>1, <2>3, AddWorkerStep
<1>2. ASSUME NEW c \in Connections, Arrive(c)
      PROVE  /\ ServiceTypeOK' /\ OneAccepting'
             /\ workers' = workers
  BY <1>2, ArriveStep DEF Arrive
<1>3. ASSUME NEW c \in Connections, DoAccept(c) \/ AcceptFails(c)
      PROVE  /\ ServiceTypeOK' /\ OneAccepting'
             /\ \A x \in Connections : workers[x] \in {"connected", "broken"}
                  => workers'[x] = workers[x]
  <2>1. PICK state \in {"connected", "broken"} :
          /\ workers[c] = "pending" /\ backlog' = Tail(backlog)
          /\ SetWorker(c, state) /\ waitingAccept' \in BOOLEAN
          /\ refused' \in SUBSET Connections /\ (waitingAccept' => refused' # {})
          /\ UNCHANGED whiteList
    BY <1>3 DEF DoAccept, AcceptFails, Refuse, ServiceTypeOK
  <2>2. ServiceTypeOK' /\ OneAccepting' BY <2>1, HeadTaken
  <2> QED BY <2>1, <2>2 DEF SetWorker, ServiceTypeOK
<1>4. ASSUME NEW c \in Connections, Break(c)
      PROVE  /\ ServiceTypeOK' /\ OneAccepting'
             /\ \A x \in Connections : workers'[x] = workers[x] \/ workers'[x] = "broken"
  <2>1. ServiceTypeOK' /\ OneAccepting' BY <1>4, LeaveStep DEF Break
  <2> QED BY <1>4, <2>1 DEF Break, SetWorker, ServiceTypeOK
<1> QED BY <1>1, <1>2, <1>3, <1>4 DEF Accepting

(***************************************************************************)
(* The parts of the invariant.                                             *)
(***************************************************************************)
ExecutorTypeOK ==
  /\ taskQueue \in Seq(Tasks)
  /\ running \in SUBSET Tasks /\ Cardinality(running) <= ThreadCount
  /\ ended \in Seq(Tasks)
  /\ \/ executor.pc \in {"filling", "waiting"} /\ executor.task = None
     \/ executor.pc \in {"finishing", "replying", "alive"} /\ executor.task \in Tasks
  /\ finished \in SUBSET Tasks
  /\ unwritten \in SUBSET Tasks
  /\ IsFiniteSet(running)
  /\ PollsSome

ReaderTypeOK ==
  /\ reading \in [Connections ->
       {NotReading} \cup [pc : {"registered", "counted"}, task : Tasks]]
  /\ sessionsIds \in [Connections -> Sessions \cup {None}]
  /\ origin \in [Tasks -> Connections \cup {None}]
  /\ replies \in [Connections -> SUBSET Tasks]
  /\ IsFiniteSet(Read)

\* The invariant, its types grouped by the component that changes them.
LEMMA InvParts ==
  Inv <=> /\ ServiceTypeOK /\ InfoTypeOK /\ ExecutorTypeOK /\ ReaderTypeOK
          /\ OneAccepting /\ WorkerHasSession /\ ReaderHoldsTask
          /\ EveryClientHasWorker /\ RunningNotOverstated
BY DEF Inv, TypeOK, InfoTypeOK, ExecutorTypeOK, ReaderTypeOK

\* The same, one step later.
LEMMA InvPartsNext ==
  Inv' <=> /\ ServiceTypeOK' /\ InfoTypeOK' /\ ExecutorTypeOK' /\ ReaderTypeOK'
           /\ OneAccepting' /\ WorkerHasSession' /\ ReaderHoldsTask'
           /\ EveryClientHasWorker' /\ RunningNotOverstated'
BY DEF Inv, TypeOK, InfoTypeOK, ExecutorTypeOK, ReaderTypeOK

\* The initial states satisfy the invariant.
LEMMA InitInv == Init => Inv
<1> SUFFICES ASSUME Init PROVE Inv
  OBVIOUS
<1>1. ServiceTypeOK
  BY EmptySeq DEF Init, ServiceInit, ServiceTypeOK, WorkerStates
<1>10. OneAccepting BY DEF Init, ServiceInit, OneAccepting
<1>2. InfoTypeOK BY Widths DEF Init, InfoTypeOK
<1>3. ExecutorTypeOK
  <2>1. IsFiniteSet({}) /\ Cardinality({}) = 0 BY FS_EmptySet
  <2>2. ThreadCount \in Nat BY ServerAssumption
  <2> QED BY <2>1, <2>2, EmptySeq DEF Init, ExecutorTypeOK, PollsSome, Filling
<1>4. Read = {} BY ServerAssumption DEF Init, Read
<1>5. ReaderTypeOK BY <1>4, FS_EmptySet DEF Init, ReaderTypeOK
<1>6. WorkerHasSession BY DEF Init, WorkerHasSession
<1>7. ReaderHoldsTask
  BY ServerAssumption DEF Init, ReaderHoldsTask, AtExecutor, subprocesses, Ended,
     Filling
<1>8. EveryClientHasWorker BY DEF Init, EveryClientHasWorker
<1>9. RunningNotOverstated
  <2>1. Counted \ finished = {} BY <1>4 DEF Counted
  <2>2. Cardinality(Counted \ finished) = 0 BY <2>1, FS_EmptySet
  <2> QED BY <2>2 DEF Init, RunningNotOverstated
<1> QED BY <1>1, <1>2, <1>3, <1>5, <1>6, <1>7, <1>8, <1>9, <1>10, InvParts

(***************************************************************************)
(* The executor: what it works on was handed to it before.                 *)
(***************************************************************************)
\* A step of the executor's thread that takes no task off the counts.
LEMMA ExecutorStep ==
  ASSUME Inv, UNCHANGED <<serviceVars, sessionsIds, reading, origin>>,
         AtExecutor' \subseteq AtExecutor, ExecutorTypeOK', InfoTypeOK',
         replies' \in [Connections -> SUBSET Tasks],
         DOMAIN connectedClients' = DOMAIN connectedClients, RunningNotOverstated'
  PROVE  Inv'
<1>1. ServiceTypeOK' /\ OneAccepting'
  BY InvParts DEF serviceVars, ServiceTypeOK, OneAccepting
<1>2. ReaderTypeOK' BY InvParts DEF ReaderTypeOK, Read
<1>3. WorkerHasSession' /\ EveryClientHasWorker'
  BY InvParts DEF serviceVars, WorkerHasSession, EveryClientHasWorker
<1>4. ReaderHoldsTask'
  <2>1. Read' = Read BY DEF Read
  <2> QED BY <2>1, InvParts DEF ReaderHoldsTask
<1> QED BY <1>1, <1>2, <1>3, <1>4, InvPartsNext

\* Such a step that leaves the counts alone as well.
LEMMA ExecutorOnlyStep ==
  ASSUME Inv, UNCHANGED <<serviceVars, infoVars, reading, origin, finished>>,
         AtExecutor' \subseteq AtExecutor, ExecutorTypeOK',
         replies' \in [Connections -> SUBSET Tasks]
  PROVE  Inv'
<1>1. RunningNotOverstated'
  <2>1. (Counted \ finished)' = Counted \ finished BY DEF Counted, Read
  <2> QED BY <2>1, InvParts DEF infoVars, RunningNotOverstated
<1>2. InfoTypeOK' BY InvParts DEF infoVars, InfoTypeOK
<1> QED BY <1>1, <1>2, ExecutorStep DEF infoVars

EndedOnce == \A j, k \in DOMAIN ended : ended[j] = ended[k] => j = k

\* A task that joins finished_ is its last.
LEMMA EndedAppend ==
  ASSUME ended \in Seq(Tasks), NEW t \in Tasks, ended' = Append(ended, t)
  PROVE  /\ ended' \in Seq(Tasks) /\ ended' # << >>
         /\ Ended' = Ended \cup {t}
         /\ EndedOnce /\ t \notin Ended => EndedOnce'
<1>1. /\ Len(ended) \in Nat /\ DOMAIN ended = 1 .. Len(ended)
      /\ ended' \in Seq(Tasks) /\ ended' # << >>
      /\ DOMAIN ended' = 1 .. Len(ended) + 1
      /\ \A k \in 1 .. Len(ended) : ended'[k] = ended[k]
      /\ ended'[Len(ended) + 1] = t
  BY LenProperties, AppendProperties
<1>2. \A k \in DOMAIN ended' :
        \/ k \in DOMAIN ended /\ ended'[k] = ended[k] /\ ended[k] \in Ended
        \/ k = Len(ended) + 1 /\ ended'[k] = t
  BY <1>1 DEF Ended
<1>3. Ended' = Ended \cup {t} BY <1>1 DEF Ended
<1>4. EndedOnce /\ t \notin Ended => EndedOnce' BY <1>2 DEF EndedOnce
<1> QED BY <1>1, <1>3, <1>4

\* The first of finished_ leaves it.
LEMMA EndedTail ==
  ASSUME ended \in Seq(Tasks), ended # << >>, ended' = Tail(ended)
  PROVE  /\ ended' \in Seq(Tasks)
         /\ Head(ended) \in Tasks /\ Head(ended) \in Ended
         /\ Ended' \subseteq Ended
         /\ EndedOnce => EndedOnce' /\ Head(ended) \notin Ended'
<1>1. /\ Len(ended) \in Nat \ {0} /\ DOMAIN ended = 1 .. Len(ended)
      /\ Head(ended) \in Tasks /\ Head(ended) = ended[1] /\ 1 \in DOMAIN ended
      /\ ended' \in Seq(Tasks)
      /\ \A k \in DOMAIN ended' :
           k \in Nat \ {0} /\ k + 1 \in DOMAIN ended /\ ended'[k] = ended[k + 1]
  BY EmptySeq, LenProperties, HeadTailProperties
<1>2. Head(ended) \in Ended /\ Ended' \subseteq Ended BY <1>1 DEF Ended
<1>3. ASSUME EndedOnce PROVE EndedOnce'
  <2> SUFFICES ASSUME NEW j \in DOMAIN ended', NEW k \in DOMAIN ended',
                      ended'[j] = ended'[k]
               PROVE  j = k
    BY DEF EndedOnce
  <2>1. j + 1 = k + 1 BY <1>1, <1>3 DEF EndedOnce
  <2> QED BY <1>1, <2>1
<1>4. ASSUME EndedOnce PROVE Head(ended) \notin Ended'
  <2> SUFFICES ASSUME NEW k \in DOMAIN ended', ended'[k] = ended[1] PROVE FALSE
    BY <1>1 DEF Ended
  <2>1. k + 1 = 1 BY <1>1, <1>4 DEF EndedOnce
  <2> QED BY <1>1, <2>1
<1> QED BY <1>1, <1>2, <1>3, <1>4

\* The first task of the queue gets a subprocess, fails or is dropped; the limit is tested.
LEMMA LaunchInv == ASSUME Inv, Launch PROVE Inv'
<1> DEFINE t == Head(taskQueue)
<1>1. /\ taskQueue \in Seq(Tasks) /\ taskQueue # << >> /\ taskQueue' = Tail(taskQueue)
      /\ executor.pc = "filling" /\ executor.task = None
      /\ Cardinality(running) < ThreadCount
  BY InvParts DEF Launch, CanLaunch, ExecutorTypeOK
<1>2. /\ t \in Tasks /\ t = taskQueue[1] /\ 1 \in DOMAIN taskQueue
      /\ taskQueue' \in Seq(Tasks)
      /\ \A k \in DOMAIN taskQueue' :
           k + 1 \in DOMAIN taskQueue /\ taskQueue'[k] = taskQueue[k + 1]
  BY <1>1, EmptySeq, LenProperties, HeadTailProperties
<1>3. /\ t \in AtExecutor
      /\ \A k \in DOMAIN taskQueue' : taskQueue'[k] \in AtExecutor
  BY <1>2 DEF AtExecutor
<1> HIDE DEF t
<1>4. IsFiniteSet(running \cup {t}) /\ Cardinality(running \cup {t}) <= ThreadCount
  <2>1. IsFiniteSet(running) /\ Cardinality(running) \in Nat
    BY InvParts, FS_CardinalityType DEF ExecutorTypeOK
  <2>2. /\ IsFiniteSet(running \cup {t})
        /\ Cardinality(running \cup {t}) \in {Cardinality(running), Cardinality(running) + 1}
    BY <2>1, FS_AddElement
  <2>3. ThreadCount \in Nat BY ServerAssumption
  <2> QED BY <1>1, <2>1, <2>2, <2>3
<1>5. /\ UNCHANGED <<serviceVars, infoVars, finished, reading, origin, replies>>
      /\ \/ running' = running \cup {t} /\ UNCHANGED <<ended, executor, unwritten>>
         \/ ended' = Append(ended, t) /\ UNCHANGED <<running, executor, unwritten>>
         \/ /\ executor' = [pc |-> "finishing", task |-> t]
            /\ UNCHANGED <<running, ended, unwritten>>
         \/ unwritten' = unwritten \cup {t} /\ UNCHANGED <<running, ended, executor>>
  BY DEF Launch, Execute, t
<1>6. ended' = Append(ended, t) => ended' \in Seq(Tasks) /\ Ended' = Ended \cup {t}
  BY <1>2, InvParts, EndedAppend DEF ExecutorTypeOK
<1>7. PollsSome' BY <1>1, <1>5 DEF PollsSome
<1>8. ExecutorTypeOK'
  <2>1. ExecutorTypeOK BY InvParts
  <2>2. CASE running' = running \cup {t} /\ UNCHANGED <<ended, executor, unwritten>>
    BY <1>2, <1>4, <1>5, <1>7, <2>1, <2>2 DEF ExecutorTypeOK
  <2>3. CASE ended' = Append(ended, t) /\ UNCHANGED <<running, executor, unwritten>>
    BY <1>2, <1>5, <1>6, <1>7, <2>1, <2>3 DEF ExecutorTypeOK
  <2>4. CASE /\ executor' = [pc |-> "finishing", task |-> t]
             /\ UNCHANGED <<running, ended, unwritten>>
    BY <1>2, <1>5, <1>7, <2>1, <2>4 DEF ExecutorTypeOK
  <2>5. CASE unwritten' = unwritten \cup {t} /\ UNCHANGED <<running, ended, executor>>
    BY <1>2, <1>5, <1>7, <2>1, <2>5 DEF ExecutorTypeOK
  <2> QED BY <1>5, <2>2, <2>3, <2>4, <2>5
<1>9. subprocesses' \subseteq subprocesses \cup {t}
  BY <1>5, <1>6 DEF subprocesses, Ended
<1>10. AtExecutor' \subseteq AtExecutor
  BY <1>3, <1>5, <1>9 DEF AtExecutor
<1>11. replies' \in [Connections -> SUBSET Tasks]
  BY <1>5, InvParts DEF ReaderTypeOK
<1> QED BY <1>5, <1>8, <1>10, <1>11, ExecutorOnlyStep

\* The executor's thread polls.
LEMMA WaitInv == ASSUME Inv, Wait PROVE Inv'
<1>1. ExecutorTypeOK'
  BY InvParts DEF Wait, MustWait, Execute, ExecutorTypeOK, PollsSome
<1>2. AtExecutor' \subseteq AtExecutor
  BY ServerAssumption DEF Wait, Execute, AtExecutor, subprocesses, Ended
<1>3. replies' \in [Connections -> SUBSET Tasks]
  BY InvParts DEF Wait, ReaderTypeOK
<1> QED BY <1>1, <1>2, <1>3, ExecutorOnlyStep DEF Wait

\* A subprocess ends.
LEMMA ProcessEndsInv == ASSUME Inv, NEW t \in running, ProcessEnds(t) PROVE Inv'
<1>1. IsFiniteSet(running \ {t}) /\ Cardinality(running \ {t}) <= ThreadCount
  <2>1. IsFiniteSet(running) /\ Cardinality(running) \in Nat
        /\ Cardinality(running) <= ThreadCount
    BY InvParts, FS_CardinalityType DEF ExecutorTypeOK
  <2>2. /\ IsFiniteSet(running \ {t})
        /\ Cardinality(running \ {t}) = Cardinality(running) - 1
    BY <2>1, FS_RemoveElement
  <2>3. ThreadCount \in Nat BY ServerAssumption
  <2> QED BY <2>1, <2>2, <2>3
<1>2. ended' \in Seq(Tasks) /\ ended' # << >> /\ Ended' = Ended \cup {t}
  BY InvParts, EndedAppend DEF ProcessEnds, ExecutorTypeOK
<1>3. ExecutorTypeOK'
  BY <1>1, <1>2, InvParts DEF ProcessEnds, ExecutorTypeOK, PollsSome
<1>4. subprocesses' \subseteq subprocesses
  BY <1>2 DEF ProcessEnds, subprocesses
<1>5. AtExecutor' \subseteq AtExecutor
  BY <1>4 DEF ProcessEnds, AtExecutor
<1>6. replies' \in [Connections -> SUBSET Tasks]
  BY InvParts DEF ProcessEnds, ReaderTypeOK
<1> QED BY <1>3, <1>5, <1>6, ExecutorOnlyStep DEF ProcessEnds

\* The first of finished_ is taken, and its task is in hand.
LEMMA NextFinishedInv == ASSUME Inv, NextFinished PROVE Inv'
<1> DEFINE t == Head(ended)
<1>1. /\ ended \in Seq(Tasks) /\ ended # << >> /\ ended' = Tail(ended)
      /\ executor' = [pc |-> "finishing", task |-> t]
      /\ UNCHANGED <<serviceVars, infoVars, taskQueue, running, finished, unwritten,
                     reading, origin, replies>>
  BY InvParts DEF NextFinished, Execute, ExecutorTypeOK
<1>2. ended' \in Seq(Tasks) /\ t \in Tasks /\ t \in Ended /\ Ended' \subseteq Ended
  BY <1>1, EndedTail
<1> HIDE DEF t
<1>3. ExecutorTypeOK' BY <1>1, <1>2, InvParts DEF ExecutorTypeOK, PollsSome
<1>4. AtExecutor' \subseteq AtExecutor
  BY <1>1, <1>2 DEF AtExecutor, subprocesses
<1>5. replies' \in [Connections -> SUBSET Tasks]
  BY <1>1, InvParts DEF ReaderTypeOK
<1> QED BY <1>1, <1>3, <1>4, <1>5, ExecutorOnlyStep

\* One task less is owed, and the total is one less if it was positive.
LEMMA CallbackFinishInv == ASSUME Inv, CallbackFinish PROVE Inv'
<1> DEFINE t == executor.task
<1>1. /\ t \in Tasks
      /\ executor' = [pc |-> "replying", task |-> t]
      /\ finished' = finished \cup {t}
      /\ FinishTask(SessionOf[origin[t]])
      /\ UNCHANGED <<serviceVars, sessionsIds, taskQueue, running, ended, unwritten,
                     reading, origin, replies>>
  BY InvParts, ServerAssumption DEF CallbackFinish, Execute, ExecutorTypeOK
<1> HIDE DEF t
<1>2. ExecutorTypeOK' BY <1>1, InvParts DEF ExecutorTypeOK, PollsSome
<1>3. AtExecutor' \subseteq AtExecutor
  BY <1>1 DEF AtExecutor, subprocesses, Ended, t
<1>4. replies' \in [Connections -> SUBSET Tasks] BY <1>1, InvParts DEF ReaderTypeOK
<1>5. /\ InfoTypeOK' /\ DOMAIN connectedClients' = DOMAIN connectedClients
      /\ runningTasks' <= IF runningTasks > 0 THEN runningTasks - 1 ELSE 0
      /\ DOMAIN connectedClients' = {} => runningTasks' = 0
  BY <1>1, InvParts, FinishTaskStep
<1>6. RunningNotOverstated'
  <2> DEFINE owed == Counted \ finished
  <2>1. owed' = owed \ {t} BY <1>1 DEF Counted, Read
  <2>2. IsFiniteSet(owed)
    BY InvParts, FS_Subset DEF ReaderTypeOK, Counted
  <2> HIDE DEF owed
  <2>3. /\ Cardinality(owed) \in Nat /\ Cardinality(owed') \in Nat
        /\ Cardinality(owed') >= Cardinality(owed) - 1
    <3>1. IsFiniteSet(owed \ {t}) BY <2>2, FS_RemoveElement
    <3>2. Cardinality(owed) \in Nat /\ Cardinality(owed \ {t}) \in Nat
      BY <2>2, <3>1, FS_CardinalityType
    <3>3. Cardinality(owed \ {t}) \in {Cardinality(owed), Cardinality(owed) - 1}
      BY <2>2, FS_RemoveElement
    <3> QED BY <2>1, <3>2, <3>3
  <2>4. /\ runningTasks \in Nat /\ runningTasks' \in Nat
        /\ runningTasks <= Cardinality(owed)
    BY <1>5, InvParts, Widths DEF InfoTypeOK, RunningNotOverstated, owed
  <2>5. runningTasks' <= Cardinality(owed') BY <1>5, <2>3, <2>4
  <2> QED BY <1>5, <2>5 DEF RunningNotOverstated, owed
<1> QED BY <1>1, <1>2, <1>3, <1>4, <1>5, <1>6, ExecutorStep

\* The reply is queued, or not; no count changes.
LEMMA CallbackRestInv == ASSUME Inv, CallbackCheck \/ CallbackReply PROVE Inv'
<1>1. /\ UNCHANGED <<serviceVars, infoVars, taskQueue, running, ended, finished,
                     unwritten, reading, origin>>
      /\ executor.task \in Tasks
      /\ executor' = Filling \/ executor' = [pc |-> "alive", task |-> executor.task]
  BY InvParts, ServerAssumption DEF CallbackCheck, CallbackReply, Execute, ExecutorTypeOK
<1>2. ExecutorTypeOK' BY <1>1, InvParts DEF ExecutorTypeOK, PollsSome, Filling
<1>3. AtExecutor' \subseteq AtExecutor
  BY <1>1, ServerAssumption DEF AtExecutor, subprocesses, Ended, Filling
<1>4. replies' \in [Connections -> SUBSET Tasks]
  BY <1>1, InvParts DEF CallbackCheck, CallbackReply, ReaderTypeOK
<1> QED BY <1>1, <1>2, <1>3, <1>4, ExecutorOnlyStep

(***************************************************************************)
(* The workers' threads.                                                   *)
(***************************************************************************)
\* A request is read and its session noted: it is not counted yet.
LEMMA ReadRequestInv ==
  ASSUME Inv, NEW c \in Connections, NEW t \in Tasks, ReadRequest(c, t)
  PROVE  Inv'
<1>1. /\ workers[c] = "connected" /\ reading[c] = NotReading /\ origin[t] = None
      /\ origin' = [origin EXCEPT ![t] = c]
      /\ sessionsIds' = [sessionsIds EXCEPT ![c] = SessionOf[c]]
      /\ reading' = [reading EXCEPT ![c] = [pc |-> "registered", task |-> t]]
      /\ UNCHANGED <<serviceVars, executorVars, connectedClients, runningTasks, replies>>
  BY DEF ReadRequest, Reading
<1>2. /\ SessionOf[c] \in Sessions /\ c # None
      /\ \A x \in Connections : sessionsIds'[x] =
           IF x = c THEN SessionOf[c] ELSE sessionsIds[x]
      /\ \A x \in Connections : reading'[x] =
           IF x = c THEN [pc |-> "registered", task |-> t] ELSE reading[x]
      /\ \A x \in Tasks : origin'[x] = IF x = t THEN c ELSE origin[x]
  BY <1>1, InvParts, ServerAssumption DEF ReaderTypeOK
<1>3. Read' = Read \cup {t} /\ t \notin Read
  BY <1>1, <1>2 DEF Read
<1>4. ServiceTypeOK' /\ OneAccepting' /\ InfoTypeOK' /\ ExecutorTypeOK'
  BY <1>1, InvParts DEF serviceVars, ServiceTypeOK, OneAccepting, InfoTypeOK,
     executorVars, ExecutorTypeOK, PollsSome
<1>5. ReaderTypeOK'
  <2>1. IsFiniteSet(Read') BY <1>3, InvParts, FS_AddElement DEF ReaderTypeOK
  <2> QED BY <1>1, <1>2, <2>1, InvParts DEF ReaderTypeOK
<1>6. WorkerHasSession'
  BY <1>1, <1>2, InvParts DEF serviceVars, WorkerHasSession
<1>7. ReaderHoldsTask'
  <2>1. AtExecutor' = AtExecutor BY <1>1 DEF executorVars, AtExecutor, subprocesses, Ended
  <2>2. AtExecutor \subseteq Read BY InvParts DEF ReaderHoldsTask
  <2>3. ASSUME NEW x \in Connections, reading'[x] # NotReading
        PROVE  origin'[reading'[x].task] = x /\ reading'[x].task \notin AtExecutor
    <3>1. CASE x = c BY <1>2, <1>3, <2>2, <3>1
    <3>2. CASE x # c
      <4>1. reading'[x] = reading[x] /\ reading[x].task \in Tasks
        BY <1>2, <2>3, <3>2, InvParts DEF ReaderTypeOK
      <4>2. origin[reading[x].task] = x /\ reading[x].task \notin AtExecutor
        BY <2>3, <4>1, InvParts DEF ReaderHoldsTask
      <4>3. reading[x].task # t BY <1>1, <4>2, ServerAssumption
      <4> QED BY <1>2, <4>1, <4>2, <4>3
    <3> QED BY <3>1, <3>2
  <2> QED BY <1>3, <2>1, <2>2, <2>3 DEF ReaderHoldsTask
<1>8. EveryClientHasWorker'
  <2> SUFFICES ASSUME NEW s \in DOMAIN connectedClients
               PROVE  \E x \in Connections : sessionsIds'[x] = s
                        /\ workers[x] \in {"connected", "broken"}
    BY <1>1 DEF serviceVars, EveryClientHasWorker
  <2>1. s \in Sessions /\ s # None
    BY InvParts, ServerAssumption DEF InfoTypeOK
  <2>2. PICK x \in Connections : sessionsIds[x] = s /\ workers[x] \in {"connected", "broken"}
    BY InvParts DEF EveryClientHasWorker
  <2>3. sessionsIds'[x] = s
    BY <1>2, <2>1, <2>2, InvParts DEF WorkerHasSession
  <2> QED BY <2>2, <2>3
<1>9. RunningNotOverstated'
  <2>1. Counted' = Counted
    <3>1. \A x \in Read : reading'[origin'[x]] = [pc |-> "registered", task |-> x]
                      <=> reading[origin[x]] = [pc |-> "registered", task |-> x]
      <4> SUFFICES ASSUME NEW x \in Read
                   PROVE  reading'[origin'[x]] = [pc |-> "registered", task |-> x]
                      <=> reading[origin[x]] = [pc |-> "registered", task |-> x]
        OBVIOUS
      <4>1. x \in Tasks /\ x # t /\ origin'[x] = origin[x] /\ origin[x] \in Connections
        BY <1>2, <1>3, InvParts DEF Read, ReaderTypeOK
      <4>2. CASE origin[x] = c BY <1>1, <1>2, <4>1, <4>2 DEF NotReading
      <4>3. CASE origin[x] # c BY <1>2, <4>1, <4>3
      <4> QED BY <4>2, <4>3
    <3>2. reading'[origin'[t]] = [pc |-> "registered", task |-> t]
      BY <1>2
    <3> QED BY <1>3, <3>1, <3>2 DEF Counted
  <2> QED BY <1>1, <2>1, InvParts DEF executorVars, RunningNotOverstated
<1> QED BY <1>4, <1>5, <1>6, <1>7, <1>8, <1>9, InvPartsNext

\* The request is counted: its worker has noted the session that becomes a client.
LEMMA CountRequestInv == ASSUME Inv, NEW c \in Connections, CountRequest(c) PROVE Inv'
<1> DEFINE t == reading[c].task
           owed == Counted \ finished
<1>1. /\ reading[c].pc = "registered" /\ reading[c] # NotReading
      /\ StartTask(SessionOf[c])
      /\ reading' = [reading EXCEPT ![c] = [pc |-> "counted", task |-> t]]
      /\ UNCHANGED <<serviceVars, executorVars, sessionsIds, origin, replies>>
  BY DEF CountRequest, Reading, NotReading
<1>2. /\ t \in Tasks
      /\ reading[c] = [pc |-> "registered", task |-> t]
      /\ \A x \in Connections : reading'[x] =
           IF x = c THEN [pc |-> "counted", task |-> t] ELSE reading[x]
      /\ origin[t] = c /\ t \notin AtExecutor
      /\ sessionsIds[c] = SessionOf[c] /\ workers[c] \in {"connected", "broken"}
      /\ SessionOf[c] \in Sessions
  BY <1>1, InvParts, ServerAssumption DEF ReaderTypeOK, ReaderHoldsTask, WorkerHasSession
<1>3. /\ InfoTypeOK'
      /\ DOMAIN connectedClients' = DOMAIN connectedClients \cup {SessionOf[c]}
      /\ runningTasks' <= runningTasks + 1
      /\ DOMAIN connectedClients' = {} => runningTasks' = 0
  BY <1>1, <1>2, InvParts, StartTaskStep
<1>4. ServiceTypeOK' /\ OneAccepting' /\ ExecutorTypeOK'
  BY <1>1, InvParts DEF serviceVars, ServiceTypeOK, OneAccepting, executorVars,
     ExecutorTypeOK, PollsSome
<1>5. Read' = Read /\ AtExecutor' = AtExecutor
  BY <1>1 DEF Read, executorVars, AtExecutor, subprocesses, Ended
<1>6. ReaderTypeOK'
  BY <1>1, <1>2, <1>5, InvParts DEF ReaderTypeOK
<1>7. WorkerHasSession' /\ EveryClientHasWorker'
  <2>1. WorkerHasSession'
    BY <1>1, <1>2, InvParts DEF serviceVars, WorkerHasSession
  <2>2. EveryClientHasWorker'
    BY <1>1, <1>2, <1>3, InvParts DEF serviceVars, EveryClientHasWorker
  <2> QED BY <2>1, <2>2
<1>8. ReaderHoldsTask'
  BY <1>1, <1>2, <1>5, InvParts DEF ReaderHoldsTask
<1>9. RunningNotOverstated'
  <2>1. t \in Read /\ t \notin Counted /\ t \notin finished
    BY <1>2, ServerAssumption DEF Read, Counted, AtExecutor
  <2>2. Counted' = Counted \cup {t}
    <3>1. \A x \in Read : x # t =>
            (reading'[origin[x]] = [pc |-> "registered", task |-> x]
               <=> reading[origin[x]] = [pc |-> "registered", task |-> x])
      <4> SUFFICES ASSUME NEW x \in Read, x # t
                   PROVE  reading'[origin[x]] = [pc |-> "registered", task |-> x]
                      <=> reading[origin[x]] = [pc |-> "registered", task |-> x]
        OBVIOUS
      <4>1. origin[x] \in Connections BY InvParts DEF Read, ReaderTypeOK
      <4>2. CASE origin[x] = c BY <1>2, <4>2
      <4>3. CASE origin[x] # c BY <1>2, <4>1, <4>3
      <4> QED BY <4>2, <4>3
    <3>2. reading'[origin[t]] # [pc |-> "registered", task |-> t]
      BY <1>2
    <3>3. origin' = origin BY <1>1
    <3> QED BY <1>5, <2>1, <3>1, <3>2, <3>3 DEF Counted
  <2>3. owed' = owed \cup {t} /\ t \notin owed
    BY <1>1, <2>1, <2>2 DEF executorVars
  <2>4. IsFiniteSet(owed)
    BY InvParts, FS_Subset DEF ReaderTypeOK, Counted
  <2> HIDE DEF owed
  <2>5. Cardinality(owed) \in Nat /\ Cardinality(owed') = Cardinality(owed) + 1
    BY <2>3, <2>4, FS_CardinalityType, FS_AddElement
  <2>6. /\ runningTasks \in Nat /\ runningTasks' \in Nat
        /\ runningTasks <= Cardinality(owed)
    BY <1>3, InvParts, Widths DEF InfoTypeOK, RunningNotOverstated, owed
  <2>7. runningTasks' <= Cardinality(owed') BY <1>3, <2>5, <2>6
  <2> QED BY <1>3, <2>7 DEF RunningNotOverstated, owed
<1> QED BY <1>3, <1>4, <1>6, <1>7, <1>8, <1>9, InvPartsNext

\* The task passes from its reader to the executor.
LEMMA AddTaskInv == ASSUME Inv, NEW c \in Connections, AddTask(c) PROVE Inv'
<1> DEFINE t == reading[c].task
<1>1. /\ reading[c].pc = "counted" /\ reading[c] # NotReading
      /\ taskQueue' = Append(taskQueue, t)
      /\ reading' = [reading EXCEPT ![c] = NotReading]
      /\ UNCHANGED <<serviceVars, infoVars, running, ended, executor, finished, unwritten,
                     origin, replies>>
  BY DEF AddTask, NotReading
<1>2. /\ t \in Tasks /\ origin[t] = c
      /\ \A x \in Connections : reading'[x] = IF x = c THEN NotReading ELSE reading[x]
  BY <1>1, InvParts DEF ReaderTypeOK, ReaderHoldsTask
<1>3. /\ taskQueue' \in Seq(Tasks)
      /\ {taskQueue'[k] : k \in DOMAIN taskQueue'} =
           {taskQueue[k] : k \in DOMAIN taskQueue} \cup {t}
  <2>1. taskQueue \in Seq(Tasks) BY InvParts DEF ExecutorTypeOK
  <2>2. /\ Len(taskQueue) \in Nat /\ DOMAIN taskQueue = 1 .. Len(taskQueue)
        /\ taskQueue' \in Seq(Tasks)
        /\ DOMAIN taskQueue' = 1 .. Len(taskQueue) + 1
        /\ \A k \in 1 .. Len(taskQueue) : taskQueue'[k] = taskQueue[k]
        /\ taskQueue'[Len(taskQueue) + 1] = t
    BY <1>1, <1>2, <2>1, LenProperties, AppendProperties
  <2> QED BY <2>2
<1>4. /\ ServiceTypeOK' /\ OneAccepting' /\ InfoTypeOK'
      /\ ExecutorTypeOK'
  <2>1. ServiceTypeOK' /\ OneAccepting' /\ InfoTypeOK'
    BY <1>1, InvParts DEF serviceVars, ServiceTypeOK, OneAccepting, infoVars, InfoTypeOK
  <2>2. ExecutorTypeOK' BY <1>1, <1>3, InvParts DEF ExecutorTypeOK, PollsSome
  <2> QED BY <2>1, <2>2
<1>5. Read' = Read /\ AtExecutor' = AtExecutor \cup {t}
  BY <1>1, <1>3 DEF Read, AtExecutor, subprocesses, Ended
<1>6. ReaderTypeOK' BY <1>1, <1>2, <1>5, InvParts DEF infoVars, ReaderTypeOK
<1>7. WorkerHasSession'
  BY <1>1, <1>2, InvParts DEF serviceVars, infoVars, WorkerHasSession
<1>8. EveryClientHasWorker'
  BY <1>1, InvParts DEF serviceVars, infoVars, EveryClientHasWorker
<1>9. ReaderHoldsTask'
  <2>1. t \in Read BY <1>2, ServerAssumption DEF Read
  <2>2. ASSUME NEW x \in Connections, reading'[x] # NotReading
        PROVE  origin[reading'[x].task] = x /\ reading'[x].task \notin AtExecutor \cup {t}
    BY <1>2, <2>2, InvParts DEF ReaderHoldsTask
  <2> QED BY <1>1, <1>5, <2>1, <2>2, InvParts DEF ReaderHoldsTask
<1>10. RunningNotOverstated'
  <2>1. \A x \in Read : reading'[origin[x]] = [pc |-> "registered", task |-> x]
                    <=> reading[origin[x]] = [pc |-> "registered", task |-> x]
    <3> SUFFICES ASSUME NEW x \in Read
                 PROVE  reading'[origin[x]] = [pc |-> "registered", task |-> x]
                    <=> reading[origin[x]] = [pc |-> "registered", task |-> x]
      OBVIOUS
    <3>1. origin[x] \in Connections BY InvParts DEF Read, ReaderTypeOK
    <3>2. CASE origin[x] = c BY <1>1, <1>2, <3>2 DEF NotReading
    <3>3. CASE origin[x] # c BY <1>2, <3>1, <3>3
    <3> QED BY <3>2, <3>3
  <2>2. (Counted \ finished)' = Counted \ finished
    BY <1>1, <1>5, <2>1 DEF Counted
  <2> QED BY <1>1, <2>2, InvParts DEF infoVars, RunningNotOverstated
<1> QED BY <1>4, <1>6, <1>7, <1>8, <1>9, <1>10, InvPartsNext

(***************************************************************************)
(* The service's thread.                                                   *)
(***************************************************************************)
\* Connections come, are accepted and break: no worker with a session is erased.
LEMMA AcceptingInv == ASSUME Inv, Accepting PROVE Inv'
<1>1. UNCHANGED <<infoVars, executorVars, reading, origin, replies>>
  BY DEF Accepting
<1>2. /\ ServiceTypeOK' /\ OneAccepting'
      /\ \A c \in Connections : workers[c] \in {"connected", "broken"}
           => workers'[c] \in {"connected", "broken"}
  BY InvParts, AcceptingStep
<1>3. InfoTypeOK' /\ ExecutorTypeOK' /\ ReaderTypeOK'
  BY <1>1, InvParts DEF infoVars, executorVars, InfoTypeOK, ExecutorTypeOK,
     PollsSome, ReaderTypeOK, Read
<1>4. WorkerHasSession' /\ EveryClientHasWorker'
  BY <1>1, <1>2, InvParts DEF infoVars, WorkerHasSession, EveryClientHasWorker
<1>5. ReaderHoldsTask'
  BY <1>1, InvParts DEF executorVars, ReaderHoldsTask, Read, AtExecutor,
     subprocesses, Ended
<1>6. RunningNotOverstated'
  <2>1. (Counted \ finished)' = Counted \ finished
    BY <1>1 DEF executorVars, Counted, Read
  <2> QED BY <1>1, <2>1, InvParts DEF infoVars, RunningNotOverstated
<1> QED BY <1>2, <1>3, <1>4, <1>5, <1>6, InvPartsNext

\* The session of an erased worker leaves with it: its thread was joined, so it has no
\* request in hand that could bring the session back.
LEMMA DestroyWorkerInv == ASSUME Inv, NEW c \in Connections, DestroyWorker(c) PROVE Inv'
<1>1. /\ reading[c] = NotReading /\ workers[c] = "broken"
      /\ SetWorker(c, "erased")
      /\ UNCHANGED <<whiteList, backlog, waitingAccept, refused>>
      /\ RemoveSession(sessionsIds[c])
      /\ sessionsIds' = [sessionsIds EXCEPT ![c] = None]
      /\ UNCHANGED <<executorVars, reading, origin, replies>>
  BY DEF DestroyWorker, EraseWorker
<1>2. ServiceTypeOK' /\ OneAccepting' BY <1>1, InvParts, LeaveStep
<1>3. /\ InfoTypeOK'
      /\ DOMAIN connectedClients' = DOMAIN connectedClients \ {sessionsIds[c]}
      /\ runningTasks' <= runningTasks
      /\ DOMAIN connectedClients' = {} => runningTasks' = 0
  BY <1>1, InvParts, RemoveSessionStep
<1>4. /\ \A x \in Connections : workers'[x] = IF x = c THEN "erased" ELSE workers[x]
      /\ \A x \in Connections : sessionsIds'[x] = IF x = c THEN None ELSE sessionsIds[x]
  BY <1>1, InvParts DEF SetWorker, ServiceTypeOK, ReaderTypeOK
<1>5. ExecutorTypeOK' /\ ReaderTypeOK'
  BY <1>1, InvParts DEF executorVars, ExecutorTypeOK, PollsSome, ReaderTypeOK, Read
<1>6. WorkerHasSession' BY <1>1, <1>4, InvParts DEF WorkerHasSession
<1>7. EveryClientHasWorker'
  BY <1>3, <1>4, InvParts DEF EveryClientHasWorker
<1>8. ReaderHoldsTask'
  BY <1>1, InvParts DEF executorVars, ReaderHoldsTask, Read, AtExecutor,
     subprocesses, Ended
<1>9. RunningNotOverstated'
  <2>1. (Counted \ finished)' = Counted \ finished
    BY <1>1 DEF executorVars, Counted, Read
  <2>2. IsFiniteSet(Counted \ finished)
    BY InvParts, FS_Subset DEF ReaderTypeOK, Counted
  <2>3. Cardinality(Counted \ finished) \in Nat BY <2>2, FS_CardinalityType
  <2>4. runningTasks \in Int /\ runningTasks' \in Int
    BY <1>3, InvParts, Widths DEF InfoTypeOK
  <2>5. runningTasks <= Cardinality(Counted \ finished)
    BY InvParts DEF RunningNotOverstated
  <2>6. runningTasks' <= Cardinality(Counted \ finished) BY <1>3, <2>3, <2>4, <2>5
  <2> QED BY <1>3, <2>1, <2>6 DEF RunningNotOverstated
<1> QED BY <1>2, <1>3, <1>5, <1>6, <1>7, <1>8, <1>9, InvPartsNext

(***************************************************************************)
(* The invariant.                                                          *)
(***************************************************************************)
\* Every step preserves the invariant.
LEMMA InvNext == Inv /\ [Next]_vars => Inv'
<1> SUFFICES ASSUME Inv, [Next]_vars PROVE Inv'
  OBVIOUS
<1>1. CASE Accepting BY <1>1, AcceptingInv
<1>2. ASSUME NEW c \in Connections, NEW t \in Tasks, ReadRequest(c, t) PROVE Inv'
  BY <1>2, ReadRequestInv
<1>3. ASSUME NEW c \in Connections, CountRequest(c) PROVE Inv'
  BY <1>3, CountRequestInv
<1>4. ASSUME NEW c \in Connections, AddTask(c) PROVE Inv'
  BY <1>4, AddTaskInv
<1>5. ASSUME NEW c \in Connections, DestroyWorker(c) PROVE Inv'
  BY <1>5, DestroyWorkerInv
<1>6. CASE Launch BY <1>6, LaunchInv
<1>7. CASE Wait BY <1>7, WaitInv
<1>8. CASE Callback BY <1>8, CallbackFinishInv, CallbackRestInv DEF Callback
<1>9. ASSUME NEW t \in running, ProcessEnds(t) PROVE Inv'
  BY <1>9, ProcessEndsInv
<1>11. CASE NextFinished BY <1>11, NextFinishedInv
<1>10. CASE UNCHANGED vars
  <2>1. UNCHANGED <<serviceVars, infoVars, reading, origin, finished>>
    BY <1>10 DEF vars, executorVars
  <2>2. AtExecutor' \subseteq AtExecutor BY <1>10 DEF vars, executorVars, AtExecutor,
     subprocesses, Ended
  <2>3. ExecutorTypeOK' /\ replies' \in [Connections -> SUBSET Tasks]
    BY <1>10, InvParts DEF vars, executorVars, ExecutorTypeOK,
     PollsSome, ReaderTypeOK
  <2> QED BY <2>1, <2>2, <2>3, ExecutorOnlyStep
<1> QED
  BY <1>1, <1>2, <1>3, <1>4, <1>5, <1>6, <1>7, <1>8, <1>9, <1>10, <1>11 DEF Next

\* The inductive invariant of the server holds in every reachable state.
THEOREM ServerInvariant == Spec => []Inv
<1>1. Init => Inv BY InitInv
<1>2. Inv /\ [Next]_vars => Inv' BY InvNext
<1> QED BY <1>1, <1>2, PTL DEF Spec

\* Type correctness of the server, service and executor (RemoteToolServer.cpp,
\* SocketFrameService.cpp, LocalExecutor.cpp); the executor never has more than its
\* number of subprocesses in running_, and never polls while there is none.
THEOREM ServerTypeCorrect == Spec => []TypeOK
<1>1. Inv => TypeOK BY DEF Inv
<1> QED BY <1>1, ServerInvariant, PTL

\* Only one worker at a time has to accept a connection, and it is the backlog's first.
THEOREM OneAccepts == Spec => []OneAccepting
<1>1. Inv => OneAccepting BY DEF Inv
<1> QED BY <1>1, ServerInvariant, PTL

\* RemoteToolServer.cpp:119-127: the destroy callback removes a session for good; no
\* client is announced that none of the workers stands for.
THEOREM ClientsHaveWorkers == Spec => []EveryClientHasWorker
<1>1. Inv => EveryClientHasWorker BY DEF Inv
<1> QED BY <1>1, ServerInvariant, PTL

\* RemoteToolServer.cpp:147-185: however the counts of overlapping connections drift,
\* the announced total is at most the number of tasks that were counted and not finished.
THEOREM RunningIsBounded == Spec => []RunningNotOverstated
<1>1. Inv => RunningNotOverstated BY DEF Inv
<1> QED BY <1>1, ServerInvariant, PTL

(***************************************************************************)
(* The used threads of a session.                                          *)
(***************************************************************************)
FewTasks == IsFiniteSet(Tasks) /\ Cardinality(Tasks) < U16

\* A task is at one place of the executor: waiting, running, or in the hands of a callback
\* that takes it off the counts; it is taken off once.
InQueue(t) == \E k \in DOMAIN taskQueue : taskQueue[k] = t
InCallback(t) == executor.pc = "finishing" /\ executor.task = t
TaskOnce ==
  /\ \A j, k \in DOMAIN taskQueue : taskQueue[j] = taskQueue[k] => j = k
  /\ EndedOnce
  /\ \A t \in Tasks :
       /\ t \in running => t \notin Ended
       /\ InQueue(t) => t \notin subprocesses \cup finished /\ ~InCallback(t)
       /\ t \in subprocesses => t \notin finished /\ ~InCallback(t)
       /\ InCallback(t) => t \notin finished

\* A uint16_t counts up below its limit.
LEMMA CountsUp == ASSUME NEW n \in Nat, n + 1 < U16 PROVE (n + 1) % U16 = n + 1
<1>1. n + 1 \in Int /\ n + 1 \in 0 .. U16 - 1 BY Widths
<1> QED BY <1>1, Reduced

\* It counts down above zero, which the code does by adding 65535.
LEMMA CountsDown ==
  ASSUME NEW n \in Nat, 0 < n, n < U16 PROVE (n + U16 - 1) % U16 = n - 1
<1>1. \A m \in Nat \ {0} : n < m => (n + m - 1) % m = n - 1
  <2> SUFFICES ASSUME NEW m \in Nat \ {0}, n < m PROVE (n + m - 1) % m = n - 1
    OBVIOUS
  <2> QED OBVIOUS
<1> QED BY <1>1, Widths

\* The tasks a session's used threads stand for are few.
LEMMA UnfinishedFew ==
  ASSUME FewTasks, NEW s
  PROVE  /\ IsFiniteSet(Unfinished(s)) /\ Cardinality(Unfinished(s)) \in Nat
         /\ \A t \in Tasks : t \notin Unfinished(s) => Cardinality(Unfinished(s)) + 1 < U16
         /\ Cardinality(Unfinished(s)) < U16
<1>1. Unfinished(s) \subseteq Tasks BY DEF Unfinished, Counted, Read
<1>2. /\ IsFiniteSet(Unfinished(s)) /\ Cardinality(Unfinished(s)) \in Nat
      /\ Cardinality(Unfinished(s)) <= Cardinality(Tasks)
      /\ Cardinality(Tasks) \in Nat
  BY <1>1, FS_Subset, FS_CardinalityType DEF FewTasks
<1>3. ASSUME NEW t \in Tasks, t \notin Unfinished(s)
      PROVE  Cardinality(Unfinished(s)) + 1 < U16
  <2>1. Unfinished(s) \cup {t} \subseteq Tasks BY <1>1
  <2>2. Cardinality(Unfinished(s) \cup {t}) = Cardinality(Unfinished(s)) + 1
    BY <1>2, <1>3, FS_AddElement
  <2>3. Cardinality(Unfinished(s) \cup {t}) <= Cardinality(Tasks)
    BY <2>1, FS_Subset DEF FewTasks
  <2> QED BY <1>2, <2>2, <2>3, Widths DEF FewTasks
<1> QED BY <1>2, <1>3, Widths DEF FewTasks

\* A step that leaves the counts, the tasks they stand for and the erased workers.
LEMMA SameUsed ==
  ASSUME UsedThreadsExact, connectedClients' = connectedClients,
         \A s \in Sessions : Unfinished(s)' = Unfinished(s),
         \A c \in Connections : workers[c] = "erased" => workers'[c] = "erased"
  PROVE  UsedThreadsExact'
BY DEF UsedThreadsExact, UsedBy

\* A step of the executor's thread that takes no task off.
LEMMA SameUsedQuiet ==
  ASSUME UsedThreadsExact,
         UNCHANGED <<serviceVars, infoVars, reading, origin, finished>>
  PROVE  UsedThreadsExact'
<1>1. \A s \in Sessions : Unfinished(s)' = Unfinished(s)
  BY DEF Unfinished, Counted, Read
<1> QED BY <1>1, SameUsed DEF infoVars, serviceVars

\* The head of the queue is nowhere else, and leaves it.
LEMMA LaunchUsed ==
  ASSUME Inv, TaskOnce, UsedThreadsExact, Launch PROVE TaskOnce' /\ UsedThreadsExact'
<1> DEFINE t == Head(taskQueue)
<1>1. /\ taskQueue \in Seq(Tasks) /\ taskQueue # << >> /\ taskQueue' = Tail(taskQueue)
      /\ executor.pc = "filling" /\ finished' = finished
  BY InvParts DEF Launch, CanLaunch, ExecutorTypeOK
<1>2. /\ Len(taskQueue) \in Nat \ {0} /\ DOMAIN taskQueue = 1 .. Len(taskQueue)
      /\ t \in Tasks /\ t = taskQueue[1] /\ 1 \in DOMAIN taskQueue
      /\ \A k \in DOMAIN taskQueue' :
           k \in Nat \ {0} /\ k + 1 \in DOMAIN taskQueue /\ taskQueue'[k] = taskQueue[k + 1]
  BY <1>1, EmptySeq, LenProperties, HeadTailProperties
<1>3. InQueue(t) BY <1>2 DEF InQueue
<1> HIDE DEF t
<1>4. \A x \in Tasks : InQueue(x)' => InQueue(x) /\ x # t
  <2> SUFFICES ASSUME NEW x \in Tasks, NEW k \in DOMAIN taskQueue', taskQueue'[k] = x
               PROVE  InQueue(x) /\ x # t
    BY DEF InQueue
  <2>1. k + 1 \in DOMAIN taskQueue /\ taskQueue[k + 1] = x /\ k + 1 # 1 BY <1>2
  <2> QED BY <1>2, <2>1 DEF TaskOnce, InQueue
<1>5. \A j, k \in DOMAIN taskQueue' : taskQueue'[j] = taskQueue'[k] => j = k
  <2> SUFFICES ASSUME NEW j \in DOMAIN taskQueue', NEW k \in DOMAIN taskQueue',
                      taskQueue'[j] = taskQueue'[k]
               PROVE  j = k
    OBVIOUS
  <2>1. j + 1 = k + 1 BY <1>2 DEF TaskOnce
  <2> QED BY <1>2, <2>1
<1>6. /\ t \notin subprocesses /\ t \notin finished
      /\ \A x : ~InCallback(x)
  BY <1>1, <1>2, <1>3 DEF TaskOnce, InCallback
<1>10. /\ \/ running' = running \cup {t} /\ UNCHANGED <<ended, executor>>
          \/ ended' = Append(ended, t) /\ UNCHANGED <<running, executor>>
          \/ executor' = [pc |-> "finishing", task |-> t] /\ UNCHANGED <<running, ended>>
          \/ UNCHANGED <<running, ended, executor>>
       /\ t \notin running /\ t \notin Ended /\ EndedOnce
  BY <1>6 DEF Launch, Execute, t, subprocesses, TaskOnce
<1>11. ended' = Append(ended, t) => Ended' = Ended \cup {t} /\ EndedOnce'
  <2>1. ended \in Seq(Tasks) BY InvParts DEF ExecutorTypeOK
  <2> QED BY <1>2, <1>10, <2>1, EndedAppend
<1>12. ended' = ended => Ended' = Ended /\ EndedOnce' BY <1>10 DEF Ended, EndedOnce
<1>7. \/ subprocesses' = subprocesses \cup {t} /\ executor' = executor
      \/ executor' = [pc |-> "finishing", task |-> t] /\ subprocesses' = subprocesses
      \/ subprocesses' = subprocesses /\ executor' = executor
  BY <1>10, <1>11, <1>12 DEF subprocesses
<1>13. EndedOnce' BY <1>10, <1>11, <1>12
<1>14. \A x \in Tasks : x \in running' => x \notin Ended'
  BY <1>2, <1>10, <1>11, <1>12 DEF TaskOnce
<1>8. \A x \in Tasks :
        /\ x \in subprocesses' => x \in subprocesses \/ (x = t /\ executor' = executor)
        /\ InCallback(x)' => x = t /\ subprocesses' = subprocesses
  BY <1>6, <1>7 DEF InCallback
<1>9. \A x \in Tasks :
        /\ InQueue(x)' => x \notin subprocesses' \cup finished' /\ ~InCallback(x)'
        /\ x \in subprocesses' => x \notin finished' /\ ~InCallback(x)'
        /\ InCallback(x)' => x \notin finished'
  <2> SUFFICES ASSUME NEW x \in Tasks
               PROVE  /\ InQueue(x)' => x \notin subprocesses' \cup finished' /\ ~InCallback(x)'
                      /\ x \in subprocesses' => x \notin finished' /\ ~InCallback(x)'
                      /\ InCallback(x)' => x \notin finished'
    OBVIOUS
  <2>1. InQueue(x)' => x # t /\ x \notin subprocesses \cup finished
    BY <1>4 DEF TaskOnce
  <2>2. x \in subprocesses => x \notin finished BY DEF TaskOnce
  <2>3. executor' = executor => ~InCallback(x)' BY <1>6 DEF InCallback
  <2> QED BY <1>1, <1>6, <1>8, <2>1, <2>2, <2>3
<1> QED BY <1>5, <1>9, <1>13, <1>14, SameUsedQuiet DEF TaskOnce, Launch

\* A subprocess ends, or is taken, or the thread waits, or the reply is queued: the counts
\* stay.
LEMMA ExecutorUsed ==
  ASSUME Inv, TaskOnce, UsedThreadsExact,
         Wait \/ CallbackCheck \/ CallbackReply \/ NextFinished
           \/ \E t \in running : ProcessEnds(t)
  PROVE  TaskOnce' /\ UsedThreadsExact'
<1>1. CASE Wait \/ CallbackCheck \/ CallbackReply
  <2>1. /\ UNCHANGED <<serviceVars, infoVars, taskQueue, running, ended, finished,
                       reading, origin>>
        /\ executor'.pc # "finishing"
    BY <1>1 DEF Wait, CallbackCheck, CallbackReply, Execute, Filling
  <2>2. TaskOnce'
    BY <2>1 DEF TaskOnce, InQueue, InCallback, EndedOnce, subprocesses, Ended
  <2> QED BY <2>1, <2>2, SameUsedQuiet
<1>2. ASSUME NEW t \in running, ProcessEnds(t) PROVE TaskOnce' /\ UsedThreadsExact'
  <2>1. /\ UNCHANGED <<serviceVars, infoVars, taskQueue, executor, finished, reading,
                       origin>>
        /\ running' = running \ {t} /\ ended' = Append(ended, t)
    BY <1>2 DEF ProcessEnds
  <2>2. t \in Tasks /\ t \notin Ended /\ EndedOnce /\ ended \in Seq(Tasks)
    BY InvParts DEF ExecutorTypeOK, TaskOnce
  <2>3. Ended' = Ended \cup {t} /\ EndedOnce' BY <2>1, <2>2, EndedAppend
  <2>4. subprocesses' = subprocesses BY <2>1, <2>3 DEF subprocesses
  <2>5. \A x : InCallback(x)' <=> InCallback(x) BY <2>1 DEF InCallback
  <2>6. \A x : InQueue(x)' <=> InQueue(x) BY <2>1 DEF InQueue
  <2>7. TaskOnce' BY <2>1, <2>3, <2>4, <2>5, <2>6 DEF TaskOnce
  <2> QED BY <2>1, <2>7, SameUsedQuiet
<1>3. CASE NextFinished
  <2> DEFINE t == Head(ended)
  <2>1. /\ UNCHANGED <<serviceVars, infoVars, taskQueue, running, finished, reading,
                       origin>>
        /\ ended # << >> /\ ended' = Tail(ended)
        /\ executor' = [pc |-> "finishing", task |-> t]
    BY <1>3 DEF NextFinished, Execute
  <2>2. EndedOnce /\ ended \in Seq(Tasks) BY InvParts DEF ExecutorTypeOK, TaskOnce
  <2>3. /\ t \in Tasks /\ t \in Ended /\ t \notin Ended' /\ EndedOnce'
        /\ Ended' \subseteq Ended
    BY <2>1, <2>2, EndedTail
  <2> HIDE DEF t
  <2>4. /\ subprocesses' \subseteq subprocesses
        /\ t \in subprocesses /\ t \notin subprocesses'
    BY <2>1, <2>3 DEF subprocesses, TaskOnce
  <2>5. \A x : InCallback(x)' <=> x = t BY <2>1 DEF InCallback
  <2>6. \A x : InQueue(x)' <=> InQueue(x) BY <2>1 DEF InQueue
  <2>7. TaskOnce' BY <2>1, <2>3, <2>4, <2>5, <2>6 DEF TaskOnce
  <2> QED BY <2>1, <2>7, SameUsedQuiet
<1> QED BY <1>1, <1>2, <1>3

\* The callback takes its task off the count of the session, once.
LEMMA CallbackFinishUsed ==
  ASSUME FewTasks, Inv, TaskOnce, UsedThreadsExact, CallbackFinish
  PROVE  TaskOnce' /\ UsedThreadsExact'
<1> DEFINE t == executor.task
           s0 == SessionOf[origin[t]]
<1>1. /\ t \in Tasks /\ InCallback(t)
      /\ executor' = [pc |-> "replying", task |-> t]
      /\ finished' = finished \cup {t}
      /\ FinishTask(s0)
      /\ UNCHANGED <<serviceVars, sessionsIds, taskQueue, running, ended, reading, origin>>
  BY InvParts DEF CallbackFinish, Execute, ExecutorTypeOK, InCallback
<1>2. t \notin finished /\ t \notin subprocesses /\ ~InQueue(t) BY <1>1 DEF TaskOnce
<1>3. TaskOnce'
  <2>1. \A x : ~InCallback(x)' BY <1>1 DEF InCallback
  <2>2. \A x : InQueue(x)' <=> InQueue(x) BY <1>1 DEF InQueue
  <2>3. EndedOnce' /\ Ended' = Ended /\ subprocesses' = subprocesses
    BY <1>1 DEF EndedOnce, Ended, subprocesses, TaskOnce
  <2> QED BY <1>1, <1>2, <2>1, <2>2, <2>3 DEF TaskOnce
<1>4. t \in Counted \ finished
  <2>1. t \in AtExecutor BY <1>1 DEF AtExecutor
  <2>2. t \in Read BY <2>1, InvParts DEF ReaderHoldsTask
  <2>3. reading[origin[t]] # [pc |-> "registered", task |-> t]
    <3>1. origin[t] \in Connections BY <2>2, InvParts DEF Read, ReaderTypeOK
    <3> QED BY <2>1, <3>1, InvParts DEF ReaderHoldsTask, NotReading
  <2> QED BY <1>2, <2>2, <2>3 DEF Counted
<1>5. s0 \in Sessions
  BY <1>4, InvParts, ServerAssumption DEF Counted, Read, ReaderTypeOK
<1>6. \A s \in Sessions : Unfinished(s)' = Unfinished(s) \ {t}
  BY <1>1 DEF Unfinished, Counted, Read
<1>7. \A s \in Sessions : t \in Unfinished(s) <=> s = s0
  BY <1>4 DEF Unfinished
<1> HIDE DEF t, s0
<1>8. connectedClients' = IF s0 \in DOMAIN connectedClients
                          THEN WithClient(s0, (UsedBy(s0) + U16 - 1) % U16)
                          ELSE connectedClients
  BY <1>1 DEF FinishTask, UpdateInfo
<1>9. ASSUME NEW s \in Sessions,
             \A c \in Connections : SessionOf[c] = s => workers[c] # "erased"
      PROVE  UsedBy(s)' = Cardinality(Unfinished(s)')
  <2>1. UsedBy(s) = Cardinality(Unfinished(s)) BY <1>9 DEF UsedThreadsExact
  <2>2. CASE s # s0
    <3>1. UsedBy(s)' = UsedBy(s)
      BY <1>8, <2>2 DEF UsedBy, WithClient
    <3>2. Unfinished(s)' = Unfinished(s) BY <1>6, <1>7, <2>2
    <3> QED BY <2>1, <3>1, <3>2
  <2>3. CASE s = s0
    <3> DEFINE n == Cardinality(Unfinished(s))
    <3>1. t \in Unfinished(s) BY <1>7, <2>3
    <3>2. /\ IsFiniteSet(Unfinished(s)) /\ n \in Nat /\ n < U16
      BY UnfinishedFew
    <3>3. Cardinality(Unfinished(s)') = n - 1
      <4>1. Unfinished(s)' = Unfinished(s) \ {t} BY <1>6
      <4> QED BY <3>1, <3>2, <4>1, FS_RemoveElement
    <3>4. 0 < n BY <3>1, <3>2, FS_EmptySet
    <3>5. s \in DOMAIN connectedClients BY <2>1, <3>4 DEF UsedBy
    <3>6. UsedBy(s)' = (UsedBy(s) + U16 - 1) % U16
      BY <1>8, <2>3, <3>5 DEF UsedBy, WithClient
    <3> HIDE DEF n
    <3>7. (n + U16 - 1) % U16 = n - 1 BY <3>2, <3>4, CountsDown
    <3>8. UsedBy(s) = n BY <2>1 DEF n
    <3> QED BY <3>3, <3>6, <3>7, <3>8
  <2> QED BY <2>2, <2>3
<1>10. UsedThreadsExact' BY <1>1, <1>9 DEF UsedThreadsExact, serviceVars
<1> QED BY <1>3, <1>10

\* A task that the executor does not know yet does not count before it is counted.
LEMMA ReadRequestUsed ==
  ASSUME Inv, TaskOnce, UsedThreadsExact, NEW c \in Connections, NEW t \in Tasks,
         ReadRequest(c, t)
  PROVE  TaskOnce' /\ UsedThreadsExact'
<1>1. /\ workers[c] = "connected" /\ reading[c] = NotReading /\ origin[t] = None
      /\ origin' = [origin EXCEPT ![t] = c]
      /\ reading' = [reading EXCEPT ![c] = [pc |-> "registered", task |-> t]]
      /\ UNCHANGED <<serviceVars, executorVars, connectedClients>>
  BY DEF ReadRequest, Reading
<1>2. /\ \A x \in Connections : reading'[x] =
           IF x = c THEN [pc |-> "registered", task |-> t] ELSE reading[x]
      /\ \A x \in Tasks : origin'[x] = IF x = t THEN c ELSE origin[x]
      /\ c # None
  BY <1>1, InvParts, ServerAssumption DEF ReaderTypeOK
<1>3. TaskOnce' BY <1>1 DEF executorVars, TaskOnce, InQueue, InCallback, EndedOnce,
     subprocesses, Ended
<1>4. ASSUME NEW x \in Tasks
      PROVE  /\ x \in Counted' <=> x \in Counted
             /\ x \in Counted => origin'[x] = origin[x]
  <2>1. CASE x = t BY <1>1, <1>2, <2>1 DEF Counted, Read
  <2>2. CASE x # t
    <3>1. origin'[x] = origin[x] BY <1>2, <2>2
    <3>2. CASE x \in Read
      <4>1. origin[x] \in Connections BY <3>2, InvParts DEF Read, ReaderTypeOK
      <4>2. reading'[origin[x]] = [pc |-> "registered", task |-> x]
              <=> reading[origin[x]] = [pc |-> "registered", task |-> x]
        BY <1>1, <1>2, <2>2, <4>1 DEF NotReading
      <4> QED BY <3>1, <4>2 DEF Counted, Read
    <3>3. CASE x \notin Read BY <3>1, <3>3 DEF Counted, Read
    <3> QED BY <3>1, <3>2, <3>3
  <2> QED BY <2>1, <2>2
<1>5. \A s \in Sessions : Unfinished(s)' = Unfinished(s)
  <2>1. Counted \subseteq Tasks /\ Counted' \subseteq Tasks BY DEF Counted, Read
  <2> QED BY <1>1, <1>4, <2>1 DEF Unfinished, executorVars
<1> QED BY <1>1, <1>3, <1>5, SameUsed DEF serviceVars

\* Counting a request adds one to the used threads of its session.
LEMMA CountRequestUsed ==
  ASSUME FewTasks, Inv, TaskOnce, UsedThreadsExact, NEW c \in Connections, CountRequest(c)
  PROVE  TaskOnce' /\ UsedThreadsExact'
<1> DEFINE t == reading[c].task
           s0 == SessionOf[c]
<1>1. /\ reading[c].pc = "registered" /\ reading[c] # NotReading
      /\ StartTask(s0)
      /\ reading' = [reading EXCEPT ![c] = [pc |-> "counted", task |-> t]]
      /\ UNCHANGED <<serviceVars, executorVars, origin>>
  BY DEF CountRequest, Reading, NotReading
<1>2. /\ t \in Tasks
      /\ reading[c] = [pc |-> "registered", task |-> t]
      /\ \A x \in Connections : reading'[x] =
           IF x = c THEN [pc |-> "counted", task |-> t] ELSE reading[x]
      /\ origin[t] = c /\ t \notin AtExecutor /\ s0 \in Sessions
  BY <1>1, InvParts, ServerAssumption DEF ReaderTypeOK, ReaderHoldsTask
<1>3. TaskOnce' BY <1>1 DEF executorVars, TaskOnce, InQueue, InCallback, EndedOnce,
     subprocesses, Ended
<1>4. ASSUME NEW x \in Tasks PROVE x \in Counted' <=> x \in Counted \/ x = t
  <2>1. CASE x = t BY <1>1, <1>2, <2>1, ServerAssumption DEF Counted, Read
  <2>2. CASE x # t
    <3>1. CASE x \in Read
      <4>1. origin[x] \in Connections BY <3>1, InvParts DEF Read, ReaderTypeOK
      <4>2. reading'[origin[x]] = [pc |-> "registered", task |-> x]
              <=> reading[origin[x]] = [pc |-> "registered", task |-> x]
        BY <1>2, <2>2, <4>1
      <4> QED BY <1>1, <2>2, <4>2 DEF Counted, Read
    <3>2. CASE x \notin Read BY <1>1, <2>2, <3>2 DEF Counted, Read
    <3> QED BY <3>1, <3>2
  <2> QED BY <2>1, <2>2
<1>5. t \notin Counted /\ t \notin finished
  BY <1>2 DEF Counted, AtExecutor
<1>6. /\ Unfinished(s0)' = Unfinished(s0) \cup {t} /\ t \notin Unfinished(s0)
      /\ \A s \in Sessions : s # s0 => Unfinished(s)' = Unfinished(s)
  <2>1. Counted \subseteq Tasks /\ Counted' \subseteq Tasks BY DEF Counted, Read
  <2> QED BY <1>1, <1>2, <1>4, <1>5, <2>1 DEF Unfinished, executorVars
<1>7. connectedClients' = WithClient(s0, (UsedBy(s0) + 1) % U16)
  BY <1>1 DEF StartTask, UpdateInfo
<1> HIDE DEF t, s0
<1>8. ASSUME NEW s \in Sessions,
             \A x \in Connections : SessionOf[x] = s => workers[x] # "erased"
      PROVE  UsedBy(s)' = Cardinality(Unfinished(s)')
  <2>1. UsedBy(s) = Cardinality(Unfinished(s)) BY <1>8 DEF UsedThreadsExact
  <2>2. CASE s # s0
    <3>1. UsedBy(s)' = UsedBy(s) BY <1>7, <2>2 DEF UsedBy, WithClient
    <3> QED BY <1>6, <2>1, <2>2, <3>1
  <2>3. CASE s = s0
    <3> DEFINE n == Cardinality(Unfinished(s))
    <3>1. IsFiniteSet(Unfinished(s)) /\ n \in Nat /\ n + 1 < U16
      BY <1>2, <1>6, <2>3, UnfinishedFew
    <3>2. Cardinality(Unfinished(s)') = n + 1
      BY <1>6, <2>3, <3>1, FS_AddElement
    <3>3. UsedBy(s)' = (UsedBy(s) + 1) % U16 BY <1>7, <2>3 DEF UsedBy, WithClient
    <3> HIDE DEF n
    <3>4. (n + 1) % U16 = n + 1 BY <3>1, CountsUp
    <3>5. UsedBy(s) = n BY <2>1 DEF n
    <3> QED BY <3>2, <3>3, <3>4, <3>5
  <2> QED BY <2>2, <2>3
<1>9. UsedThreadsExact' BY <1>1, <1>8 DEF UsedThreadsExact, serviceVars
<1> QED BY <1>3, <1>9

\* The task passes to the executor, which did not know it.
LEMMA AddTaskUsed ==
  ASSUME Inv, TaskOnce, UsedThreadsExact, NEW c \in Connections, AddTask(c)
  PROVE  TaskOnce' /\ UsedThreadsExact'
<1> DEFINE t == reading[c].task
<1>1. /\ reading[c].pc = "counted" /\ reading[c] # NotReading
      /\ taskQueue' = Append(taskQueue, t)
      /\ reading' = [reading EXCEPT ![c] = NotReading]
      /\ UNCHANGED <<serviceVars, infoVars, running, ended, executor, finished, origin>>
  BY DEF AddTask, NotReading
<1>2. /\ t \in Tasks /\ t \notin AtExecutor
      /\ \A x \in Connections : reading'[x] = IF x = c THEN NotReading ELSE reading[x]
  BY <1>1, InvParts DEF ReaderTypeOK, ReaderHoldsTask
<1>3. ~InQueue(t) /\ t \notin subprocesses /\ t \notin finished /\ executor.task # t
  BY <1>2 DEF AtExecutor, InQueue
<1>4. /\ Len(taskQueue) \in Nat /\ DOMAIN taskQueue = 1 .. Len(taskQueue)
      /\ DOMAIN taskQueue' = 1 .. Len(taskQueue) + 1
      /\ \A k \in 1 .. Len(taskQueue) : taskQueue'[k] = taskQueue[k]
      /\ taskQueue'[Len(taskQueue) + 1] = t
  <2>1. taskQueue \in Seq(Tasks) BY InvParts DEF ExecutorTypeOK
  <2> QED BY <1>1, <1>2, <2>1, LenProperties, AppendProperties
<1> HIDE DEF t
<1>5. \A k \in DOMAIN taskQueue' :
        \/ k \in DOMAIN taskQueue /\ taskQueue'[k] = taskQueue[k] /\ taskQueue[k] # t
        \/ k = Len(taskQueue) + 1 /\ taskQueue'[k] = t
  BY <1>3, <1>4 DEF InQueue
<1>6. \A j, k \in DOMAIN taskQueue' : taskQueue'[j] = taskQueue'[k] => j = k
  BY <1>5 DEF TaskOnce
<1>7. \A x \in Tasks : InQueue(x)' => InQueue(x) \/ x = t
  BY <1>5 DEF InQueue
<1>8. \A x : InCallback(x)' <=> InCallback(x) BY <1>1 DEF InCallback
<1>9. ~InCallback(t) BY <1>3 DEF InCallback
<1>14. EndedOnce' /\ Ended' = Ended /\ subprocesses' = subprocesses
  BY <1>1 DEF EndedOnce, Ended, subprocesses, TaskOnce
<1>10. TaskOnce' BY <1>1, <1>3, <1>6, <1>7, <1>8, <1>9, <1>14 DEF TaskOnce
<1>11. ASSUME NEW x \in Read
       PROVE  reading'[origin[x]] = [pc |-> "registered", task |-> x]
                <=> reading[origin[x]] = [pc |-> "registered", task |-> x]
  <2>1. origin[x] \in Connections BY InvParts DEF Read, ReaderTypeOK
  <2>2. CASE origin[x] = c BY <1>1, <1>2, <2>2 DEF NotReading
  <2>3. CASE origin[x] # c BY <1>2, <2>1, <2>3
  <2> QED BY <2>2, <2>3
<1>12. Counted' = Counted BY <1>1, <1>11 DEF Counted, Read
<1>13. \A s \in Sessions : Unfinished(s)' = Unfinished(s)
  BY <1>1, <1>12 DEF Unfinished
<1> QED BY <1>1, <1>10, <1>13, SameUsed DEF infoVars, serviceVars

\* A worker that was erased stays erased.
LEMMA AcceptingUsed ==
  ASSUME Inv, TaskOnce, UsedThreadsExact, Accepting
  PROVE  TaskOnce' /\ UsedThreadsExact'
<1>1. UNCHANGED <<infoVars, executorVars, reading, origin>> BY DEF Accepting
<1>2. TaskOnce' BY <1>1 DEF executorVars, TaskOnce, InQueue, InCallback, EndedOnce,
     subprocesses, Ended
<1>3. \A s \in Sessions : Unfinished(s)' = Unfinished(s)
  BY <1>1 DEF executorVars, Unfinished, Counted, Read
<1>4. ASSUME NEW c \in Connections, workers[c] = "erased" PROVE workers'[c] = "erased"
  <2>1. workers \in [Connections -> WorkerStates] /\ backlog \in Seq(Connections)
    BY InvParts DEF ServiceTypeOK
  <2>2. CASE AddWorker
    <3>1. backlog # << >> /\ workers' = [workers EXCEPT ![Head(backlog)] = "pending"]
      BY <2>2 DEF AddWorker, SetWorker
    <3>2. 1 \in DOMAIN backlog /\ Head(backlog) = backlog[1]
      BY <2>1, <3>1, EmptySeq, LenProperties
    <3>3. Head(backlog) # c BY <1>4, <3>2, InvParts DEF OneAccepting
    <3> QED BY <1>4, <2>1, <3>1, <3>3
  <2>3. ASSUME NEW x \in Connections,
               Arrive(x) \/ DoAccept(x) \/ AcceptFails(x) \/ Break(x)
        PROVE  workers'[c] = "erased"
    <3>1. CASE Arrive(x) BY <1>4, <3>1 DEF Arrive
    <3>2. CASE DoAccept(x) \/ AcceptFails(x) \/ Break(x)
      <4>1. x # c BY <1>4, <3>2 DEF DoAccept, AcceptFails, Break
      <4>2. SetWorker(x, "connected") \/ SetWorker(x, "broken")
        BY <3>2 DEF DoAccept, AcceptFails, Refuse, Break
      <4> QED BY <1>4, <2>1, <4>1, <4>2 DEF SetWorker
    <3> QED BY <2>3, <3>1, <3>2
  <2> QED BY <2>2, <2>3 DEF Accepting
<1> QED BY <1>1, <1>2, <1>3, <1>4, SameUsed DEF infoVars

\* Only the session of the erased worker is removed, of which nothing is claimed any more.
LEMMA DestroyWorkerUsed ==
  ASSUME Inv, TaskOnce, UsedThreadsExact, NEW c \in Connections, DestroyWorker(c)
  PROVE  TaskOnce' /\ UsedThreadsExact'
<1>1. /\ SetWorker(c, "erased")
      /\ connectedClients' = WithoutClient(sessionsIds[c])
      /\ UNCHANGED <<executorVars, reading, origin>>
      /\ workers \in [Connections -> WorkerStates]
  BY InvParts DEF DestroyWorker, EraseWorker, RemoveSession, UpdateInfo, ServiceTypeOK
<1>2. TaskOnce' BY <1>1 DEF executorVars, TaskOnce, InQueue, InCallback, EndedOnce,
     subprocesses, Ended
<1>3. \A s \in Sessions : Unfinished(s)' = Unfinished(s)
  BY <1>1 DEF executorVars, Unfinished, Counted, Read
<1>4. ASSUME NEW s \in Sessions,
             \A x \in Connections : SessionOf[x] = s => workers'[x] # "erased"
      PROVE  UsedBy(s)' = Cardinality(Unfinished(s)')
  <2>1. \A x \in Connections : workers[x] = "erased" => workers'[x] = "erased"
    BY <1>1 DEF SetWorker
  <2>2. UsedBy(s) = Cardinality(Unfinished(s)) BY <1>4, <2>1 DEF UsedThreadsExact
  <2>3. SessionOf[c] # s BY <1>1, <1>4 DEF SetWorker
  <2>4. sessionsIds[c] # s BY <2>3, InvParts, ServerAssumption DEF WorkerHasSession
  <2>5. UsedBy(s)' = UsedBy(s) BY <1>1, <2>4 DEF UsedBy, WithoutClient
  <2> QED BY <1>3, <2>2, <2>5
<1> QED BY <1>2, <1>4 DEF UsedThreadsExact

\* Every step keeps the two.
LEMMA UsedNext ==
  FewTasks /\ Inv /\ TaskOnce /\ UsedThreadsExact /\ [Next]_vars
    => TaskOnce' /\ UsedThreadsExact'
<1> SUFFICES ASSUME FewTasks, Inv, TaskOnce, UsedThreadsExact, [Next]_vars
             PROVE  TaskOnce' /\ UsedThreadsExact'
  OBVIOUS
<1>1. CASE Accepting BY <1>1, AcceptingUsed
<1>2. ASSUME NEW c \in Connections,
             (\E t \in Tasks : ReadRequest(c, t)) \/ CountRequest(c) \/ AddTask(c)
               \/ DestroyWorker(c)
      PROVE  TaskOnce' /\ UsedThreadsExact'
  BY <1>2, ReadRequestUsed, CountRequestUsed, AddTaskUsed, DestroyWorkerUsed
<1>3. CASE Launch \/ Wait \/ NextFinished \/ Callback \/ \E t \in running : ProcessEnds(t)
  BY <1>3, LaunchUsed, ExecutorUsed, CallbackFinishUsed DEF Callback
<1>4. CASE UNCHANGED vars
  <2>1. TaskOnce' BY <1>4 DEF vars, executorVars, TaskOnce, InQueue, InCallback,
     EndedOnce, subprocesses, Ended
  <2>2. UNCHANGED <<serviceVars, infoVars, reading, origin, finished>>
    BY <1>4 DEF vars, executorVars
  <2> QED BY <2>1, <2>2, SameUsedQuiet
<1> QED BY <1>1, <1>2, <1>3, <1>4 DEF Next

\* The two hold at the start.
LEMMA UsedInit == Init => TaskOnce /\ UsedThreadsExact
<1> SUFFICES ASSUME Init PROVE TaskOnce /\ UsedThreadsExact
  OBVIOUS
<1>1. TaskOnce BY EmptySeq DEF Init, TaskOnce, EndedOnce, InQueue, InCallback, Filling
<1>2. \A s \in Sessions : Unfinished(s) = {}
  BY ServerAssumption DEF Init, Unfinished, Counted, Read
<1>3. \A s \in Sessions : UsedBy(s) = 0 BY DEF Init, UsedBy
<1> QED BY <1>1, <1>2, <1>3, FS_EmptySet DEF UsedThreadsExact

\* RemoteToolServer.cpp:147-185: with fewer than 65536 requests, as long as no connection
\* of a session was erased its used threads are its counted and unfinished tasks, through
\* early failures, subprocesses and overlapping connections.
THEOREM UsedIsUnfinished == FewTasks /\ Spec => []UsedThreadsExact
<1>1. FewTasks => []FewTasks
  <2>1. FewTasks /\ [TRUE]_vars => FewTasks' BY DEF FewTasks
  <2> QED BY <2>1, PTL
<1>2. FewTasks /\ Inv /\ TaskOnce /\ UsedThreadsExact /\ [Next]_vars
        => TaskOnce' /\ UsedThreadsExact'
  BY UsedNext
<1> QED BY <1>1, <1>2, UsedInit, ServerInvariant, PTL DEF Spec
=============================================================================
