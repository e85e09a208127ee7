-------------------------- MODULE RemoteToolClient --------------------------
(***************************************************************************)
(* The client that places compiler invocations on tool servers             *)
(* (RemoteToolClient.cpp), composed with its balancer and with one         *)
(* SocketFrameHandler per server (SocketFrameHandler.cpp) at the level of  *)
(* whole frames.                                                           *)
(*                                                                         *)
(* Threads: callers run InvokeTool; one thread runs ProcessTasks; the      *)
(* coordinator's thread runs AddClient; every handler has a thread that    *)
(* connects, reads, writes, and runs the reply notifiers.                  *)
(*                                                                         *)
(* Frames are shared objects: a request keeps one m_transactionId for as   *)
(* long as it exists (frameTransaction), a handler's output queue holds    *)
(* pointers to frames, and only WriteFrames turns a frame into bytes that  *)
(* carry the identifier it has at that moment.                             *)
(***************************************************************************)
EXTENDS ToolBalancer, Bags

CONSTANTS
  Tasks,               (* the invocations: one call of InvokeTool each        *)
  ToolOf,              (* the tool id of an invocation                        *)
  InvocationAttempts,  (* m_invocationAttempts                                *)
  VersionChecks,       (* the answers CheckRemoteToolVersions may give        *)
  MaxClients,          (* bound on the handlers in m_clients                  *)
  VersionRequest       (* the ToolsVersionRequest frame                       *)

ASSUME ClientAssumption ==
  /\ ToolOf \in [Tasks -> Tools]
  /\ InvocationAttempts \in Nat
  /\ VersionChecks \subseteq BOOLEAN
  /\ MaxClients \in Nat
  /\ VersionRequest \notin Tasks
  /\ Tasks \cap {"unreadable", "expired", "failed"} = {}

VARIABLES
  requests,         (* m_requests                                             *)
  pendingTasks,     (* m_pendingTasks                                         *)
  worker,           (* the locals of ProcessTasks between its locks           *)
  remoteAvailable,  (* m_remoteIsAvailable                                    *)
  invoked,          (* history: the invocations made                          *)
  outcomes,         (* history: the calls of each invocation's callback       *)
  frameTransaction, (* m_transactionId of each request frame                  *)
  conn,             (* m_prevConnectionState of each handler                  *)
  transaction,      (* m_transaction of each handler                          *)
  versionNotifier,  (* is the notifier of the version request registered      *)
  notifiers,        (* m_replyNotifiers of the requests                       *)
  framesQueueOutput,(* m_framesQueueOutput: pointers to frames                *)
  outputSegments,   (* m_outputSegments, a serialized frame as one element    *)
  server            (* frames the server has received on this connection and  *)
                    (* not answered yet                                       *)

queueVars   == <<requests, pendingTasks, worker>>
callerVars  == <<invoked, outcomes>>
frameVars   == <<framesQueueOutput, outputSegments, server>>
notifyVars  == <<transaction, versionNotifier, notifiers>>
vars == <<balancerVars, queueVars, callerVars, frameVars, notifyVars,
          remoteAvailable, frameTransaction, conn>>

Handlers == 1 .. MaxClients
Wraps == [task : Tasks, attemptsRemain : 0 .. InvocationAttempts]
Frames == Tasks \cup {VersionRequest}
Idle == [pc |-> "idle"]
Busy == [pc : {"found", "started", "sent"}, wrap : Wraps, index : Handlers]
\* What a callback may be told; the result of a task stands for its object file.
Outcomes == Tasks \cup {"unreadable", "expired", "failed"}

TypeOK ==
  /\ requests \in Seq(Wraps)
  /\ pendingTasks \in Int
  /\ worker \in {Idle} \cup Busy
  /\ remoteAvailable \in BOOLEAN
  /\ invoked \in SUBSET Tasks
  /\ outcomes \in [Tasks -> Seq(Outcomes)]
  /\ frameTransaction \in [Tasks -> Nat]
  /\ conn \in [Handlers -> {"Pending", "Ok", "Closing", "Failed"}]
  /\ transaction \in [Handlers -> Nat]
  /\ versionNotifier \in [Handlers -> BOOLEAN]
  /\ notifiers \in [Handlers -> SUBSET [transaction : Nat, wrap : Wraps]]
  /\ framesQueueOutput \in [Handlers -> Seq(Frames)]
  /\ outputSegments \in [Handlers -> Seq([frame : Frames, transaction : Nat])]

Init ==
  /\ BalancerInit
  /\ requests = << >>
  /\ pendingTasks = 0
  /\ worker = Idle
  /\ remoteAvailable = FALSE
  /\ invoked = {}
  /\ outcomes = [t \in Tasks |-> << >>]
  /\ frameTransaction = [t \in Tasks |-> 0]
  /\ conn = [i \in Handlers |-> "Pending"]
  /\ transaction = [i \in Handlers |-> 0]
  /\ versionNotifier = [i \in Handlers |-> FALSE]
  /\ notifiers = [i \in Handlers |-> {}]
  /\ framesQueueOutput = [i \in Handlers |-> << >>]
  /\ outputSegments = [i \in Handlers |-> << >>]
  /\ server = [i \in Handlers |-> EmptyBag]

(***************************************************************************)
(* Shared pieces.                                                          *)
(***************************************************************************)
AvailableCheck ==
  remoteAvailable' = (remoteAvailable \/ (IsAllChecked /\ totals.free > 0)')

\* Mutant: the task is queued and not counted.
QueueTaskUncounted(wrap) ==
  requests' = Append(requests, wrap) /\ UNCHANGED pendingTasks

\* Mutant: the task is queued before the others.
QueueTaskFirst(wrap) ==
  /\ requests' = <<wrap>> \o requests
  /\ pendingTasks' = pendingTasks + 1

QueueTask(wrap) ==
  /\ requests' = Append(requests, wrap)
  /\ pendingTasks' = pendingTasks + 1

Callback(t, outcome) == outcomes' = [outcomes EXCEPT ![t] = Append(@, outcome)]

CanRetry(wrap) == wrap.attemptsRemain > 0

\* Mutant: the callback returns without a word when no attempt is left.
FrameFailedSilently(i, wrap) ==
  /\ FinishTask(i)
  /\ UNCHANGED outcomes
  /\ IF CanRetry(wrap) THEN QueueTask([wrap EXCEPT !.attemptsRemain = @ - 1])
                       ELSE UNCHANGED <<requests, pendingTasks>>

\* Mutant: a retry does not use up an attempt.
FrameFailedFreely(i, wrap) ==
  /\ FinishTask(i)
  /\ IF CanRetry(wrap) THEN QueueTask(wrap) /\ UNCHANGED outcomes
                       ELSE /\ Callback(wrap.task, "failed")
                            /\ UNCHANGED <<requests, pendingTasks>>

\* Mutant: a retried task is not taken off the server's count.
FrameFailedUnfinished(i, wrap) ==
  IF CanRetry(wrap)
  THEN /\ QueueTask([wrap EXCEPT !.attemptsRemain = @ - 1])
       /\ UNCHANGED <<balancerVars, outcomes>>
  ELSE /\ FinishTask(i)
       /\ Callback(wrap.task, "failed")
       /\ UNCHANGED <<requests, pendingTasks>>

\* frameCallback of ProcessTasks, told Timeout or Error: the task goes to the end
\* of the queue while it has attempts left, else its callback hears of the failure.
FrameFailed(i, wrap) ==
  /\ FinishTask(i)
  /\ IF CanRetry(wrap)
     THEN /\ QueueTask([wrap EXCEPT !.attemptsRemain = @ - 1])
          /\ UNCHANGED outcomes
     ELSE /\ Callback(wrap.task, "failed")
          /\ UNCHANGED <<requests, pendingTasks>>

\* frameCallback, told Success: the object file of the response is written.
FrameAnswered(i, wrap, result) ==
  /\ FinishTask(i)
  /\ Callback(wrap.task, result)
  /\ UNCHANGED <<requests, pendingTasks>>

(***************************************************************************)
(* InvokeTool: the input is read and compressed, then the task is queued.  *)
(***************************************************************************)
InvokeTool(t) ==
  /\ t \notin invoked
  /\ invoked' = invoked \cup {t}
  /\ \/ /\ Callback(t, "unreadable")
        /\ UNCHANGED <<requests, pendingTasks>>
     \/ /\ QueueTask([task |-> t, attemptsRemain |-> InvocationAttempts])
        /\ UNCHANGED outcomes
  /\ UNCHANGED <<balancerVars, worker, frameVars, notifyVars, remoteAvailable,
                 frameTransaction, conn>>

(***************************************************************************)
(* ProcessTasks.                                                           *)
(***************************************************************************)
\* A task whose expiration moment has passed is erased and its callback called;
\* pendingTasks is left as it is.  The code erases all expired tasks in one pass, which
\* is this step taken several times.
ExpireTask(k) ==
  /\ worker = Idle
  /\ requests' = SubSeq(requests, 1, k - 1) \o SubSeq(requests, k + 1, Len(requests))
  /\ Callback(requests[k].task, "expired")
  /\ UNCHANGED <<balancerVars, pendingTasks, worker, invoked, frameVars, notifyVars,
                 remoteAvailable, frameTransaction, conn>>

\* The first task is copied and a server found for it: from here on the balancer
\* and the connection may change under the thread.
PickTask ==
  /\ worker = Idle
  /\ requests # << >>
  /\ LET wrap == Head(requests)
         i    == FindFreeClient(ToolOf[wrap.task])
     IN  /\ i # NoClient
         /\ worker' = [pc |-> "found", wrap |-> wrap, index |-> i]
  /\ UNCHANGED <<balancerVars, requests, pendingTasks, callerVars, frameVars,
                 notifyVars, remoteAvailable, frameTransaction, conn>>

CountTask ==
  /\ worker.pc = "found"
  /\ StartTask(worker.index)
  /\ pendingTasks' = pendingTasks - 1
  /\ worker' = [worker EXCEPT !.pc = "started"]
  /\ UNCHANGED <<requests, callerVars, frameVars, notifyVars, remoteAvailable,
                 frameTransaction, conn>>

\* Mutant: the handler's transaction number does not advance.
QueueFrameSameTransaction ==
  LET i == worker.index
      t == worker.wrap.task
  IN  /\ worker.pc = "started"
      /\ conn[i] # "Closing"
      /\ frameTransaction' = [frameTransaction EXCEPT ![t] = transaction[i]]
      /\ notifiers' = [notifiers EXCEPT ![i] =
            @ \cup {[transaction |-> transaction[i], wrap |-> worker.wrap]}]
      /\ framesQueueOutput' = [framesQueueOutput EXCEPT ![i] = Append(@, t)]
      /\ worker' = [worker EXCEPT !.pc = "sent"]
      /\ UNCHANGED <<balancerVars, requests, pendingTasks, callerVars, transaction,
                     outputSegments, server, versionNotifier, remoteAvailable, conn>>

\* QueueFrame with a notifier: the frame object gets this handler's next
\* transaction.  AddNotifier waits for ClearAndSendError, which holds the mutex.
QueueFrame ==
  LET i == worker.index
      t == worker.wrap.task
  IN  /\ worker.pc = "started"
      /\ conn[i] # "Closing"
      /\ frameTransaction' = [frameTransaction EXCEPT ![t] = transaction[i]]
      /\ transaction' = [transaction EXCEPT ![i] = @ + 1]
      /\ notifiers' = [notifiers EXCEPT ![i] =
            @ \cup {[transaction |-> transaction[i], wrap |-> worker.wrap]}]
      /\ framesQueueOutput' = [framesQueueOutput EXCEPT ![i] = Append(@, t)]
      /\ worker' = [worker EXCEPT !.pc = "sent"]
      /\ UNCHANGED <<balancerVars, requests, pendingTasks, callerVars,
                     outputSegments, server, versionNotifier, remoteAvailable, conn>>

PopRequest ==
  /\ worker.pc = "sent"
  /\ requests' = Tail(requests)
  /\ worker' = Idle
  /\ UNCHANGED <<balancerVars, pendingTasks, callerVars, frameVars, notifyVars,
                 remoteAvailable, frameTransaction, conn>>

(***************************************************************************)
(* AddClient: a server the balancer did not know gets a handler, which is  *)
(* asked for the tool versions once and then started.                      *)
(***************************************************************************)
AddClient(s) ==
  LET i     == Len(clients) + 1
      added == ~Skipped(s) /\ ~Known(s)
  IN  /\ added => i \in Handlers
      /\ UpdateClient(s)
      /\ IF Skipped(s) THEN UNCHANGED remoteAvailable ELSE AvailableCheck
      /\ IF added
         THEN /\ transaction' = [transaction EXCEPT ![i] = @ + 1]
              /\ versionNotifier' = [versionNotifier EXCEPT ![i] = TRUE]
              /\ framesQueueOutput' =
                   [framesQueueOutput EXCEPT ![i] = Append(@, VersionRequest)]
         ELSE UNCHANGED <<transaction, versionNotifier, framesQueueOutput>>
      /\ UNCHANGED <<queueVars, callerVars, notifiers, outputSegments, server,
                     frameTransaction, conn>>

(***************************************************************************)
(* The thread of handler i: SetConnectionState.                            *)
(***************************************************************************)
Connect(i) ==
  /\ conn[i] \in {"Pending", "Failed"}
  /\ conn' = [conn EXCEPT ![i] = "Ok"]
  /\ SetClientActive(i, TRUE)
  /\ AvailableCheck
  /\ UNCHANGED <<queueVars, callerVars, frameVars, notifyVars, frameTransaction>>

\* The first attempt fails: no notifier is told.
ConnectFails(i) ==
  /\ conn[i] = "Pending"
  /\ conn' = [conn EXCEPT ![i] = "Failed"]
  /\ SetClientActive(i, FALSE)
  /\ AvailableCheck
  /\ UNCHANGED <<queueVars, callerVars, frameVars, notifyVars, frameTransaction>>

\* An established connection is lost: what the server still worked on is never
\* answered (its handler is destroyed), what was not written stays queued, except
\* for a frame a failed write has taken off the queue.
LoseConnection(i) ==
  /\ conn[i] = "Ok"
  /\ conn' = [conn EXCEPT ![i] = "Closing"]
  /\ SetClientActive(i, FALSE)
  /\ AvailableCheck
  /\ server' = [server EXCEPT ![i] = EmptyBag]
  /\ \/ UNCHANGED outputSegments
     \/ /\ outputSegments[i] # << >>
        /\ outputSegments' = [outputSegments EXCEPT ![i] = Tail(@)]
  /\ UNCHANGED <<queueVars, callerVars, framesQueueOutput, notifyVars, frameTransaction>>

\* ClearAndSendError, one notifier after the other, in the order of transactions;
\* the version request is transaction 0.
ClearVersionNotifier(i) ==
  /\ conn[i] = "Closing"
  /\ versionNotifier[i]
  /\ versionNotifier' = [versionNotifier EXCEPT ![i] = FALSE]
  /\ SetClientCompatible(i, FALSE)
  /\ AvailableCheck
  /\ UNCHANGED <<queueVars, callerVars, frameVars, transaction, notifiers,
                 frameTransaction, conn>>

ClearNotifier(i, n) ==
  /\ conn[i] = "Closing"
  /\ ~versionNotifier[i]
  /\ n \in notifiers[i]
  /\ \A m \in notifiers[i] : n.transaction <= m.transaction
  /\ notifiers' = [notifiers EXCEPT ![i] = @ \ {n}]
  /\ FrameFailed(i, n.wrap)
  /\ UNCHANGED <<worker, invoked, frameVars, transaction, versionNotifier,
                 remoteAvailable, frameTransaction, conn>>

Cleared(i) ==
  /\ conn[i] = "Closing"
  /\ ~versionNotifier[i] /\ notifiers[i] = {}
  /\ conn' = [conn EXCEPT ![i] = "Failed"]
  /\ UNCHANGED <<balancerVars, queueVars, callerVars, frameVars, notifyVars,
                 remoteAvailable, frameTransaction>>

(***************************************************************************)
(* The thread of handler i: WriteFrames, ReadFrames, CheckTimeouts.        *)
(***************************************************************************)
Serialized(frame) ==
  [frame       |-> frame,
   transaction |-> IF frame = VersionRequest THEN 0 ELSE frameTransaction[frame]]

\* All queued frames are serialized; the first n of what waits then are written.
WriteFrames(i, n) ==
  LET queue == framesQueueOutput[i]
      all   == outputSegments[i] \o [k \in DOMAIN queue |-> Serialized(queue[k])]
      sent(x) == Cardinality({k \in 1 .. n : all[k] = x})
  IN  /\ conn[i] = "Ok"
      /\ n <= Len(all)
      /\ framesQueueOutput' = [framesQueueOutput EXCEPT ![i] = << >>]
      /\ outputSegments' = [outputSegments EXCEPT ![i] = SubSeq(all, n + 1, Len(all))]
      /\ server' = [server EXCEPT ![i] =
            @ (+) [x \in {all[k] : k \in 1 .. n} |-> sent(x)]]
      /\ UNCHANGED <<balancerVars, queueVars, callerVars, notifyVars,
                     remoteAvailable, frameTransaction, conn>>

Answered(i, r) == server' = [server EXCEPT ![i] = @ (-) SetToBag({r})]

\* The response to request r arrives; its m_replyToTransactionId selects the
\* notifier.  A response nobody waits for goes to a reader without a callback.
ReadResponse(i, r) ==
  /\ conn[i] = "Ok"
  /\ r.frame \in Tasks
  /\ Answered(i, r)
  /\ \/ \E n \in notifiers[i] :
          /\ n.transaction = r.transaction
          /\ notifiers' = [notifiers EXCEPT ![i] = @ \ {n}]
          /\ FrameAnswered(i, n.wrap, r.frame)
     \/ /\ \A n \in notifiers[i] : n.transaction # r.transaction
        /\ UNCHANGED <<balancerVars, requests, pendingTasks, outcomes, notifiers>>
  /\ UNCHANGED <<worker, invoked, framesQueueOutput, outputSegments, transaction,
                 versionNotifier, remoteAvailable, frameTransaction, conn>>

ReadVersions(i, r) ==
  /\ conn[i] = "Ok"
  /\ r.frame = VersionRequest
  /\ Answered(i, r)
  /\ \/ /\ versionNotifier[i]
        /\ versionNotifier' = [versionNotifier EXCEPT ![i] = FALSE]
        /\ \E isCompatible \in VersionChecks : SetClientCompatible(i, isCompatible)
        /\ AvailableCheck
     \/ /\ ~versionNotifier[i]
        /\ UNCHANGED <<balancerVars, versionNotifier, remoteAvailable>>
  /\ UNCHANGED <<queueVars, callerVars, framesQueueOutput, outputSegments,
                 transaction, notifiers, frameTransaction, conn>>

ReadStatus(i, load) ==
  /\ conn[i] = "Ok"
  /\ SetServerSideLoad(i, load)
  /\ AvailableCheck
  /\ UNCHANGED <<queueVars, callerVars, frameVars, notifyVars, frameTransaction, conn>>

\* Mutant: the notifier that has timed out stays registered.
CheckTimeoutsKeeping(i, n) ==
  /\ conn[i] = "Ok"
  /\ n \in notifiers[i]
  /\ FrameFailed(i, n.wrap)
  /\ UNCHANGED <<worker, invoked, frameVars, notifyVars, remoteAvailable,
                 frameTransaction, conn>>

\* CheckTimeouts runs only at the end of a Quant of a connected handler.
CheckTimeouts(i, n) ==
  /\ conn[i] = "Ok"
  /\ n \in notifiers[i]
  /\ notifiers' = [notifiers EXCEPT ![i] = @ \ {n}]
  /\ FrameFailed(i, n.wrap)
  /\ UNCHANGED <<worker, invoked, frameVars, transaction, versionNotifier,
                 remoteAvailable, frameTransaction, conn>>

CheckVersionTimeout(i) ==
  /\ conn[i] = "Ok"
  /\ versionNotifier[i]
  /\ versionNotifier' = [versionNotifier EXCEPT ![i] = FALSE]
  /\ SetClientCompatible(i, FALSE)
  /\ AvailableCheck
  /\ UNCHANGED <<queueVars, callerVars, frameVars, transaction, notifiers,
                 frameTransaction, conn>>

ProcessTasks == PickTask \/ CountTask \/ QueueFrame \/ PopRequest

Handler(i) ==
  \/ Connect(i) \/ ConnectFails(i) \/ LoseConnection(i)
  \/ ClearVersionNotifier(i) \/ Cleared(i) \/ CheckVersionTimeout(i)
  \/ \E n \in notifiers[i] : ClearNotifier(i, n) \/ CheckTimeouts(i, n)
  \/ \E n \in 0 .. Len(framesQueueOutput[i]) + Len(outputSegments[i]) : WriteFrames(i, n)
  \/ \E r \in BagToSet(server[i]) : ReadResponse(i, r) \/ ReadVersions(i, r)
  \/ \E load \in QueueLoads : ReadStatus(i, load)

Next ==
  \/ \E t \in Tasks : InvokeTool(t)
  \/ \E k \in 1 .. Len(requests) : ExpireTask(k)
  \/ ProcessTasks
  \/ \E s \in ToolServers : AddClient(s)
  \/ \E i \in DOMAIN clients : Handler(i)

Spec == Init /\ [][Next]_vars

(***************************************************************************)
(* Safety.                                                                 *)
(***************************************************************************)
\* The queue without the front that ProcessTasks has sent and not popped yet.
Live == IF worker.pc = "sent" THEN 2 .. Len(requests) ELSE 1 .. Len(requests)

Queued(t)  == \E k \in Live : requests[k].task = t
Waiting(i, t) == \E n \in notifiers[i] : n.wrap.task = t
Awaited(t) == \E i \in Handlers : Waiting(i, t)
InHand(t)  == t \in invoked /\ outcomes[t] = << >>

\* Whoever holds a task is the only one: the task is once in the queue, or one
\* notifier of one handler waits for its response.  The queue, the handlers' threads
\* and the ProcessTasks thread pass it on under different locks (RemoteToolClient.cpp
\* 61-66, 106-156; SocketFrameHandler.cpp 652-712).
QueuedOnce ==
  \A j, k \in Live : requests[j].task = requests[k].task => j = k
AwaitedOnce ==
  \A i, j \in Handlers : \A n \in notifiers[i], m \in notifiers[j] :
    n.wrap.task = m.wrap.task => i = j /\ n = m
QueuedOrAwaited == \A t \in Tasks : ~(Queued(t) /\ Awaited(t))

\* An invocation is held by somebody exactly as long as its callback is due, and the
\* callback is called at most once: no task is lost by a retry, a timeout or a lost
\* connection, and a late answer does not call a callback again.
NeverLost == \A t \in Tasks : InHand(t) <=> Queued(t) \/ Awaited(t)
AnsweredAtMostOnce ==
  \A t \in Tasks : Len(outcomes[t]) <= 1 /\ (t \notin invoked => outcomes[t] = << >>)

OneHolder ==
  /\ QueuedOnce
  /\ AwaitedOnce
  /\ QueuedOrAwaited
  /\ NeverLost
  /\ AnsweredAtMostOnce

\* The balancer's m_busyMine of a server is the number of requests whose response is
\* awaited from it (and the one being sent): every way a request ends, be it a
\* response, a timeout or a lost connection, runs FinishTask once.
BusyMatchesOutstanding ==
  \A i \in DOMAIN clients :
    clients[i].busyMine = Cardinality(notifiers[i])
      + (IF worker.pc = "started" /\ worker.index = i THEN 1 ELSE 0)

\* m_pendingTasks counts the tasks in the queue that no server was found for, and it
\* keeps counting those that expired there: the expiry loop does not decrement it
\* (RemoteToolClient.cpp 76-89), so GetFreeRemoteThreads stays too low for good.
NotStarted == Len(requests) - (IF worker.pc \in {"started", "sent"} THEN 1 ELSE 0)
Expired == {t \in Tasks : outcomes[t] = <<"expired">>}
PendingAccounting == pendingTasks = NotStarted + Cardinality(Expired)

\* A request is in flight to a server only after that server's tool versions were
\* accepted, whatever happened between the search and the send.
OnlyCompatibleServersUsed ==
  \A i \in DOMAIN clients : notifiers[i] # {} => clients[i].compatible

\* SocketFrameHandler.h:164 says of a reply notifier that it is called "when reply
\* arrived or failure occurs": the response a notifier gets is that of its request,
\* so an invocation is answered with the result of its own task.
ResultBelongsToTask ==
  \A t \in Tasks : \A k \in DOMAIN outcomes[t] : outcomes[t][k] \in Tasks => outcomes[t][k] = t

(***************************************************************************)
(* The inductive invariant behind TypeOK, OneHolder and                    *)
(* OnlyCompatibleServersUsed.                                              *)
(***************************************************************************)
\* What ProcessTasks relies on between its locks: its copy of the front is still the
\* front, the others only append, and the server it found keeps its index.
WorkerHoldsFront ==
  worker # Idle =>
    /\ requests # << >> /\ Head(requests) = worker.wrap
    /\ worker.index \in DOMAIN clients

\* A server's tools are accepted by the answer to its only version request, so once
\* it is compatible, nothing takes that back.
CompatibleOnceChecked ==
  /\ \A i \in DOMAIN clients : versionNotifier[i] => ~clients[i].compatible
  /\ \A i \in Handlers : notifiers[i] # {} => i \in DOMAIN clients /\ clients[i].compatible
  /\ worker.pc \in {"found", "started"} => clients[worker.index].compatible

Inv ==
  /\ ClientsTypeOK /\ LoadsFresh /\ ServersKnownOnce
  /\ DOMAIN clients \subseteq Handlers
  /\ TypeOK
  /\ WorkerHoldsFront
  /\ CompatibleOnceChecked
  /\ OneHolder

(***************************************************************************)
(* The client implements RemoteInvocation.                                 *)
(***************************************************************************)
Phase(t) ==
  IF outcomes[t] # << >> THEN "answered"
  ELSE IF Awaited(t) THEN "running"
  ELSE IF t \in invoked THEN "queued"
  ELSE "none"

HeldWraps(t) ==
  {w \in {requests[k] : k \in Live} \cup {n.wrap : n \in UNION {notifiers[i] : i \in Handlers}} :
     w.task = t}

RemainOf(t) ==
  IF outcomes[t] # << >> THEN 0
  ELSE IF t \in invoked THEN (CHOOSE w \in HeldWraps(t) : TRUE).attemptsRemain
  ELSE InvocationAttempts

Invocation == INSTANCE RemoteInvocation WITH
  phase  <- [t \in Tasks |-> Phase(t)],
  remain <- [t \in Tasks |-> RemainOf(t)]

\* Every step of the client is a step of RemoteInvocation or invisible to it: a retry
\* uses up one of the attempts, an answered invocation never runs again.
ImplementsInvocation == Invocation!Spec

(***************************************************************************)
(* Liveness.                                                               *)
(***************************************************************************)
\* The threads of the client run, and time passes: what stays in the queue expires,
\* an open request to a connected server is answered or times out.  A handler holds
\* the mutex QueueFrame waits for only now and then, so the wait ends although the
\* connection may be lost again and again (SF).  Nothing is said of the network: a
\* lost connection may stay lost.
Fairness ==
  /\ WF_vars(ProcessTasks) /\ SF_vars(QueueFrame)
  /\ WF_vars(\E k \in 1 .. Len(requests) : ExpireTask(k))
  /\ \A i \in Handlers :
       /\ WF_vars(i \in DOMAIN clients /\ (ClearVersionNotifier(i) \/ Cleared(i)))
       /\ WF_vars(\E n \in notifiers[i] : ClearNotifier(i, n))
       /\ WF_vars(\E n \in notifiers[i] : CheckTimeouts(i, n))

FairSpec == Spec /\ Fairness

\* As long as a server can be reached again, its handler connects again
\* (Quant tries in every cycle).
ReconnectSpec == FairSpec /\ \A i \in Handlers : WF_vars(i \in DOMAIN clients /\ Connect(i))

\* Every invocation is answered: SocketFrameHandler.h:164, a reply notifier is called
\* "when reply arrived or failure occurs".
EveryInvocationAnswered == \A t \in Tasks : t \in invoked ~> outcomes[t] # << >>
=============================================================================
