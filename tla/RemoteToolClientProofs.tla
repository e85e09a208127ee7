----------------------- MODULE RemoteToolClientProofs -----------------------
(***************************************************************************)
(* Proofs about RemoteToolClient, for any invocations, servers, tools and  *)
(* number of attempts: its types, that every invocation has exactly one    *)
(* holder and at most one answer, that only servers whose tools were       *)
(* accepted are used, that the balancer's counts are those of the tasks,   *)
(* that with one server results are those of their tasks, and that the     *)
(* client implements RemoteInvocation.                                     *)
(***************************************************************************)
EXTENDS RemoteToolClient, ToolBalancerProofs, FiniteSetTheorems

(***************************************************************************)
(* The tasks in the queue.  Each lemma is about one way the queue changes. *)
(***************************************************************************)
\* Nothing that decides who holds a task has changed.
LEMMA SameHolders ==
  ASSUME OneHolder, UNCHANGED <<requests, worker, notifiers, invoked, outcomes>>
  PROVE  OneHolder'
BY DEF OneHolder, QueuedOnce, AwaitedOnce, QueuedOrAwaited, NeverLost,
       AnsweredAtMostOnce, Live, Queued, Awaited, Waiting, InHand

\* The length of the queue, and what Live is.
LEMMA LiveRange ==
  ASSUME TypeOK, WorkerHoldsFront
  PROVE  /\ Len(requests) \in Nat
         /\ DOMAIN requests = 1 .. Len(requests)
         /\ Live \subseteq 1 .. Len(requests)
         /\ worker.pc = "sent" => Len(requests) > 0
         /\ \A k \in 1 .. Len(requests) : requests[k] \in Wraps
<1>1. requests \in Seq(Wraps) BY DEF TypeOK
<1>2. /\ Len(requests) \in Nat
      /\ DOMAIN requests = 1 .. Len(requests)
      /\ \A k \in 1 .. Len(requests) : requests[k] \in Wraps
  BY <1>1, LenProperties, ElementOfSeq
<1>3. worker.pc = "sent" => Len(requests) > 0
  BY <1>1, EmptySeq DEF WorkerHoldsFront, Idle
<1> QED BY <1>2, <1>3 DEF Live

\* A task that is not in the queue is put at its end.
LEMMA QueueAppended ==
  ASSUME TypeOK, WorkerHoldsFront, QueuedOnce, NEW w \in Wraps, ~Queued(w.task),
         requests' = Append(requests, w), worker' = worker
  PROVE  /\ requests' \in Seq(Wraps) /\ requests' # << >>
         /\ requests # << >> => Head(requests') = Head(requests)
         /\ QueuedOnce'
         /\ \A t \in Tasks : Queued(t)' <=> Queued(t) \/ t = w.task
<1> DEFINE n == Len(requests)
<1>1. requests \in Seq(Wraps) BY DEF TypeOK
<1>2. /\ n \in Nat
      /\ Live \subseteq 1 .. n
      /\ worker.pc = "sent" => n > 0
  BY LiveRange
<1>3. /\ requests' \in Seq(Wraps)
      /\ Len(requests') = n + 1
      /\ requests'[n + 1] = w
      /\ \A k \in 1 .. n : requests'[k] = requests[k]
  BY <1>1
<1>4. Live' = Live \cup {n + 1}
  BY <1>2, <1>3 DEF Live
<1>5. \A t \in Tasks : Queued(t)' <=> Queued(t) \/ t = w.task
  BY <1>2, <1>3, <1>4 DEF Queued
<1>6. \A k \in Live : requests[k].task # w.task
  BY DEF Queued
<1>7. QueuedOnce'
  <2>1. \A k \in Live' : IF k \in Live THEN requests'[k] = requests[k] ELSE requests'[k] = w
    BY <1>2, <1>3, <1>4
  <2>2. \A j \in Live' \ Live, k \in Live' \ Live : j = k
    BY <1>4
  <2> QED BY <1>6, <2>1, <2>2 DEF QueuedOnce
<1>8. /\ requests' # << >>
      /\ requests # << >> => Head(requests') = Head(requests)
  BY <1>1, <1>2, <1>3
<1> QED BY <1>3, <1>5, <1>7, <1>8

\* The front has been sent: it leaves the tasks that are queued.
LEMMA FrontSent ==
  ASSUME TypeOK, WorkerHoldsFront, QueuedOnce, worker.pc = "started",
         worker'.pc = "sent", requests' = requests
  PROVE  /\ Queued(worker.wrap.task)
         /\ QueuedOnce'
         /\ \A t \in Tasks : Queued(t)' <=> Queued(t) /\ t # worker.wrap.task
<1> DEFINE n == Len(requests)
<1>1. requests \in Seq(Wraps) /\ requests # << >> /\ requests[1] = worker.wrap
  BY DEF TypeOK, WorkerHoldsFront, Idle
<1>2. n \in Nat /\ n > 0
  BY <1>1, EmptySeq
<1>3. Live = 1 .. n /\ Live' = 2 .. n
  BY DEF Live
<1>4. \A k \in 2 .. n : requests[k].task # requests[1].task
  BY <1>2, <1>3 DEF QueuedOnce
<1>5. Live = Live' \cup {1} /\ 1 \notin Live'
  BY <1>2, <1>3
<1>6. \A k \in Live' : requests[k].task # worker.wrap.task
  BY <1>1, <1>3, <1>4
<1>7. QueuedOnce'
  BY <1>5 DEF QueuedOnce
<1>8. \A t \in Tasks : Queued(t)' <=> Queued(t) /\ t # worker.wrap.task
  BY <1>1, <1>5, <1>6 DEF Queued
<1> QED BY <1>1, <1>5, <1>7, <1>8 DEF Queued

\* The front that was sent is removed: the queued tasks stay the same.
LEMMA FrontPopped ==
  ASSUME TypeOK, WorkerHoldsFront, QueuedOnce, worker.pc = "sent", worker' = Idle,
         requests' = Tail(requests)
  PROVE  /\ requests' \in Seq(Wraps)
         /\ QueuedOnce'
         /\ \A t \in Tasks : Queued(t)' <=> Queued(t)
<1> DEFINE n == Len(requests)
<1>1. requests \in Seq(Wraps) /\ requests # << >>
  BY DEF TypeOK, WorkerHoldsFront, Idle
<1>2. n \in Nat /\ n > 0
  BY <1>1, EmptySeq
<1>3. /\ requests' \in Seq(Wraps)
      /\ Len(requests') = n - 1
      /\ \A k \in 1 .. n - 1 : requests'[k] = requests[k + 1]
  BY <1>1, HeadTailProperties
<1>4. Live = 2 .. n /\ Live' = 1 .. n - 1
  BY <1>3 DEF Live, Idle
<1>5. QueuedOnce'
  BY <1>2, <1>3, <1>4 DEF QueuedOnce
<1>6. \A k \in 2 .. n : k - 1 \in 1 .. n - 1 /\ requests'[k - 1] = requests[k]
  BY <1>2, <1>3
<1>7. \A k \in 1 .. n - 1 : k + 1 \in 2 .. n
  BY <1>2
<1>8. ASSUME NEW t \in Tasks PROVE Queued(t)' <=> Queued(t)
  <2>1. Queued(t)' => Queued(t) BY <1>3, <1>4, <1>7 DEF Queued
  <2>2. Queued(t) => Queued(t)' BY <1>4, <1>6 DEF Queued
  <2> QED BY <2>1, <2>2
<1> QED BY <1>3, <1>5, <1>8

\* The task at position k has expired: it leaves the queue.
LEMMA OneExpired ==
  ASSUME TypeOK, QueuedOnce, worker = Idle, worker' = worker,
         NEW k \in 1 .. Len(requests),
         requests' = SubSeq(requests, 1, k - 1) \o SubSeq(requests, k + 1, Len(requests))
  PROVE  /\ requests' \in Seq(Wraps)
         /\ QueuedOnce'
         /\ requests[k].task \in Tasks /\ Queued(requests[k].task)
         /\ \A t \in Tasks : Queued(t)' <=> Queued(t) /\ t # requests[k].task
<1> DEFINE m == Len(requests)
           before == SubSeq(requests, 1, k - 1)
           after == SubSeq(requests, k + 1, m)
<1>1. /\ m \in Nat /\ k \in 1 .. m
      /\ \A j \in 1 .. m : requests[j] \in Wraps
  BY LenProperties, ElementOfSeq DEF TypeOK
<1>2. /\ before \in Seq(Wraps) /\ Len(before) = k - 1
      /\ \A j \in 1 .. k - 1 : before[j] = requests[j]
  <2>1. \A j \in 1 .. k - 1 : requests[j] \in Wraps BY <1>1
  <2>2. /\ before \in Seq(Wraps)
        /\ Len(before) = IF 1 <= k - 1 THEN (k - 1) - 1 + 1 ELSE 0
        /\ \A j \in 1 .. (k - 1) - 1 + 1 : before[j] = requests[1 + j - 1]
    BY <1>1, <2>1, SubSeqProperties
  <2> QED BY <1>1, <2>2
<1>3. /\ after \in Seq(Wraps) /\ Len(after) = m - k
      /\ \A j \in 1 .. m - k : after[j] = requests[j + k]
  <2>1. \A j \in k + 1 .. m : requests[j] \in Wraps BY <1>1
  <2>2. /\ after \in Seq(Wraps)
        /\ Len(after) = IF k + 1 <= m THEN m - (k + 1) + 1 ELSE 0
        /\ \A j \in 1 .. m - (k + 1) + 1 : after[j] = requests[(k + 1) + j - 1]
    BY <1>1, <2>1, SubSeqProperties
  <2> QED BY <1>1, <2>2
<1>4. requests' = before \o after OBVIOUS
<1> HIDE DEF before, after, m
<1>5. /\ requests' \in Seq(Wraps) /\ Len(requests') = m - 1
      /\ \A j \in 1 .. m - 1 : requests'[j] = IF j < k THEN requests[j] ELSE requests[j + 1]
  <2>1. /\ requests' \in Seq(Wraps)
        /\ Len(requests') = Len(before) + Len(after)
        /\ \A j \in 1 .. Len(before) + Len(after) :
             requests'[j] = IF j <= Len(before) THEN before[j] ELSE after[j - Len(before)]
    <3>1. before \in Seq(Wraps) /\ after \in Seq(Wraps) BY <1>2, <1>3
    <3>2. /\ before \o after \in Seq(Wraps)
          /\ Len(before \o after) = Len(before) + Len(after)
          /\ \A j \in 1 .. Len(before) + Len(after) : (before \o after)[j] =
                IF j <= Len(before) THEN before[j] ELSE after[j - Len(before)]
      BY <3>1, ConcatProperties
    <3> QED BY <1>4, <3>2, Zenon
  <2>2. Len(before) + Len(after) = m - 1 BY <1>1, <1>2, <1>3
  <2>3. ASSUME NEW j \in 1 .. m - 1
        PROVE  requests'[j] = IF j < k THEN requests[j] ELSE requests[j + 1]
    <3>1. requests'[j] = IF j <= k - 1 THEN before[j] ELSE after[j - (k - 1)]
      BY <1>2, <2>1, <2>2
    <3>2. CASE j < k
      <4>1. j \in 1 .. k - 1 /\ j <= k - 1 BY <1>1, <3>2
      <4> QED BY <1>2, <3>1, <3>2, <4>1
    <3>3. CASE ~(j < k)
      <4>1. /\ j - (k - 1) \in 1 .. m - k /\ ~(j <= k - 1)
            /\ (j - (k - 1)) + k = j + 1
        BY <1>1, <3>3
      <4> QED BY <1>3, <3>1, <3>3, <4>1
    <3> QED BY <3>2, <3>3
  <2> QED BY <2>1, <2>2, <2>3
<1>6. Live = 1 .. m /\ Live' = 1 .. m - 1
  BY <1>5 DEF Live, Idle, m
<1>7. \A i, j \in 1 .. m : requests[i].task = requests[j].task => i = j
  BY <1>6 DEF QueuedOnce
<1> DEFINE old(j) == IF j < k THEN j ELSE j + 1
<1>8. ASSUME NEW j \in 1 .. m - 1
      PROVE  old(j) \in 1 .. m /\ old(j) # k /\ requests'[j] = requests[old(j)]
  <2>1. requests'[j] = IF j < k THEN requests[j] ELSE requests[j + 1] BY <1>5
  <2>2. j \in 1 .. m /\ j + 1 \in 1 .. m BY <1>1
  <2>3. j < k => j # k BY <1>1
  <2>4. ~(j < k) => j + 1 # k BY <1>1
  <2> QED BY <2>1, <2>2, <2>3, <2>4
<1>a. ASSUME NEW i \in 1 .. m - 1, NEW j \in 1 .. m - 1, old(i) = old(j)
      PROVE  i = j
  BY <1>1, <1>a
<1> HIDE DEF old
<1>b. QueuedOnce'
  <2> SUFFICES ASSUME NEW i \in 1 .. m - 1, NEW j \in 1 .. m - 1,
                      requests'[i].task = requests'[j].task
               PROVE  i = j
    BY <1>6 DEF QueuedOnce
  <2>1. /\ old(i) \in 1 .. m /\ old(j) \in 1 .. m
        /\ requests[old(i)].task = requests[old(j)].task
    BY <1>8
  <2>2. old(i) = old(j) BY <1>7, <2>1
  <2> QED BY <1>a, <2>2
<1>c. requests[k].task \in Tasks /\ Queued(requests[k].task)
  BY <1>1, <1>6 DEF Queued, Wraps
<1>d. ASSUME NEW t \in Tasks PROVE Queued(t)' <=> Queued(t) /\ t # requests[k].task
  <2>1. ASSUME Queued(t)' PROVE Queued(t) /\ t # requests[k].task
    <3>1. PICK j \in 1 .. m - 1 : requests'[j].task = t BY <1>6, <2>1 DEF Queued
    <3>2. requests[old(j)].task = t /\ old(j) \in 1 .. m /\ old(j) # k BY <1>8, <3>1
    <3> QED BY <1>1, <1>6, <1>7, <3>2 DEF Queued
  <2>2. ASSUME Queued(t), t # requests[k].task PROVE Queued(t)'
    <3>1. PICK i \in 1 .. m : requests[i].task = t BY <1>6, <2>2 DEF Queued
    <3>2. CASE i < k
      <4>1. i \in 1 .. m - 1 BY <1>1, <3>2
      <4>2. requests'[i] = requests[i] BY <1>5, <3>2, <4>1
      <4> QED BY <1>6, <3>1, <4>1, <4>2 DEF Queued
    <3>3. CASE i > k
      <4>1. i - 1 \in 1 .. m - 1 /\ ~(i - 1 < k) /\ (i - 1) + 1 = i BY <1>1, <3>3
      <4>2. requests'[i - 1] = requests[i] BY <1>5, <4>1
      <4> QED BY <1>6, <3>1, <4>1, <4>2 DEF Queued
    <3>4. i # k BY <2>2, <3>1
    <3> QED BY <1>1, <3>2, <3>3, <3>4
  <2> QED BY <2>1, <2>2
<1> QED BY <1>5, <1>b, <1>c, <1>d

(***************************************************************************)
(* The tasks that are awaited.                                             *)
(***************************************************************************)
\* A notifier is taken off a handler: its task, and no other, is not awaited any more.
LEMMA NotifierTaken ==
  ASSUME TypeOK, AwaitedOnce, NEW i \in Handlers, NEW n \in notifiers[i],
         notifiers' = [notifiers EXCEPT ![i] = @ \ {n}]
  PROVE  /\ n.wrap \in Wraps /\ n.wrap.task \in Tasks
         /\ Awaited(n.wrap.task)
         /\ AwaitedOnce'
         /\ \A t \in Tasks : Awaited(t)' <=> Awaited(t) /\ t # n.wrap.task
<1>1. /\ notifiers \in [Handlers -> SUBSET [transaction : Nat, wrap : Wraps]]
      /\ n.wrap \in Wraps
      /\ n.wrap.task \in Tasks
  BY DEF TypeOK, Wraps
<1>2. \A j \in Handlers : notifiers'[j] = IF j = i THEN notifiers[i] \ {n} ELSE notifiers[j]
  BY <1>1
<1>3. \A j \in Handlers : \A m \in notifiers'[j] :
        m \in notifiers[j] /\ m.wrap.task # n.wrap.task
  BY <1>2 DEF AwaitedOnce
<1>4. \A j \in Handlers : \A m \in notifiers[j] :
        m.wrap.task # n.wrap.task => m \in notifiers'[j]
  BY <1>2
<1>5. AwaitedOnce'
  BY <1>3 DEF AwaitedOnce
<1>6. ASSUME NEW t \in Tasks PROVE Awaited(t)' <=> Awaited(t) /\ t # n.wrap.task
  <2>1. Awaited(t)' => Awaited(t) /\ t # n.wrap.task BY <1>3 DEF Awaited, Waiting
  <2>2. Awaited(t) /\ t # n.wrap.task => Awaited(t)' BY <1>4 DEF Awaited, Waiting
  <2> QED BY <2>1, <2>2
<1> QED BY <1>1, <1>5, <1>6 DEF Awaited, Waiting

\* A notifier is registered for a task that nobody waits for.
LEMMA NotifierAdded ==
  ASSUME TypeOK, AwaitedOnce, NEW i \in Handlers, NEW n, ~Awaited(n.wrap.task),
         notifiers' = [notifiers EXCEPT ![i] = @ \cup {n}]
  PROVE  /\ AwaitedOnce'
         /\ \A t \in Tasks : Awaited(t)' <=> Awaited(t) \/ t = n.wrap.task
<1>1. notifiers \in [Handlers -> SUBSET [transaction : Nat, wrap : Wraps]]
  BY DEF TypeOK
<1>2. \A j \in Handlers :
        notifiers'[j] = IF j = i THEN notifiers[i] \cup {n} ELSE notifiers[j]
  BY <1>1
<1>3. \A j \in Handlers : \A m \in notifiers[j] : m.wrap.task # n.wrap.task
  BY DEF Awaited, Waiting
<1>4. \A j \in Handlers : \A m \in notifiers'[j] :
        m \in notifiers[j] \/ (m = n /\ j = i)
  BY <1>2
<1>5. AwaitedOnce'
  BY <1>3, <1>4 DEF AwaitedOnce
<1>6. ASSUME NEW t \in Tasks PROVE Awaited(t)' <=> Awaited(t) \/ t = n.wrap.task
  <2>1. Awaited(t)' => Awaited(t) \/ t = n.wrap.task BY <1>4 DEF Awaited, Waiting
  <2>2. Awaited(t) \/ t = n.wrap.task => Awaited(t)' BY <1>2 DEF Awaited, Waiting
  <2> QED BY <2>1, <2>2
<1> QED BY <1>5, <1>6

(***************************************************************************)
(* The callbacks.                                                          *)
(***************************************************************************)
\* What Callback does to the history of answers.
LEMMA CallbackStep ==
  ASSUME TypeOK, NEW t \in Tasks, NEW o \in Outcomes, Callback(t, o)
  PROVE  /\ outcomes' \in [Tasks -> Seq(Outcomes)]
         /\ outcomes[t] = << >> => Len(outcomes'[t]) = 1
         /\ outcomes'[t] # << >>
         /\ \A u \in Tasks \ {t} : outcomes'[u] = outcomes[u]
<1>1. outcomes \in [Tasks -> Seq(Outcomes)] BY DEF TypeOK
<1>2. /\ Append(outcomes[t], o) \in Seq(Outcomes)
      /\ Len(Append(outcomes[t], o)) = Len(outcomes[t]) + 1
      /\ Append(outcomes[t], o) # << >>
  BY <1>1
<1>3. outcomes' = [outcomes EXCEPT ![t] = Append(outcomes[t], o)]
  BY DEF Callback
<1> QED BY <1>1, <1>2, <1>3, EmptySeq

\* The request of a notifier ends with the callback of its task.
LEMMA AnswerStep ==
  ASSUME Inv, NEW i \in Handlers, NEW n \in notifiers[i],
         notifiers' = [notifiers EXCEPT ![i] = @ \ {n}],
         NEW o \in Outcomes, Callback(n.wrap.task, o),
         UNCHANGED <<requests, worker, invoked>>
  PROVE  outcomes' \in [Tasks -> Seq(Outcomes)] /\ OneHolder'
<1> DEFINE t == n.wrap.task
<1>1. /\ TypeOK /\ WorkerHoldsFront
      /\ QueuedOnce /\ AwaitedOnce /\ QueuedOrAwaited /\ NeverLost /\ AnsweredAtMostOnce
  BY DEF Inv, OneHolder
<1>2. /\ t \in Tasks /\ Awaited(t)
      /\ AwaitedOnce'
      /\ \A u \in Tasks : Awaited(u)' <=> Awaited(u) /\ u # t
  BY <1>1, NotifierTaken
<1>3. ~Queued(t) /\ t \in invoked /\ outcomes[t] = << >>
  BY <1>1, <1>2 DEF QueuedOrAwaited, NeverLost, InHand
<1>4. /\ outcomes' \in [Tasks -> Seq(Outcomes)]
      /\ Len(outcomes'[t]) = 1
      /\ outcomes'[t] # << >>
      /\ \A u \in Tasks \ {t} : outcomes'[u] = outcomes[u]
  BY <1>1, <1>2, <1>3, CallbackStep
<1>5. \A u \in Tasks : Queued(u)' <=> Queued(u)
  BY DEF Queued, Live
<1>6. QueuedOnce'
  BY <1>1 DEF QueuedOnce, Live
<1>7. QueuedOrAwaited'
  BY <1>1, <1>2, <1>5 DEF QueuedOrAwaited
<1>8. NeverLost'
  BY <1>1, <1>2, <1>3, <1>4, <1>5 DEF NeverLost, InHand
<1>9. AnsweredAtMostOnce'
  <2> SUFFICES ASSUME NEW u \in Tasks
               PROVE  Len(outcomes'[u]) <= 1 /\ (u \notin invoked' => outcomes'[u] = << >>)
    BY DEF AnsweredAtMostOnce
  <2>1. CASE u = t
    <3>1. Len(outcomes'[u]) = 1 /\ u \in invoked' BY <1>3, <1>4, <2>1
    <3> QED BY <3>1
  <2>2. CASE u # t
    <3>1. outcomes'[u] = outcomes[u] BY <1>4, <2>2
    <3> QED BY <1>1, <3>1 DEF AnsweredAtMostOnce
  <2> QED BY <2>1, <2>2
<1> QED BY <1>2, <1>4, <1>6, <1>7, <1>8, <1>9 DEF OneHolder

\* The request of a notifier ends in failure: the task goes back to the queue or its
\* callback is called.
LEMMA FailureStep ==
  ASSUME Inv, NEW i \in Handlers, NEW n \in notifiers[i],
         notifiers' = [notifiers EXCEPT ![i] = @ \ {n}],
         FrameFailed(i, n.wrap), UNCHANGED <<worker, invoked>>
  PROVE  /\ requests' \in Seq(Wraps)
         /\ requests # << >> => requests' # << >> /\ Head(requests') = Head(requests)
         /\ pendingTasks' \in Int
         /\ outcomes' \in [Tasks -> Seq(Outcomes)]
         /\ OneHolder'
<1> DEFINE t == n.wrap.task
           w == [n.wrap EXCEPT !.attemptsRemain = @ - 1]
<1>1. /\ TypeOK /\ WorkerHoldsFront
      /\ QueuedOnce /\ AwaitedOnce /\ QueuedOrAwaited /\ NeverLost /\ AnsweredAtMostOnce
  BY DEF Inv, OneHolder
<1>2. /\ n.wrap \in Wraps /\ t \in Tasks /\ Awaited(t)
      /\ AwaitedOnce'
      /\ \A u \in Tasks : Awaited(u)' <=> Awaited(u) /\ u # t
  BY <1>1, NotifierTaken
<1>3. /\ ~Queued(t) /\ InHand(t)
      /\ t \in invoked /\ outcomes[t] = << >>
  BY <1>1, <1>2 DEF QueuedOrAwaited, NeverLost, InHand
<1>4. /\ requests \in Seq(Wraps) /\ pendingTasks \in Int
      /\ outcomes \in [Tasks -> Seq(Outcomes)]
  BY <1>1 DEF TypeOK
<1>5. CASE CanRetry(n.wrap)
  <2>1. w \in Wraps /\ w.task = t
    BY <1>2, <1>5, ClientAssumption DEF CanRetry, Wraps
  <2>2. /\ requests' = Append(requests, w)
        /\ pendingTasks' = pendingTasks + 1
        /\ outcomes' = outcomes
    BY <1>5 DEF FrameFailed, QueueTask
  <2> HIDE DEF w
  <2>3. /\ requests' \in Seq(Wraps) /\ requests' # << >>
        /\ requests # << >> => Head(requests') = Head(requests)
        /\ QueuedOnce'
        /\ \A u \in Tasks : Queued(u)' <=> Queued(u) \/ u = t
    BY <1>1, <1>3, <2>1, <2>2, QueueAppended
  <2>4. QueuedOrAwaited'
    BY <1>1, <1>2, <2>3 DEF QueuedOrAwaited
  <2>5. NeverLost'
    <3>1. \A u \in Tasks : InHand(u)' <=> InHand(u) BY <2>2 DEF InHand
    <3> QED BY <1>1, <1>2, <1>3, <2>3, <3>1 DEF NeverLost
  <2>6. AnsweredAtMostOnce'
    BY <1>1, <2>2 DEF AnsweredAtMostOnce
  <2> QED BY <1>2, <1>4, <2>2, <2>3, <2>4, <2>5, <2>6 DEF OneHolder
<1>6. CASE ~CanRetry(n.wrap)
  <2>1. Callback(t, "failed") /\ UNCHANGED <<requests, pendingTasks>>
    BY <1>6 DEF FrameFailed
  <2>2. outcomes' \in [Tasks -> Seq(Outcomes)] /\ OneHolder'
    BY <2>1, AnswerStep DEF Outcomes
  <2> QED BY <1>4, <2>1, <2>2
<1> QED BY <1>5, <1>6

(***************************************************************************)
(* The other parts of the invariant.                                       *)
(***************************************************************************)
\* Steps that leave the worker and the server's version requests alone, take nothing
\* off the front of the queue and register no notifier.
LEMMA SameWorker ==
  ASSUME Inv, DOMAIN clients' = DOMAIN clients,
         \A j \in DOMAIN clients : clients'[j].compatible = clients[j].compatible,
         worker' = worker,
         requests # << >> => requests' # << >> /\ Head(requests') = Head(requests),
         versionNotifier' = versionNotifier,
         \A j \in Handlers : notifiers'[j] \subseteq notifiers[j]
  PROVE  WorkerHoldsFront' /\ CompatibleOnceChecked'
<1>1. worker # Idle => worker \in Busy BY DEF Inv, TypeOK
<1>2. WorkerHoldsFront' BY DEF Inv, WorkerHoldsFront
<1>3. worker.pc \in {"found", "started"} =>
        worker.index \in DOMAIN clients /\ clients[worker.index].compatible
  BY <1>1 DEF Inv, WorkerHoldsFront, CompatibleOnceChecked, Idle
<1>4. CompatibleOnceChecked'
  BY <1>3 DEF Inv, CompatibleOnceChecked
<1> QED BY <1>2, <1>4

\* The balancer does not change.
LEMMA SameClients ==
  ASSUME ClientsInv, UNCHANGED clients
  PROVE  ClientsInv'
BY DEF ClientsInv, ClientsTypeOK, LoadsFresh, LoadFresh, ServersKnownOnce

\* The availability flag is only ever set.
LEMMA AvailableCheckType == AvailableCheck => remoteAvailable' \in BOOLEAN
BY DEF AvailableCheck

(***************************************************************************)
(* The steps.                                                              *)
(***************************************************************************)
LEMMA InitInv == Init => Inv
<1> SUFFICES ASSUME Init PROVE Inv OBVIOUS
<1>1. ClientsInv BY ClientsInvInit DEF Init
<1>2. clients = << >> BY DEF Init, BalancerInit
<1>3. TypeOK
  <2>1. pendingTasks \in Int BY DEF Init
  <2>2. worker \in {Idle} \cup Busy /\ requests \in Seq(Wraps) BY DEF Init
  <2>3. /\ outcomes \in [Tasks -> Seq(Outcomes)]
        /\ framesQueueOutput \in [Handlers -> Seq(Frames)]
        /\ outputSegments \in [Handlers -> Seq([frame : Frames, transaction : Nat])]
    BY DEF Init
  <2>4. conn \in [Handlers -> {"Pending", "Ok", "Closing", "Failed"}] BY DEF Init
  <2>5. /\ frameTransaction \in [Tasks -> Nat]
        /\ transaction \in [Handlers -> Nat]
        /\ versionNotifier \in [Handlers -> BOOLEAN]
    BY DEF Init
  <2>6. notifiers \in [Handlers -> SUBSET [transaction : Nat, wrap : Wraps]] BY DEF Init
  <2>7. invoked \in SUBSET Tasks /\ remoteAvailable \in BOOLEAN BY DEF Init
  <2> QED BY <2>1, <2>2, <2>3, <2>4, <2>5, <2>6, <2>7 DEF TypeOK
<1>4. WorkerHoldsFront /\ CompatibleOnceChecked
  BY <1>2 DEF Init, WorkerHoldsFront, CompatibleOnceChecked, Idle
<1>5. Live = {} BY DEF Init, Live, Idle
<1>6. \A t \in Tasks : ~Queued(t) /\ ~Awaited(t) /\ outcomes[t] = << >> /\ t \notin invoked
  BY <1>5 DEF Init, Queued, Awaited, Waiting
<1>7. OneHolder
  BY <1>5, <1>6 DEF Init, OneHolder, QueuedOnce, AwaitedOnce, QueuedOrAwaited,
                    NeverLost, InHand, AnsweredAtMostOnce
<1> QED BY <1>1, <1>2, <1>3, <1>4, <1>7 DEF Inv, ClientsInv

\* A new invocation enters the queue, or is answered at once.
LEMMA InvokeToolInv == ASSUME Inv, NEW t \in Tasks, InvokeTool(t) PROVE Inv'
<1>1. /\ ClientsInv /\ TypeOK /\ WorkerHoldsFront
      /\ QueuedOnce /\ AwaitedOnce /\ QueuedOrAwaited /\ NeverLost /\ AnsweredAtMostOnce
  BY DEF Inv, ClientsInv, OneHolder
<1>2. ClientsInv' /\ DOMAIN clients' \subseteq Handlers
  BY <1>1, SameClients DEF InvokeTool, balancerVars, Inv
<1>3. /\ t \notin invoked /\ invoked' = invoked \cup {t}
      /\ UNCHANGED <<balancerVars, worker, frameVars, notifyVars, remoteAvailable,
                     frameTransaction, conn>>
  BY DEF InvokeTool
<1>4. ~Queued(t) /\ ~Awaited(t)
  BY <1>1, <1>3 DEF NeverLost, InHand
<1>5. \A u \in Tasks : Awaited(u)' <=> Awaited(u)
  BY <1>3 DEF Awaited, Waiting, notifyVars
<1>6. AwaitedOnce'
  BY <1>1, <1>3 DEF AwaitedOnce, notifyVars
<1>7. outcomes \in [Tasks -> Seq(Outcomes)] BY <1>1 DEF TypeOK
<1>8. CASE Callback(t, "unreadable") /\ UNCHANGED <<requests, pendingTasks>>
  <2>1. /\ outcomes' \in [Tasks -> Seq(Outcomes)]
        /\ outcomes'[t] # << >>
        /\ outcomes[t] = << >> => Len(outcomes'[t]) = 1
        /\ \A u \in Tasks \ {t} : outcomes'[u] = outcomes[u]
    BY <1>1, <1>8, CallbackStep DEF Outcomes
  <2>2. TypeOK'
    BY <1>1, <1>3, <1>8, <2>1 DEF TypeOK, frameVars, notifyVars
  <2>3. WorkerHoldsFront' /\ CompatibleOnceChecked'
    BY <1>3, <1>8, SameWorker DEF balancerVars, notifyVars
  <2>4. \A u \in Tasks : Queued(u)' <=> Queued(u)
    BY <1>3, <1>8 DEF Queued, Live
  <2>5. QueuedOnce'
    BY <1>1, <1>3, <1>8 DEF QueuedOnce, Live
  <2>6. QueuedOrAwaited' BY <1>1, <1>5, <2>4 DEF QueuedOrAwaited
  <2>7. NeverLost'
    BY <1>1, <1>3, <1>4, <1>5, <2>1, <2>4 DEF NeverLost, InHand
  <2>8. AnsweredAtMostOnce'
    <3> SUFFICES ASSUME NEW u \in Tasks
                 PROVE  Len(outcomes'[u]) <= 1 /\ (u \notin invoked' => outcomes'[u] = << >>)
      BY DEF AnsweredAtMostOnce
    <3>1. CASE u = t
      <4>1. outcomes[t] = << >> BY <1>1, <1>3 DEF AnsweredAtMostOnce
      <4>2. Len(outcomes'[u]) = 1 /\ u \in invoked' BY <1>3, <2>1, <3>1, <4>1
      <4> QED BY <4>2
    <3>2. CASE u # t
      <4>1. outcomes'[u] = outcomes[u] BY <2>1, <3>2
      <4> QED BY <1>1, <1>3, <3>2, <4>1 DEF AnsweredAtMostOnce
    <3> QED BY <3>1, <3>2
  <2> QED BY <1>2, <1>6, <2>2, <2>3, <2>5, <2>6, <2>7, <2>8 DEF Inv, ClientsInv, OneHolder
<1>9. CASE QueueTask([task |-> t, attemptsRemain |-> InvocationAttempts]) /\ UNCHANGED outcomes
  <2> DEFINE w == [task |-> t, attemptsRemain |-> InvocationAttempts]
  <2>1. w \in Wraps /\ w.task = t BY ClientAssumption DEF Wraps
  <2>2. requests' = Append(requests, w) /\ pendingTasks' = pendingTasks + 1
    BY <1>9 DEF QueueTask
  <2> HIDE DEF w
  <2>3. /\ requests' \in Seq(Wraps) /\ requests' # << >>
        /\ requests # << >> => Head(requests') = Head(requests)
        /\ QueuedOnce'
        /\ \A u \in Tasks : Queued(u)' <=> Queued(u) \/ u = t
    BY <1>1, <1>3, <1>4, <2>1, <2>2, QueueAppended
  <2>4. TypeOK'
    <3>1. pendingTasks' \in Int BY <1>1, <2>2 DEF TypeOK
    <3> QED BY <1>1, <1>3, <1>9, <2>3, <3>1 DEF TypeOK, frameVars, notifyVars
  <2>5. WorkerHoldsFront' /\ CompatibleOnceChecked'
    BY <1>3, <2>3, SameWorker DEF balancerVars, notifyVars
  <2>6. QueuedOrAwaited' BY <1>1, <1>4, <1>5, <2>3 DEF QueuedOrAwaited
  <2>7. NeverLost'
    <3>1. outcomes[t] = << >> BY <1>1, <1>3 DEF AnsweredAtMostOnce
    <3> QED BY <1>1, <1>3, <1>4, <1>5, <1>9, <2>3, <3>1 DEF NeverLost, InHand
  <2>8. AnsweredAtMostOnce' BY <1>1, <1>3, <1>9 DEF AnsweredAtMostOnce
  <2> QED BY <1>2, <1>6, <2>3, <2>4, <2>5, <2>6, <2>7, <2>8 DEF Inv, ClientsInv, OneHolder
<1> QED BY <1>8, <1>9 DEF InvokeTool

\* An expired task leaves the queue and is answered.
LEMMA ExpireTaskInv ==
  ASSUME Inv, NEW k \in 1 .. Len(requests), ExpireTask(k) PROVE Inv'
<1> DEFINE t == requests[k].task
<1>1. /\ ClientsInv /\ TypeOK
      /\ QueuedOnce /\ AwaitedOnce /\ QueuedOrAwaited /\ NeverLost /\ AnsweredAtMostOnce
  BY DEF Inv, ClientsInv, OneHolder
<1>2. /\ worker = Idle
      /\ requests' = SubSeq(requests, 1, k - 1) \o SubSeq(requests, k + 1, Len(requests))
      /\ Callback(t, "expired")
      /\ UNCHANGED <<balancerVars, pendingTasks, worker, invoked, frameVars,
                     notifyVars, remoteAvailable, frameTransaction, conn>>
  BY DEF ExpireTask
<1>3. /\ requests' \in Seq(Wraps) /\ QueuedOnce'
      /\ t \in Tasks /\ Queued(t)
      /\ \A u \in Tasks : Queued(u)' <=> Queued(u) /\ u # t
  BY <1>1, <1>2, OneExpired
<1> HIDE DEF t
<1>4. outcomes[t] = << >> /\ t \in invoked /\ ~Awaited(t)
  BY <1>1, <1>3 DEF NeverLost, InHand, QueuedOrAwaited
<1>5. /\ outcomes' \in [Tasks -> Seq(Outcomes)]
      /\ Len(outcomes'[t]) = 1 /\ outcomes'[t] # << >>
      /\ \A u \in Tasks \ {t} : outcomes'[u] = outcomes[u]
  BY <1>1, <1>2, <1>3, <1>4, CallbackStep DEF Outcomes
<1>6. TypeOK'
  BY <1>1, <1>2, <1>3, <1>5 DEF TypeOK, frameVars, notifyVars
<1>7. /\ ClientsInv' /\ DOMAIN clients' \subseteq Handlers
      /\ WorkerHoldsFront' /\ CompatibleOnceChecked'
  <2>1. clients' = clients /\ versionNotifier' = versionNotifier /\ notifiers' = notifiers
    BY <1>2 DEF balancerVars, notifyVars
  <2>2. WorkerHoldsFront' BY <1>2 DEF WorkerHoldsFront
  <2> QED BY <1>1, <1>2, <2>1, <2>2, SameClients DEF Inv, CompatibleOnceChecked
<1>8. /\ AwaitedOnce'
      /\ \A u \in Tasks : Awaited(u)' <=> Awaited(u)
  BY <1>1, <1>2 DEF AwaitedOnce, Awaited, Waiting, notifyVars
<1>9. QueuedOrAwaited' BY <1>1, <1>3, <1>8 DEF QueuedOrAwaited
<1>10. NeverLost'
  BY <1>1, <1>2, <1>3, <1>4, <1>5, <1>8 DEF NeverLost, InHand
<1>11. AnsweredAtMostOnce'
  <2> SUFFICES ASSUME NEW u \in Tasks
               PROVE  Len(outcomes'[u]) <= 1 /\ (u \notin invoked' => outcomes'[u] = << >>)
    BY DEF AnsweredAtMostOnce
  <2>1. CASE u = t
    <3>1. Len(outcomes'[u]) = 1 /\ u \in invoked' BY <1>2, <1>4, <1>5, <2>1
    <3> QED BY <3>1
  <2>2. CASE u # t
    <3>1. outcomes'[u] = outcomes[u] BY <1>5, <2>2
    <3> QED BY <1>1, <1>2, <3>1 DEF AnsweredAtMostOnce
  <2> QED BY <2>1, <2>2
<1> QED BY <1>3, <1>6, <1>7, <1>8, <1>9, <1>10, <1>11 DEF Inv, ClientsInv, OneHolder

\* The thread copies the front and finds a server.
LEMMA PickTaskInv == ASSUME Inv, PickTask PROVE Inv'
<1> DEFINE wrap == Head(requests)
           i == FindFreeClient(ToolOf[wrap.task])
<1>1. ClientsInv /\ TypeOK /\ OneHolder /\ DOMAIN clients \subseteq Handlers
  BY DEF Inv, ClientsInv
<1>2. /\ worker = Idle /\ requests # << >> /\ i # NoClient
      /\ worker' = [pc |-> "found", wrap |-> wrap, index |-> i]
      /\ UNCHANGED <<balancerVars, requests, pendingTasks, callerVars, frameVars,
                     notifyVars, remoteAvailable, frameTransaction, conn>>
  BY DEF PickTask
<1>3. i \in DOMAIN clients /\ clients[i].compatible
  <2>1. Candidates(ToolOf[wrap.task]) # {} BY <1>2 DEF FindFreeClient
  <2>2. i \in Candidates(ToolOf[wrap.task])
    BY <1>1, <2>1, FindFreeClientLeast DEF ClientsInv
  <2> QED BY <2>2 DEF Candidates, Usable
<1>4. wrap \in Wraps BY <1>1, <1>2, HeadTailProperties DEF TypeOK
<1> HIDE DEF wrap, i
<1>5. /\ worker' \in Busy /\ worker'.pc = "found"
      /\ worker'.wrap = wrap /\ worker'.index = i
  BY <1>1, <1>2, <1>3, <1>4 DEF Busy
<1>6. TypeOK'
  BY <1>1, <1>2, <1>5 DEF TypeOK, callerVars, frameVars, notifyVars
<1>7. WorkerHoldsFront'
  BY <1>2, <1>3, <1>5 DEF WorkerHoldsFront, balancerVars, wrap
<1>8. CompatibleOnceChecked'
  BY <1>2, <1>3, <1>5 DEF Inv, CompatibleOnceChecked, balancerVars, notifyVars
<1>9. OneHolder'
  <2>1. worker.pc # "sent" /\ worker'.pc # "sent" BY <1>2, <1>5 DEF Idle
  <2>2. Live' = Live BY <1>2, <2>1 DEF Live
  <2> QED BY <1>1, <1>2, <2>2 DEF OneHolder, QueuedOnce, AwaitedOnce, QueuedOrAwaited,
        NeverLost, AnsweredAtMostOnce, Queued, Awaited, Waiting, InHand, callerVars, notifyVars
<1> QED BY <1>1, <1>2, <1>6, <1>7, <1>8, <1>9, SameClients DEF Inv, ClientsInv, balancerVars

\* The server is charged with the task.
LEMMA CountTaskInv == ASSUME Inv, CountTask PROVE Inv'
<1>1. ClientsInv /\ TypeOK /\ OneHolder /\ DOMAIN clients \subseteq Handlers
  BY DEF Inv, ClientsInv
<1>2. /\ worker.pc = "found" /\ StartTask(worker.index)
      /\ pendingTasks' = pendingTasks - 1
      /\ worker' = [worker EXCEPT !.pc = "started"]
      /\ UNCHANGED <<requests, callerVars, frameVars, notifyVars, remoteAvailable,
                     frameTransaction, conn>>
  BY DEF CountTask
<1>3. worker # Idle /\ worker \in Busy BY <1>1, <1>2 DEF TypeOK, Idle
<1>4. /\ worker' \in Busy /\ worker'.pc = "started"
      /\ worker'.wrap = worker.wrap /\ worker'.index = worker.index
  BY <1>2, <1>3 DEF Busy
<1>5. /\ requests # << >> /\ Head(requests) = worker.wrap
      /\ worker.index \in DOMAIN clients /\ clients[worker.index].compatible
  BY <1>2, <1>3 DEF Inv, WorkerHoldsFront, CompatibleOnceChecked
<1>6. /\ ClientsInv' /\ DOMAIN clients' = DOMAIN clients
      /\ \A j \in DOMAIN clients : clients'[j].compatible = clients[j].compatible
  BY <1>1, <1>2, <1>5, StartTaskStep
<1>7. TypeOK'
  <2>1. pendingTasks' \in Int BY <1>1, <1>2 DEF TypeOK
  <2> QED BY <1>1, <1>2, <1>4, <2>1 DEF TypeOK, callerVars, frameVars, notifyVars
<1>8. WorkerHoldsFront'
  BY <1>2, <1>4, <1>5, <1>6 DEF WorkerHoldsFront
<1>9. CompatibleOnceChecked'
  BY <1>2, <1>4, <1>5, <1>6 DEF Inv, CompatibleOnceChecked, notifyVars
<1>10. OneHolder'
  <2>1. Live' = Live BY <1>2, <1>4 DEF Live
  <2> QED BY <1>1, <1>2, <2>1 DEF OneHolder, QueuedOnce, AwaitedOnce, QueuedOrAwaited,
        NeverLost, AnsweredAtMostOnce, Queued, Awaited, Waiting, InHand, callerVars, notifyVars
<1> QED BY <1>1, <1>6, <1>7, <1>8, <1>9, <1>10 DEF Inv, ClientsInv

\* The front passes from the queue to a notifier.
LEMMA QueueFrameInv == ASSUME Inv, QueueFrame PROVE Inv'
<1> DEFINE i == worker.index
           t == worker.wrap.task
           n == [transaction |-> transaction[i], wrap |-> worker.wrap]
<1>1. /\ ClientsInv /\ TypeOK /\ WorkerHoldsFront
      /\ QueuedOnce /\ AwaitedOnce /\ QueuedOrAwaited /\ NeverLost /\ AnsweredAtMostOnce
      /\ DOMAIN clients \subseteq Handlers
  BY DEF Inv, ClientsInv, OneHolder
<1>2. /\ worker.pc = "started"
      /\ frameTransaction' = [frameTransaction EXCEPT ![t] = transaction[i]]
      /\ transaction' = [transaction EXCEPT ![i] = @ + 1]
      /\ notifiers' = [notifiers EXCEPT ![i] = @ \cup {n}]
      /\ framesQueueOutput' = [framesQueueOutput EXCEPT ![i] = Append(@, t)]
      /\ worker' = [worker EXCEPT !.pc = "sent"]
      /\ UNCHANGED <<balancerVars, requests, pendingTasks, callerVars,
                     outputSegments, server, versionNotifier, remoteAvailable, conn>>
  BY DEF QueueFrame
<1>3. worker # Idle /\ worker \in Busy BY <1>1, <1>2 DEF TypeOK, Idle
<1>4. /\ worker' \in Busy /\ worker'.pc = "sent"
      /\ worker'.wrap = worker.wrap /\ worker'.index = i
      /\ i \in Handlers /\ worker.wrap \in Wraps /\ t \in Tasks
  BY <1>2, <1>3 DEF Busy, Wraps
<1>5. /\ requests # << >> /\ Head(requests) = worker.wrap
      /\ i \in DOMAIN clients /\ clients[i].compatible
  BY <1>2, <1>3 DEF Inv, WorkerHoldsFront, CompatibleOnceChecked
<1>6. n.wrap = worker.wrap /\ n \in [transaction : Nat, wrap : Wraps]
  BY <1>1, <1>4 DEF TypeOK
<1> HIDE DEF n
<1>7. /\ Queued(t) /\ QueuedOnce'
      /\ \A u \in Tasks : Queued(u)' <=> Queued(u) /\ u # t
  BY <1>1, <1>2, <1>4, FrontSent
<1>8. ~Awaited(t) BY <1>1, <1>4, <1>7 DEF QueuedOrAwaited
<1>9. /\ AwaitedOnce'
      /\ \A u \in Tasks : Awaited(u)' <=> Awaited(u) \/ u = t
  BY <1>1, <1>2, <1>4, <1>6, <1>8, NotifierAdded
<1>10. TypeOK'
  <2>1. /\ frameTransaction' \in [Tasks -> Nat]
        /\ transaction' \in [Handlers -> Nat]
    BY <1>1, <1>2, <1>4 DEF TypeOK
  <2>2. notifiers' \in [Handlers -> SUBSET [transaction : Nat, wrap : Wraps]]
    BY <1>1, <1>2, <1>4, <1>6 DEF TypeOK
  <2>3. framesQueueOutput' \in [Handlers -> Seq(Frames)]
    <3>1. framesQueueOutput[i] \in Seq(Frames) /\ t \in Frames
      BY <1>1, <1>4 DEF TypeOK, Frames
    <3>2. Append(framesQueueOutput[i], t) \in Seq(Frames) BY <3>1
    <3> QED BY <1>1, <1>2, <1>4, <3>2 DEF TypeOK
  <2> QED BY <1>1, <1>2, <1>4, <2>1, <2>2, <2>3 DEF TypeOK, callerVars
<1>11. WorkerHoldsFront'
  BY <1>2, <1>4, <1>5 DEF WorkerHoldsFront, balancerVars
<1>12. CompatibleOnceChecked'
  <2>1. \A j \in Handlers : notifiers'[j] # {} => notifiers[j] # {} \/ j = i
    BY <1>1, <1>2, <1>4 DEF TypeOK
  <2> QED BY <1>2, <1>4, <1>5, <2>1 DEF Inv, CompatibleOnceChecked, balancerVars
<1>13. QueuedOrAwaited' BY <1>1, <1>7, <1>9 DEF QueuedOrAwaited
<1>14. NeverLost' BY <1>1, <1>2, <1>4, <1>7, <1>8, <1>9 DEF NeverLost, InHand, callerVars
<1>15. AnsweredAtMostOnce' BY <1>1, <1>2 DEF AnsweredAtMostOnce, callerVars
<1> QED BY <1>1, <1>2, <1>7, <1>9, <1>10, <1>11, <1>12, <1>13, <1>14, <1>15, SameClients
        DEF Inv, ClientsInv, OneHolder, balancerVars

\* The front that was sent is popped: nobody holds more or less than before.
LEMMA PopRequestInv == ASSUME Inv, PopRequest PROVE Inv'
<1>1. /\ ClientsInv /\ TypeOK /\ WorkerHoldsFront
      /\ QueuedOnce /\ AwaitedOnce /\ QueuedOrAwaited /\ NeverLost /\ AnsweredAtMostOnce
  BY DEF Inv, ClientsInv, OneHolder
<1>2. /\ worker.pc = "sent" /\ requests' = Tail(requests) /\ worker' = Idle
      /\ UNCHANGED <<balancerVars, pendingTasks, callerVars, frameVars, notifyVars,
                     remoteAvailable, frameTransaction, conn>>
  BY DEF PopRequest
<1>3. /\ requests' \in Seq(Wraps) /\ QueuedOnce'
      /\ \A t \in Tasks : Queued(t)' <=> Queued(t)
  BY <1>1, <1>2, FrontPopped
<1>4. TypeOK'
  BY <1>1, <1>2, <1>3 DEF TypeOK, callerVars, frameVars, notifyVars
<1>5. WorkerHoldsFront' /\ CompatibleOnceChecked'
  BY <1>2 DEF Inv, WorkerHoldsFront, CompatibleOnceChecked, balancerVars, notifyVars, Idle
<1>6. /\ AwaitedOnce'
      /\ \A t \in Tasks : Awaited(t)' <=> Awaited(t)
  BY <1>1, <1>2 DEF AwaitedOnce, Awaited, Waiting, notifyVars
<1>7. QueuedOrAwaited' /\ NeverLost' /\ AnsweredAtMostOnce'
  BY <1>1, <1>2, <1>3, <1>6 DEF QueuedOrAwaited, NeverLost, AnsweredAtMostOnce, InHand,
                                callerVars
<1> QED BY <1>1, <1>2, <1>3, <1>4, <1>5, <1>6, <1>7, SameClients
        DEF Inv, ClientsInv, OneHolder, balancerVars

\* A server is announced; a new one gets a handler whose index is free.
LEMMA AddClientInv == ASSUME Inv, NEW s \in ToolServers, AddClient(s) PROVE Inv'
<1> DEFINE i == Len(clients) + 1
           added == ~Skipped(s) /\ ~Known(s)
<1>1. ClientsInv /\ TypeOK /\ OneHolder /\ DOMAIN clients \subseteq Handlers
  BY DEF Inv, ClientsInv
<1>2. /\ added => i \in Handlers
      /\ UpdateClient(s)
      /\ IF Skipped(s) THEN UNCHANGED remoteAvailable ELSE AvailableCheck
      /\ IF added
         THEN /\ transaction' = [transaction EXCEPT ![i] = @ + 1]
              /\ versionNotifier' = [versionNotifier EXCEPT ![i] = TRUE]
              /\ framesQueueOutput' =
                   [framesQueueOutput EXCEPT ![i] = Append(@, VersionRequest)]
         ELSE UNCHANGED <<transaction, versionNotifier, framesQueueOutput>>
      /\ UNCHANGED <<queueVars, callerVars, notifiers, outputSegments, server,
                     frameTransaction, conn>>
  BY DEF AddClient
<1>3. /\ Len(clients) \in Nat /\ DOMAIN clients = 1 .. Len(clients)
      /\ i \notin DOMAIN clients
  BY <1>1, LenProperties DEF ClientsInv, ClientsTypeOK
<1>4. /\ ClientsInv'
      /\ \A j \in DOMAIN clients : /\ j \in DOMAIN clients'
                                   /\ clients'[j].compatible = clients[j].compatible
      /\ ~added => DOMAIN clients' = DOMAIN clients
      /\ added => DOMAIN clients' = 1 .. i /\ ~clients'[i].compatible
  BY <1>1, <1>2, UpdateClientStep
<1>5. DOMAIN clients' \subseteq Handlers
  <2>1. added => \A j \in 1 .. i : j \in Handlers
    BY <1>1, <1>2, <1>3, ClientAssumption DEF Handlers
  <2> QED BY <1>1, <1>4, <2>1
<1>6. \A j \in DOMAIN clients' : j \in DOMAIN clients \/ (added /\ j = i)
  BY <1>3, <1>4
<1> HIDE DEF i, added
<1>7. TypeOK'
  <2>1. remoteAvailable' \in BOOLEAN
    BY <1>1, <1>2, AvailableCheckType DEF TypeOK
  <2>2. transaction' \in [Handlers -> Nat]
    <3>1. transaction \in [Handlers -> Nat] BY <1>1 DEF TypeOK
    <3>2. CASE added
      <4>1. transaction[i] + 1 \in Nat BY <1>2, <3>1, <3>2
      <4> QED BY <1>2, <3>1, <3>2, <4>1
    <3> QED BY <1>2, <3>1, <3>2
  <2>3. versionNotifier' \in [Handlers -> BOOLEAN]
    BY <1>1, <1>2 DEF TypeOK
  <2>4. framesQueueOutput' \in [Handlers -> Seq(Frames)]
    <3>1. VersionRequest \in Frames BY DEF Frames
    <3>2. CASE added
      <4>1. framesQueueOutput[i] \in Seq(Frames) BY <1>1, <1>2, <3>2 DEF TypeOK
      <4>2. Append(framesQueueOutput[i], VersionRequest) \in Seq(Frames) BY <3>1, <4>1
      <4> QED BY <1>1, <1>2, <3>2, <4>2 DEF TypeOK
    <3> QED BY <1>1, <1>2, <3>2 DEF TypeOK
  <2> QED BY <1>1, <1>2, <2>1, <2>2, <2>3, <2>4 DEF TypeOK, queueVars, callerVars
<1>8. WorkerHoldsFront'
  BY <1>2, <1>4 DEF Inv, WorkerHoldsFront, queueVars
<1>9. CompatibleOnceChecked'
  <2>1. worker # Idle => worker.index \in DOMAIN clients
    BY DEF Inv, WorkerHoldsFront
  <2>2. worker.pc \in {"found", "started"} => worker # Idle BY DEF Idle
  <2>3. ASSUME NEW j \in DOMAIN clients', versionNotifier'[j]
        PROVE  ~clients'[j].compatible
    <3>1. CASE j \in DOMAIN clients
      <4>1. versionNotifier'[j] = versionNotifier[j]
        BY <1>1, <1>2, <1>3, <3>1 DEF TypeOK, i
      <4> QED BY <1>4, <2>3, <3>1, <4>1 DEF Inv, CompatibleOnceChecked
    <3> QED BY <1>4, <1>6, <3>1
  <2>4. \A j \in Handlers : notifiers'[j] # {} => j \in DOMAIN clients' /\ clients'[j].compatible
    BY <1>2, <1>4 DEF Inv, CompatibleOnceChecked
  <2>5. worker.pc \in {"found", "started"} => clients'[worker.index].compatible
    BY <1>4, <2>1, <2>2 DEF Inv, CompatibleOnceChecked
  <2> QED BY <1>2, <2>3, <2>4, <2>5 DEF CompatibleOnceChecked, queueVars
<1>10. OneHolder'
  BY <1>1, <1>2, SameHolders DEF queueVars, callerVars
<1> QED BY <1>4, <1>5, <1>7, <1>8, <1>9, <1>10 DEF Inv, ClientsInv

\* A step that is not about tasks: the balancer's view of a server, and the state of
\* its connection, may change.
LEMMA BalancerOnlyInv ==
  ASSUME Inv, ClientsInv', DOMAIN clients' = DOMAIN clients,
         \A j \in DOMAIN clients : clients'[j].compatible = clients[j].compatible,
         remoteAvailable' \in BOOLEAN,
         conn' \in [Handlers -> {"Pending", "Ok", "Closing", "Failed"}],
         outputSegments' \in [Handlers -> Seq([frame : Frames, transaction : Nat])],
         framesQueueOutput' \in [Handlers -> Seq(Frames)],
         UNCHANGED <<queueVars, callerVars, notifyVars, frameTransaction>>
  PROVE  Inv'
<1>1. TypeOK' BY DEF Inv, TypeOK, queueVars, callerVars, notifyVars
<1>2. WorkerHoldsFront' /\ CompatibleOnceChecked'
  BY SameWorker DEF queueVars, notifyVars
<1>3. OneHolder'
  BY SameHolders DEF Inv, queueVars, callerVars, notifyVars
<1> QED BY <1>1, <1>2, <1>3 DEF Inv, ClientsInv

\* A handler connects, or its connection is lost.
LEMMA ConnectionInv ==
  ASSUME Inv, NEW i \in DOMAIN clients, Connect(i) \/ ConnectFails(i) \/ LoseConnection(i)
  PROVE  Inv'
<1>1. ClientsInv /\ TypeOK /\ i \in Handlers
  BY DEF Inv, ClientsInv
<1>2. PICK b \in BOOLEAN : SetClientActive(i, b)
  BY DEF Connect, ConnectFails, LoseConnection
<1>3. PICK c \in {"Ok", "Failed", "Closing"} : conn' = [conn EXCEPT ![i] = c]
  BY DEF Connect, ConnectFails, LoseConnection
<1>4. /\ AvailableCheck
      /\ UNCHANGED <<queueVars, callerVars, framesQueueOutput, notifyVars, frameTransaction>>
      /\ \/ UNCHANGED outputSegments
         \/ /\ outputSegments[i] # << >>
            /\ outputSegments' = [outputSegments EXCEPT ![i] = Tail(@)]
  BY DEF Connect, ConnectFails, LoseConnection, frameVars
<1>5. /\ ClientsInv' /\ DOMAIN clients' = DOMAIN clients
      /\ \A j \in DOMAIN clients : clients'[j].compatible = clients[j].compatible
  BY <1>1, <1>2, SetClientActiveStep
<1>6. conn' \in [Handlers -> {"Pending", "Ok", "Closing", "Failed"}]
  BY <1>1, <1>3 DEF TypeOK
<1>7. outputSegments' \in [Handlers -> Seq([frame : Frames, transaction : Nat])]
  <2> DEFINE S == [frame : Frames, transaction : Nat]
  <2>1. outputSegments \in [Handlers -> Seq(S)] BY <1>1 DEF TypeOK
  <2> HIDE DEF S
  <2>2. outputSegments[i] # << >> => Tail(outputSegments[i]) \in Seq(S)
    BY <1>1, <2>1, HeadTailProperties
  <2> QED BY <1>1, <1>4, <2>1, <2>2 DEF S
<1>8. framesQueueOutput' \in [Handlers -> Seq(Frames)] BY <1>1, <1>4 DEF TypeOK
<1>9. remoteAvailable' \in BOOLEAN BY <1>4, AvailableCheckType
<1> QED BY <1>4, <1>5, <1>6, <1>7, <1>8, <1>9, BalancerOnlyInv

\* A server reports its load.
LEMMA ReadStatusInv ==
  ASSUME Inv, NEW i \in DOMAIN clients, NEW load \in QueueLoads, ReadStatus(i, load)
  PROVE  Inv'
<1>1. ClientsInv /\ TypeOK BY DEF Inv, ClientsInv
<1>2. /\ SetServerSideLoad(i, load) /\ AvailableCheck
      /\ UNCHANGED <<queueVars, callerVars, frameVars, notifyVars, frameTransaction, conn>>
  BY DEF ReadStatus
<1>3. /\ ClientsInv' /\ DOMAIN clients' = DOMAIN clients
      /\ \A j \in DOMAIN clients : clients'[j].compatible = clients[j].compatible
  BY <1>1, <1>2, SetServerSideLoadStep, BoundsAssumption
<1>4. /\ remoteAvailable' \in BOOLEAN
      /\ conn' \in [Handlers -> {"Pending", "Ok", "Closing", "Failed"}]
      /\ outputSegments' \in [Handlers -> Seq([frame : Frames, transaction : Nat])]
      /\ framesQueueOutput' \in [Handlers -> Seq(Frames)]
  BY <1>1, <1>2, AvailableCheckType DEF TypeOK, frameVars
<1> QED BY <1>2, <1>3, <1>4, BalancerOnlyInv

\* A handler has told all its notifiers of the lost connection.
LEMMA ClearedInv ==
  ASSUME Inv, NEW i \in DOMAIN clients, Cleared(i) PROVE Inv'
<1>1. ClientsInv /\ TypeOK BY DEF Inv, ClientsInv
<1>2. /\ conn' = [conn EXCEPT ![i] = "Failed"]
      /\ UNCHANGED <<balancerVars, queueVars, callerVars, frameVars, notifyVars,
                     remoteAvailable, frameTransaction>>
  BY DEF Cleared
<1>3. ClientsInv' BY <1>1, <1>2, SameClients DEF balancerVars
<1>4. /\ remoteAvailable' \in BOOLEAN
      /\ conn' \in [Handlers -> {"Pending", "Ok", "Closing", "Failed"}]
      /\ outputSegments' \in [Handlers -> Seq([frame : Frames, transaction : Nat])]
      /\ framesQueueOutput' \in [Handlers -> Seq(Frames)]
  BY <1>1, <1>2 DEF TypeOK, frameVars
<1> QED BY <1>2, <1>3, <1>4, BalancerOnlyInv DEF balancerVars

\* Frames are serialized and written: no task changes hands.
LEMMA WriteFramesInv ==
  ASSUME Inv, NEW i \in DOMAIN clients, NEW n \in Nat, WriteFrames(i, n) PROVE Inv'
<1> DEFINE S == [frame : Frames, transaction : Nat]
           queue == framesQueueOutput[i]
           new == [k \in DOMAIN queue |-> Serialized(queue[k])]
           all == outputSegments[i] \o new
<1>1. ClientsInv /\ TypeOK /\ i \in Handlers BY DEF Inv, ClientsInv
<1>2. /\ n <= Len(all)
      /\ framesQueueOutput' = [framesQueueOutput EXCEPT ![i] = << >>]
      /\ outputSegments' = [outputSegments EXCEPT ![i] = SubSeq(all, n + 1, Len(all))]
      /\ UNCHANGED <<balancerVars, queueVars, callerVars, notifyVars,
                     remoteAvailable, frameTransaction, conn>>
  BY DEF WriteFrames
<1>3. new \in Seq(S)
  <2>1. /\ Len(queue) \in Nat /\ DOMAIN queue = 1 .. Len(queue)
        /\ \A k \in DOMAIN queue : queue[k] \in Frames
    BY <1>1, LenProperties, ElementOfSeq DEF TypeOK
  <2>2. \A k \in DOMAIN queue : Serialized(queue[k]) \in S
    BY <1>1, <2>1 DEF Serialized, TypeOK, Frames
  <2> QED BY <2>1, <2>2, IsASeq
<1>4. outputSegments[i] \in Seq(S) BY <1>1 DEF TypeOK
<1> HIDE DEF S, new
<1>5. all \in Seq(S) /\ Len(all) \in Nat
  BY <1>3, <1>4, ConcatProperties, LenProperties
<1>6. SubSeq(all, n + 1, Len(all)) \in Seq(S)
  <2>1. \A k \in n + 1 .. Len(all) : all[k] \in S
    BY <1>5, ElementOfSeq
  <2> HIDE DEF all
  <2> QED BY <1>5, <2>1, SubSeqProperties
<1> HIDE DEF all
<1>7. /\ remoteAvailable' \in BOOLEAN
      /\ conn' \in [Handlers -> {"Pending", "Ok", "Closing", "Failed"}]
      /\ outputSegments' \in [Handlers -> Seq(S)]
      /\ framesQueueOutput' \in [Handlers -> Seq(Frames)]
  <2>1. outputSegments \in [Handlers -> Seq(S)] BY <1>1 DEF TypeOK, S
  <2>2. << >> \in Seq(Frames) BY EmptySeq
  <2> QED BY <1>1, <1>2, <1>6, <2>1, <2>2 DEF TypeOK
<1>8. ClientsInv' BY <1>1, <1>2, SameClients DEF balancerVars
<1> QED BY <1>2, <1>7, <1>8, BalancerOnlyInv DEF balancerVars, S

\* A step that ends the request of notifier n: a failure or an answer.
LEMMA RequestEndsInv ==
  ASSUME Inv, NEW i \in DOMAIN clients, NEW n \in notifiers[i],
         notifiers' = [notifiers EXCEPT ![i] = @ \ {n}],
         FrameFailed(i, n.wrap) \/ \E t \in Tasks : FrameAnswered(i, n.wrap, t),
         UNCHANGED <<worker, invoked, framesQueueOutput, outputSegments, transaction,
                     versionNotifier, remoteAvailable, frameTransaction, conn>>
  PROVE  Inv'
<1>1. ClientsInv /\ TypeOK /\ i \in Handlers BY DEF Inv, ClientsInv
<1>2. FinishTask(i) BY DEF FrameFailed, FrameAnswered
<1>3. /\ ClientsInv' /\ DOMAIN clients' = DOMAIN clients
      /\ \A j \in DOMAIN clients : clients'[j].compatible = clients[j].compatible
  BY <1>1, <1>2, FinishTaskStep
<1>4. /\ requests' \in Seq(Wraps)
      /\ requests # << >> => requests' # << >> /\ Head(requests') = Head(requests)
      /\ pendingTasks' \in Int
      /\ outcomes' \in [Tasks -> Seq(Outcomes)]
      /\ OneHolder'
  <2>1. CASE FrameFailed(i, n.wrap) BY <1>1, <2>1, FailureStep
  <2>2. ASSUME NEW t \in Tasks, FrameAnswered(i, n.wrap, t)
        PROVE  /\ UNCHANGED <<requests, pendingTasks>>
               /\ outcomes' \in [Tasks -> Seq(Outcomes)]
               /\ OneHolder'
    <3>1. t \in Outcomes BY DEF Outcomes
    <3>2. Callback(n.wrap.task, t) /\ UNCHANGED <<requests, pendingTasks>>
      BY <2>2 DEF FrameAnswered
    <3> QED BY <1>1, <3>1, <3>2, AnswerStep
  <2>3. requests \in Seq(Wraps) /\ pendingTasks \in Int BY <1>1 DEF TypeOK
  <2> QED BY <2>1, <2>2, <2>3
<1>5. /\ notifiers' \in [Handlers -> SUBSET [transaction : Nat, wrap : Wraps]]
      /\ \A j \in Handlers : notifiers'[j] \subseteq notifiers[j]
  BY <1>1 DEF TypeOK
<1>6. TypeOK'
  BY <1>1, <1>4, <1>5 DEF TypeOK
<1>7. WorkerHoldsFront' /\ CompatibleOnceChecked'
  BY <1>3, <1>4, <1>5, SameWorker
<1> QED BY <1>3, <1>4, <1>6, <1>7 DEF Inv, ClientsInv

\* A step that answers the version request of server i, which has no task yet.
LEMMA VersionAnsweredInv ==
  ASSUME Inv, NEW i \in DOMAIN clients, versionNotifier[i],
         versionNotifier' = [versionNotifier EXCEPT ![i] = FALSE],
         NEW b \in BOOLEAN, SetClientCompatible(i, b), AvailableCheck,
         UNCHANGED <<queueVars, callerVars, framesQueueOutput, outputSegments,
                     transaction, notifiers, frameTransaction, conn>>
  PROVE  Inv'
<1>1. ClientsInv /\ TypeOK /\ OneHolder /\ i \in Handlers BY DEF Inv, ClientsInv
<1>2. /\ ClientsInv' /\ DOMAIN clients' = DOMAIN clients
      /\ \A j \in DOMAIN clients \ {i} : clients'[j] = clients[j]
  BY <1>1, SetClientCompatibleStep
<1>3. TypeOK'
  <2>1. versionNotifier' \in [Handlers -> BOOLEAN] BY <1>1 DEF TypeOK
  <2> QED BY <1>1, <2>1, AvailableCheckType DEF TypeOK, queueVars, callerVars
<1>4. WorkerHoldsFront'
  BY <1>2 DEF Inv, WorkerHoldsFront, queueVars
<1>5. CompatibleOnceChecked'
  <2>1. ~clients[i].compatible /\ notifiers[i] = {}
    BY <1>1 DEF Inv, CompatibleOnceChecked
  <2>2. worker.pc \in {"found", "started"} =>
          worker.index \in DOMAIN clients \ {i} /\ clients[worker.index].compatible
    BY <2>1 DEF Inv, WorkerHoldsFront, CompatibleOnceChecked, Idle
  <2>3. \A j \in DOMAIN clients : versionNotifier'[j] => versionNotifier[j] /\ j # i
    BY <1>1 DEF TypeOK, Inv
  <2>4. \A j \in DOMAIN clients' : versionNotifier'[j] => ~clients'[j].compatible
    BY <1>2, <2>3 DEF Inv, CompatibleOnceChecked
  <2>5. \A j \in Handlers : notifiers'[j] # {} => j \in DOMAIN clients' /\ clients'[j].compatible
    BY <1>2, <2>1 DEF Inv, CompatibleOnceChecked
  <2> QED BY <1>2, <2>2, <2>4, <2>5 DEF CompatibleOnceChecked, queueVars
<1>6. OneHolder' BY <1>1, SameHolders DEF queueVars, callerVars
<1> QED BY <1>1, <1>2, <1>3, <1>4, <1>5, <1>6 DEF Inv, ClientsInv

\* A notifier is told of the lost connection.
LEMMA ClearNotifierInv ==
  ASSUME Inv, NEW i \in DOMAIN clients, NEW n \in notifiers[i],
         ClearNotifier(i, n) \/ CheckTimeouts(i, n)
  PROVE  Inv'
<1>1. /\ notifiers' = [notifiers EXCEPT ![i] = @ \ {n}]
      /\ FrameFailed(i, n.wrap)
      /\ UNCHANGED <<worker, invoked, frameVars, transaction, versionNotifier,
                     remoteAvailable, frameTransaction, conn>>
  BY DEF ClearNotifier, CheckTimeouts
<1> QED BY <1>1, RequestEndsInv DEF frameVars

\* The version request fails: the server stays incompatible.
LEMMA VersionFailedInv ==
  ASSUME Inv, NEW i \in DOMAIN clients, ClearVersionNotifier(i) \/ CheckVersionTimeout(i)
  PROVE  Inv'
<1>1. /\ versionNotifier[i] /\ SetClientCompatible(i, FALSE) /\ AvailableCheck
      /\ versionNotifier' = [versionNotifier EXCEPT ![i] = FALSE]
      /\ UNCHANGED <<queueVars, callerVars, frameVars, transaction, notifiers,
                     frameTransaction, conn>>
  BY DEF ClearVersionNotifier, CheckVersionTimeout
<1> QED BY <1>1, VersionAnsweredInv DEF frameVars

\* The versions arrive.
LEMMA ReadVersionsInv ==
  ASSUME Inv, NEW i \in DOMAIN clients, NEW r, ReadVersions(i, r) PROVE Inv'
<1>1. UNCHANGED <<queueVars, callerVars, framesQueueOutput, outputSegments,
                  transaction, notifiers, frameTransaction, conn>>
  BY DEF ReadVersions
<1>2. CASE /\ versionNotifier[i]
           /\ versionNotifier' = [versionNotifier EXCEPT ![i] = FALSE]
           /\ \E isCompatible \in VersionChecks : SetClientCompatible(i, isCompatible)
           /\ AvailableCheck
  <2>1. PICK b \in BOOLEAN : SetClientCompatible(i, b) BY <1>2, ClientAssumption
  <2> QED BY <1>1, <1>2, <2>1, VersionAnsweredInv
<1>3. CASE UNCHANGED <<balancerVars, versionNotifier, remoteAvailable>>
  <2>1. ClientsInv /\ TypeOK BY DEF Inv, ClientsInv
  <2>2. ClientsInv' BY <1>3, <2>1, SameClients DEF balancerVars
  <2>3. /\ remoteAvailable' \in BOOLEAN
        /\ conn' \in [Handlers -> {"Pending", "Ok", "Closing", "Failed"}]
        /\ outputSegments' \in [Handlers -> Seq([frame : Frames, transaction : Nat])]
        /\ framesQueueOutput' \in [Handlers -> Seq(Frames)]
    BY <1>1, <1>3, <2>1 DEF TypeOK
  <2> QED BY <1>1, <1>3, <2>2, <2>3, BalancerOnlyInv DEF balancerVars, notifyVars
<1> QED BY <1>2, <1>3 DEF ReadVersions

\* A response arrives, for a notifier or for nobody.
LEMMA ReadResponseInv ==
  ASSUME Inv, NEW i \in DOMAIN clients, NEW r, ReadResponse(i, r) PROVE Inv'
<1>1. /\ r.frame \in Tasks
      /\ UNCHANGED <<worker, invoked, framesQueueOutput, outputSegments, transaction,
                     versionNotifier, remoteAvailable, frameTransaction, conn>>
  BY DEF ReadResponse
<1>2. ASSUME NEW n \in notifiers[i],
             notifiers' = [notifiers EXCEPT ![i] = @ \ {n}],
             FrameAnswered(i, n.wrap, r.frame)
      PROVE  Inv'
  BY <1>1, <1>2, RequestEndsInv
<1>3. CASE UNCHANGED <<balancerVars, requests, pendingTasks, outcomes, notifiers>>
  <2>1. ClientsInv /\ TypeOK BY DEF Inv, ClientsInv
  <2>2. ClientsInv' BY <1>3, <2>1, SameClients DEF balancerVars
  <2>3. /\ remoteAvailable' \in BOOLEAN
        /\ conn' \in [Handlers -> {"Pending", "Ok", "Closing", "Failed"}]
        /\ outputSegments' \in [Handlers -> Seq([frame : Frames, transaction : Nat])]
        /\ framesQueueOutput' \in [Handlers -> Seq(Frames)]
    BY <1>1, <2>1 DEF TypeOK
  <2> QED BY <1>1, <1>3, <2>2, <2>3, BalancerOnlyInv
          DEF balancerVars, queueVars, callerVars, notifyVars
<1> QED BY <1>2, <1>3 DEF ReadResponse

\* Every step preserves the invariant.
LEMMA InvNext == Inv /\ [Next]_vars => Inv'
<1> SUFFICES ASSUME Inv, [Next]_vars PROVE Inv' OBVIOUS
<1>1. ASSUME NEW i \in DOMAIN clients, Handler(i) PROVE Inv'
  <2>1. CASE Connect(i) \/ ConnectFails(i) \/ LoseConnection(i) BY <2>1, ConnectionInv
  <2>2. CASE ClearVersionNotifier(i) \/ CheckVersionTimeout(i) BY <2>2, VersionFailedInv
  <2>3. CASE Cleared(i) BY <2>3, ClearedInv
  <2>4. ASSUME NEW n \in notifiers[i], ClearNotifier(i, n) \/ CheckTimeouts(i, n)
        PROVE  Inv'
    BY <2>4, ClearNotifierInv
  <2>5. ASSUME NEW n \in 0 .. Len(framesQueueOutput[i]) + Len(outputSegments[i]),
               WriteFrames(i, n)
        PROVE  Inv'
    <3>1. /\ framesQueueOutput[i] \in Seq(Frames)
          /\ outputSegments[i] \in Seq([frame : Frames, transaction : Nat])
      BY DEF Inv, TypeOK
    <3>2. Len(framesQueueOutput[i]) \in Nat /\ Len(outputSegments[i]) \in Nat
      BY <3>1, LenProperties
    <3>3. n \in Nat BY <3>2
    <3> QED BY <2>5, <3>3, WriteFramesInv
  <2>6. ASSUME NEW r, ReadResponse(i, r) \/ ReadVersions(i, r) PROVE Inv'
    BY <2>6, ReadResponseInv, ReadVersionsInv
  <2>7. ASSUME NEW load \in QueueLoads, ReadStatus(i, load) PROVE Inv'
    BY <2>7, ReadStatusInv
  <2> QED BY <1>1, <2>1, <2>2, <2>3, <2>4, <2>5, <2>6, <2>7 DEF Handler
<1>2. CASE ProcessTasks
  BY <1>2, PickTaskInv, CountTaskInv, QueueFrameInv, PopRequestInv DEF ProcessTasks
<1>3. ASSUME NEW t \in Tasks, InvokeTool(t) PROVE Inv' BY <1>3, InvokeToolInv
<1>4. ASSUME NEW k \in 1 .. Len(requests), ExpireTask(k) PROVE Inv'
  BY <1>4, ExpireTaskInv
<1>5. ASSUME NEW s \in ToolServers, AddClient(s) PROVE Inv' BY <1>5, AddClientInv
<1>6. CASE UNCHANGED vars
  <2>1. ClientsInv /\ TypeOK BY DEF Inv, ClientsInv
  <2>2. UNCHANGED <<balancerVars, queueVars, callerVars, frameVars, notifyVars,
                    remoteAvailable, frameTransaction, conn>>
    BY <1>6 DEF vars
  <2>3. ClientsInv' BY <2>1, <2>2, SameClients DEF balancerVars
  <2>4. /\ remoteAvailable' \in BOOLEAN
        /\ conn' \in [Handlers -> {"Pending", "Ok", "Closing", "Failed"}]
        /\ outputSegments' \in [Handlers -> Seq([frame : Frames, transaction : Nat])]
        /\ framesQueueOutput' \in [Handlers -> Seq(Frames)]
    BY <2>1, <2>2 DEF TypeOK, frameVars
  <2> QED BY <2>2, <2>3, <2>4, BalancerOnlyInv DEF balancerVars
<1> QED BY <1>1, <1>2, <1>3, <1>4, <1>5, <1>6 DEF Next

(***************************************************************************)
(* Theorems.                                                               *)
(***************************************************************************)
\* The invariant holds in every state of the client.
THEOREM Invariance == Spec => []Inv
BY InitInv, InvNext, PTL DEF Spec

\* The state of the client is well typed: in particular a retried task never has a
\* negative number of attempts left, and ProcessTasks never holds an index that is
\* not a handler's.
THEOREM ClientTypeCorrect == Spec => []TypeOK
<1>1. Inv => TypeOK BY DEF Inv
<1> QED BY <1>1, Invariance, PTL

\* Every invocation is in one place until its callback is called, and that happens at
\* most once.
THEOREM EveryTaskHasOneHolder == Spec => []OneHolder
<1>1. Inv => OneHolder BY DEF Inv
<1> QED BY <1>1, Invariance, PTL

\* Only servers whose tools were accepted ever get a task, although the server is
\* found and used under different locks.
THEOREM CompatibleServersOnly == Spec => []OnlyCompatibleServersUsed
<1>1. Inv => OnlyCompatibleServersUsed
  BY DEF Inv, CompatibleOnceChecked, OnlyCompatibleServersUsed
<1> QED BY <1>1, Invariance, PTL

(***************************************************************************)
(* The counts of the client and its balancer: m_busyMine of a server is    *)
(* the number of requests it owes an answer to, and m_pendingTasks is the  *)
(* number of queued tasks and of those that expired.  They hold for fewer  *)
(* than 65536 invocations, as m_busyMine is a uint16_t.                    *)
(***************************************************************************)
FewTasks == IsFiniteSet(Tasks) /\ Cardinality(Tasks) < U16

Counts == BusyMatchesOutstanding /\ PendingAccounting

(***************************************************************************)
(* m_busyMine after each operation of the balancer.                        *)
(***************************************************************************)
\* UpdateLoad computes the load and leaves the task count alone.
LEMMA LoadKeepsMine == ASSUME NEW c \in ClientInfo PROVE UpdateLoad(c).busyMine = c.busyMine
BY DEF UpdateLoad, ClientInfo

\* Connections, versions and load reports do not change it.
LEMMA MineKept ==
  ASSUME ClientsInv, NEW i \in DOMAIN clients,
         \/ \E b \in BOOLEAN : SetClientActive(i, b) \/ SetClientCompatible(i, b)
         \/ \E load \in UInt16 : SetServerSideLoad(i, load)
  PROVE  /\ DOMAIN clients' = DOMAIN clients
         /\ \A j \in DOMAIN clients : clients'[j].busyMine = clients[j].busyMine
<1>1. clients[i] \in ClientInfo BY ClientAt
<1>2. ASSUME NEW b \in ClientInfo, b.busyMine = clients[i].busyMine,
             clients' = [clients EXCEPT ![i] = b]
      PROVE  /\ DOMAIN clients' = DOMAIN clients
             /\ \A j \in DOMAIN clients : clients'[j].busyMine = clients[j].busyMine
  BY <1>2
<1>a. ASSUME NEW b \in BOOLEAN, SetClientActive(i, b) \/ SetClientCompatible(i, b)
      PROVE  /\ DOMAIN clients' = DOMAIN clients
             /\ \A j \in DOMAIN clients : clients'[j].busyMine = clients[j].busyMine
  <2> DEFINE active == [clients[i] EXCEPT !.active = b]
             checked == [clients[i] EXCEPT !.compatible = b, !.checked = TRUE]
  <2>1. active \in ClientInfo /\ active.busyMine = clients[i].busyMine
    BY <1>1 DEF ClientInfo
  <2>2. checked \in ClientInfo /\ checked.busyMine = clients[i].busyMine
    BY <1>1 DEF ClientInfo
  <2>3. \/ clients' = [clients EXCEPT ![i] = active]
        \/ clients' = [clients EXCEPT ![i] = checked]
    BY <1>a DEF SetClientActive, SetClientCompatible, SetClients
  <2> HIDE DEF active, checked
  <2> QED BY <1>2, <2>1, <2>2, <2>3
<1>3. ASSUME NEW load \in UInt16, SetServerSideLoad(i, load)
      PROVE  /\ DOMAIN clients' = DOMAIN clients
             /\ \A j \in DOMAIN clients : clients'[j].busyMine = clients[j].busyMine
  <2> DEFINE avg == (load + clients[i].serverSideQueue) \div 2
             b == [clients[i] EXCEPT !.serverSideQueuePrev = clients[i].serverSideQueue,
                                     !.serverSideQueue = load, !.serverSideQueueAvg = avg]
  <2>1. clients[i].serverSideQueue \in UInt16 /\ avg \in UInt16
    BY <1>1, Widths DEF ClientInfo, UInt16
  <2> HIDE DEF avg
  <2>2. b \in ClientInfo /\ b.busyMine = clients[i].busyMine BY <1>1, <2>1 DEF ClientInfo
  <2>3. clients' = [clients EXCEPT ![i] = UpdateLoad(b)]
    BY <1>3 DEF SetServerSideLoad, SetClients, avg
  <2> HIDE DEF b
  <2> QED BY <2>2, <2>3, LoadKeepsMine
<1> QED BY <1>a, <1>3

\* An announcement does not change it, and a new server starts with none.
LEMMA UpdateClientMine ==
  ASSUME ClientsInv, NEW s \in ToolServers, UpdateClient(s)
  PROVE  /\ \A j \in DOMAIN clients :
              j \in DOMAIN clients' /\ clients'[j].busyMine = clients[j].busyMine
         /\ \A j \in DOMAIN clients' \ DOMAIN clients : clients'[j].busyMine = 0
<1>1. CASE Skipped(s) BY <1>1 DEF UpdateClient, balancerVars
<1>2. CASE ~Skipped(s) /\ Known(s)
  <2> DEFINE b(i) == [clients[i] EXCEPT !.toolServer = s]
             new(i) == IF EqualIdTo(clients[i].toolServer, s)
                       THEN UpdateLoad(b(i)) ELSE clients[i]
  <2>1. clients' = [i \in DOMAIN clients |-> new(i)]
    BY <1>2 DEF UpdateClient, SetClients
  <2>2. ASSUME NEW i \in DOMAIN clients PROVE new(i).busyMine = clients[i].busyMine
    <3>1. clients[i] \in ClientInfo BY ClientAt
    <3>2. b(i) \in ClientInfo /\ b(i).busyMine = clients[i].busyMine BY <3>1 DEF ClientInfo
    <3> HIDE DEF b
    <3> QED BY <3>2, LoadKeepsMine
  <2> HIDE DEF new
  <2> QED BY <2>1, <2>2
<1>3. CASE ~Skipped(s) /\ ~Known(s)
  <2>1. clients' = Append(clients, UpdateLoad(NewClient(s)))
    BY <1>3 DEF UpdateClient, SetClients
  <2>2. /\ clients \in Seq(ClientInfo) /\ Len(clients) \in Nat
        /\ DOMAIN clients = 1 .. Len(clients)
    BY LenProperties DEF ClientsInv, ClientsTypeOK
  <2>3. NewClient(s) \in ClientInfo /\ NewClient(s).busyMine = 0
    BY Widths DEF NewClient, ClientInfo, UInt16
  <2>4. UpdateLoad(NewClient(s)).busyMine = 0 BY <2>3, LoadKeepsMine
  <2>5. /\ DOMAIN clients' = 1 .. Len(clients) + 1
        /\ clients'[Len(clients) + 1] = UpdateLoad(NewClient(s))
        /\ \A j \in 1 .. Len(clients) : clients'[j] = clients[j]
    BY <2>1, <2>2
  <2> QED BY <2>2, <2>4, <2>5
<1> QED BY <1>1, <1>2, <1>3

\* A task more, as long as the count does not wrap.
LEMMA StartTaskMine ==
  ASSUME ClientsInv, NEW i \in DOMAIN clients, StartTask(i), clients[i].busyMine + 1 < U16
  PROVE  /\ DOMAIN clients' = DOMAIN clients
         /\ \A j \in DOMAIN clients :
              clients'[j].busyMine = clients[j].busyMine + (IF j = i THEN 1 ELSE 0)
<1> DEFINE mine == (clients[i].busyMine + 1) % U16
           b == [clients[i] EXCEPT !.busyMine = mine]
<1>1. clients[i] \in ClientInfo BY ClientAt
<1>2. clients[i].busyMine \in Nat /\ \A j \in DOMAIN clients : clients[j].busyMine \in Nat
  BY ClientAt, Widths DEF ClientInfo, UInt16
<1>3. mine = clients[i].busyMine + 1 BY <1>2, Widths
<1>4. mine \in UInt16 BY <1>2, Reduced
<1>5. clients' = [clients EXCEPT ![i] = UpdateLoad(b)] BY DEF StartTask, SetClients
<1> HIDE DEF mine
<1>6. b \in ClientInfo /\ b.busyMine = mine BY <1>1, <1>4 DEF ClientInfo
<1> HIDE DEF b
<1> QED BY <1>2, <1>3, <1>5, <1>6, LoadKeepsMine

\* A task less.
LEMMA FinishTaskMine ==
  ASSUME ClientsInv, NEW i \in DOMAIN clients, FinishTask(i), clients[i].busyMine > 0
  PROVE  /\ DOMAIN clients' = DOMAIN clients
         /\ \A j \in DOMAIN clients :
              clients'[j].busyMine = clients[j].busyMine - (IF j = i THEN 1 ELSE 0)
<1> DEFINE mine == IF clients[i].busyMine > 0 THEN clients[i].busyMine - 1 ELSE 0
           b == [clients[i] EXCEPT !.busyMine = mine]
<1>1. clients[i] \in ClientInfo BY ClientAt
<1>2. clients[i].busyMine \in UInt16 /\ \A j \in DOMAIN clients : clients[j].busyMine \in Nat
  BY ClientAt, Widths DEF ClientInfo, UInt16
<1>3. mine = clients[i].busyMine - 1 /\ mine \in UInt16 BY <1>2, Widths DEF UInt16
<1>4. clients' = [clients EXCEPT ![i] = UpdateLoad(b)] BY DEF FinishTask, SetClients
<1> HIDE DEF mine
<1>5. b \in ClientInfo /\ b.busyMine = mine BY <1>1, <1>3 DEF ClientInfo
<1> HIDE DEF b
<1> QED BY <1>2, <1>3, <1>4, <1>5, LoadKeepsMine

(***************************************************************************)
(* The sets that are counted.                                              *)
(***************************************************************************)
\* A server owes an answer to no more requests than there are invocations, and to fewer
\* while one is held by nobody's notifier.
LEMMA FewAwaited ==
  ASSUME FewTasks, Inv, NEW i \in Handlers
  PROVE  /\ IsFiniteSet(notifiers[i]) /\ Cardinality(notifiers[i]) \in Nat
         /\ \A t \in Tasks : ~Awaited(t) => Cardinality(notifiers[i]) + 1 < U16
<1> DEFINE f == [n \in notifiers[i] |-> n.wrap.task]
<1>1. \A n \in notifiers[i] : n.wrap.task \in Tasks BY DEF Inv, TypeOK, Wraps
<1>2. \A n, m \in notifiers[i] : n.wrap.task = m.wrap.task => n = m
  BY DEF Inv, OneHolder, AwaitedOnce
<1>3. IsFiniteSet(notifiers[i]) /\ Cardinality(notifiers[i]) \in Nat
  <2>1. f \in Injection(notifiers[i], Tasks) BY <1>1, <1>2 DEF Injection, IsInjective
  <2> QED BY <2>1, FS_Injection, FS_CardinalityType DEF FewTasks
<1>4. ASSUME NEW t \in Tasks, ~Awaited(t) PROVE Cardinality(notifiers[i]) + 1 < U16
  <2>1. \A n \in notifiers[i] : n.wrap.task # t BY <1>4 DEF Awaited, Waiting
  <2>2. f \in Injection(notifiers[i], Tasks \ {t})
    BY <1>1, <1>2, <2>1 DEF Injection, IsInjective
  <2>3. /\ IsFiniteSet(Tasks \ {t})
        /\ Cardinality(Tasks \ {t}) = Cardinality(Tasks) - 1
    BY FS_RemoveElement DEF FewTasks
  <2>4. Cardinality(notifiers[i]) <= Cardinality(Tasks \ {t}) BY <2>2, <2>3, FS_Injection
  <2>5. Cardinality(Tasks) \in Nat /\ Cardinality(Tasks) < U16
    BY FS_CardinalityType DEF FewTasks
  <2> QED BY <1>3, <2>3, <2>4, <2>5, Widths
<1> QED BY <1>3, <1>4

\* The expired tasks are finitely many.
LEMMA FewExpired ==
  FewTasks => IsFiniteSet(Expired) /\ Cardinality(Expired) \in Nat
<1>1. Expired \subseteq Tasks BY DEF Expired
<1> QED BY <1>1, FS_Subset, FS_CardinalityType DEF FewTasks

\* A callback that says anything else leaves them alone; one that says so adds its task.
LEMMA ExpiredStep ==
  ASSUME FewTasks, Inv, NEW t \in Tasks, outcomes[t] = << >>, NEW o \in Outcomes,
         Callback(t, o)
  PROVE  IF o = "expired" THEN Cardinality(Expired') = Cardinality(Expired) + 1
                          ELSE Expired' = Expired
<1>1. outcomes \in [Tasks -> Seq(Outcomes)] BY DEF Inv, TypeOK
<1>2. outcomes'[t] = <<o>> /\ \A u \in Tasks \ {t} : outcomes'[u] = outcomes[u]
  BY <1>1 DEF Callback
<1>3. t \notin Expired
  <2>1. << >> # <<"expired">> OBVIOUS
  <2> QED BY <2>1 DEF Expired
<1>4. t \in Expired' <=> o = "expired" BY <1>2 DEF Expired
<1>5. \A u \in Tasks \ {t} : u \in Expired' <=> u \in Expired BY <1>2 DEF Expired
<1>6. Expired \subseteq Tasks /\ Expired' \subseteq Tasks BY DEF Expired
<1>7. CASE o = "expired"
  <2>1. Expired' = Expired \cup {t} BY <1>4, <1>5, <1>6, <1>7
  <2>2. IsFiniteSet(Expired) BY FewExpired
  <2>3. Cardinality(Expired \cup {t}) = Cardinality(Expired) + 1
    BY <1>3, <2>2, FS_AddElement
  <2> QED BY <1>7, <2>1, <2>3
<1>8. CASE o # "expired"
  <2>1. Expired' = Expired BY <1>3, <1>4, <1>5, <1>6, <1>8
  <2> QED BY <1>8, <2>1
<1> QED BY <1>7, <1>8

(***************************************************************************)
(* The steps.                                                              *)
(***************************************************************************)
\* What the counts rest on, spelled out.
LEMMA CountFacts ==
  ASSUME FewTasks, Inv, Counts
  PROVE  /\ ClientsInv /\ TypeOK /\ WorkerHoldsFront /\ OneHolder
         /\ DOMAIN clients \subseteq Handlers
         /\ Len(requests) \in Nat /\ pendingTasks \in Int
         /\ IsFiniteSet(Expired) /\ Cardinality(Expired) \in Nat
         /\ \A i \in DOMAIN clients :
              /\ IsFiniteSet(notifiers[i]) /\ Cardinality(notifiers[i]) \in Nat
              /\ clients[i].busyMine = Cardinality(notifiers[i])
                   + (IF worker.pc = "started" /\ worker.index = i THEN 1 ELSE 0)
         /\ pendingTasks = NotStarted + Cardinality(Expired)
<1>1. ClientsInv /\ TypeOK /\ WorkerHoldsFront /\ OneHolder /\ DOMAIN clients \subseteq Handlers
  BY DEF Inv, ClientsInv
<1>2. Len(requests) \in Nat /\ pendingTasks \in Int BY <1>1, LiveRange DEF TypeOK
<1> QED BY <1>1, <1>2, FewExpired, FewAwaited DEF Counts, BusyMatchesOutstanding,
        PendingAccounting

\* A step that neither moves a task nor counts one.
LEMMA QuietStep ==
  ASSUME Counts, DOMAIN clients' = DOMAIN clients,
         \A j \in DOMAIN clients : clients'[j].busyMine = clients[j].busyMine,
         UNCHANGED <<worker, notifiers, requests, pendingTasks, outcomes>>
  PROVE  Counts'
<1>1. BusyMatchesOutstanding' BY DEF Counts, BusyMatchesOutstanding
<1>2. PendingAccounting' BY DEF Counts, PendingAccounting, NotStarted, Expired
<1> QED BY <1>1, <1>2 DEF Counts

\* A step of the queue that the servers do not notice.
LEMMA ServersAside ==
  ASSUME Counts, clients' = clients, notifiers' = notifiers,
         worker' = worker \/ (worker.pc # "started" /\ worker'.pc # "started")
  PROVE  BusyMatchesOutstanding'
BY DEF Counts, BusyMatchesOutstanding

\* A task enters the queue, or its callback is called right away.
LEMMA InvokeToolCounts ==
  ASSUME FewTasks, Inv, Counts, NEW t \in Tasks, InvokeTool(t) PROVE Counts'
<1>1. t \notin invoked /\ UNCHANGED <<balancerVars, worker, notifyVars>> BY DEF InvokeTool
<1>2. BusyMatchesOutstanding' BY <1>1, ServersAside DEF balancerVars, notifyVars
<1>3. CASE Callback(t, "unreadable") /\ UNCHANGED <<requests, pendingTasks>>
  <2>1. outcomes[t] = << >>
    BY <1>1 DEF Inv, OneHolder, AnsweredAtMostOnce
  <2>2. Expired' = Expired BY <1>3, <2>1, ExpiredStep DEF Outcomes
  <2> QED BY <1>1, <1>2, <1>3, <2>2 DEF Counts, PendingAccounting, NotStarted
<1>4. ASSUME NEW w, QueueTask(w), UNCHANGED outcomes PROVE Counts'
  <2>1. Len(requests') = Len(requests) + 1 BY <1>4 DEF QueueTask, Inv, TypeOK
  <2>2. Expired' = Expired BY <1>4 DEF Expired
  <2>3. pendingTasks' = pendingTasks + 1 BY <1>4 DEF QueueTask
  <2>4. NotStarted' = NotStarted + 1 BY <1>1, <2>1, CountFacts DEF NotStarted
  <2>5. NotStarted \in Int BY CountFacts DEF NotStarted
  <2> QED BY <1>2, <2>2, <2>3, <2>4, <2>5, CountFacts DEF Counts, PendingAccounting
<1> QED BY <1>3, <1>4 DEF InvokeTool

\* A task expires: it leaves the queue and stays counted.
LEMMA ExpireTaskCounts ==
  ASSUME FewTasks, Inv, Counts, NEW k \in 1 .. Len(requests), ExpireTask(k) PROVE Counts'
<1> DEFINE t == requests[k].task
           m == Len(requests)
           before == SubSeq(requests, 1, k - 1)
           after == SubSeq(requests, k + 1, m)
<1>1. /\ worker = Idle /\ worker' = worker /\ Callback(t, "expired")
      /\ requests' = before \o after
      /\ pendingTasks' = pendingTasks
      /\ UNCHANGED <<balancerVars, notifyVars>>
  BY DEF ExpireTask
<1>2. BusyMatchesOutstanding' BY <1>1, ServersAside DEF balancerVars, notifyVars
<1>3. t \in Tasks /\ Queued(t) BY <1>1, CountFacts, OneExpired DEF OneHolder
<1>4. outcomes[t] = << >> BY <1>3 DEF Inv, OneHolder, NeverLost, InHand
<1>5. Cardinality(Expired') = Cardinality(Expired) + 1
  BY <1>1, <1>3, <1>4, ExpiredStep DEF Outcomes
<1>6. Len(requests') = m - 1
  <2>1. m \in Nat /\ requests \in Seq(Wraps) BY CountFacts DEF TypeOK
  <2>2. \A j \in 1 .. m : requests[j] \in Wraps BY <2>1, ElementOfSeq
  <2>3. before \in Seq(Wraps) /\ Len(before) = IF 1 <= k - 1 THEN (k - 1) - 1 + 1 ELSE 0
    <3>1. \A j \in 1 .. k - 1 : requests[j] \in Wraps BY <2>1, <2>2
    <3> QED BY <2>1, <3>1, SubSeqProperties
  <2>4. after \in Seq(Wraps) /\ Len(after) = IF k + 1 <= m THEN m - (k + 1) + 1 ELSE 0
    <3>1. \A j \in k + 1 .. m : requests[j] \in Wraps BY <2>1, <2>2
    <3> QED BY <2>1, <3>1, SubSeqProperties
  <2> HIDE DEF before, after, m
  <2>5. Len(requests') = Len(before) + Len(after)
    BY <1>1, <2>3, <2>4, ConcatProperties
  <2>6. k \in 1 .. m BY DEF m
  <2> QED BY <2>1, <2>3, <2>4, <2>5, <2>6
<1>7. NotStarted = m /\ NotStarted' = m - 1
  <2>1. m \in Nat BY CountFacts
  <2>2. worker.pc = "idle" /\ worker' = worker BY <1>1 DEF Idle
  <2> QED BY <1>6, <2>1, <2>2 DEF NotStarted
<1>8. pendingTasks' = NotStarted' + Cardinality(Expired')
  <2>1. /\ pendingTasks = NotStarted + Cardinality(Expired)
        /\ Cardinality(Expired) \in Nat /\ m \in Nat
    BY CountFacts
  <2>2. pendingTasks' = pendingTasks BY <1>1
  <2> HIDE DEF m, t
  <2> QED BY <1>5, <1>7, <2>1, <2>2
<1> QED BY <1>2, <1>8 DEF Counts, PendingAccounting

\* The search for a server counts nothing.
LEMMA PickTaskCounts ==
  ASSUME FewTasks, Inv, Counts, PickTask PROVE Counts'
<1>1. /\ worker.pc = "idle" /\ worker'.pc = "found"
      /\ UNCHANGED <<balancerVars, requests, pendingTasks, callerVars, notifyVars>>
  BY DEF PickTask, Idle
<1>2. BusyMatchesOutstanding' BY <1>1, ServersAside DEF balancerVars, notifyVars
<1>3. PendingAccounting'
  BY <1>1 DEF Counts, PendingAccounting, NotStarted, Expired, callerVars
<1> QED BY <1>2, <1>3 DEF Counts

\* The task is charged to the server before anything is queued for it.
LEMMA CountTaskCounts ==
  ASSUME FewTasks, Inv, Counts, CountTask PROVE Counts'
<1> DEFINE i == worker.index
           t == worker.wrap.task
<1>1. /\ worker.pc = "found" /\ StartTask(i)
      /\ pendingTasks' = pendingTasks - 1
      /\ worker' = [worker EXCEPT !.pc = "started"]
      /\ UNCHANGED <<requests, callerVars, notifyVars>>
  BY DEF CountTask
<1>2. worker # Idle /\ worker \in Busy BY <1>1 DEF Inv, TypeOK, Idle
<1>3. worker'.pc = "started" /\ worker'.index = i BY <1>1, <1>2 DEF Busy
<1>4. i \in DOMAIN clients /\ requests # << >> /\ Head(requests) = worker.wrap
  BY <1>2 DEF Inv, WorkerHoldsFront
<1>5. t \in Tasks /\ Queued(t)
  <2>1. requests \in Seq(Wraps) /\ Len(requests) \in Nat /\ requests[1] = worker.wrap
    BY <1>4, CountFacts DEF TypeOK
  <2>2. Len(requests) > 0 BY <1>4, <2>1, EmptySeq
  <2>3. 1 \in Live BY <1>1, <2>1, <2>2 DEF Live
  <2> QED BY <1>2, <2>1, <2>3 DEF Queued, Busy, Wraps
<1>6. ~Awaited(t) BY <1>5 DEF Inv, OneHolder, QueuedOrAwaited
<1>7. clients[i].busyMine + 1 < U16
  <2>1. Cardinality(notifiers[i]) + 1 < U16 BY <1>4, <1>5, <1>6, CountFacts, FewAwaited
  <2> QED BY <1>1, <1>4, <2>1, CountFacts
<1>8. /\ DOMAIN clients' = DOMAIN clients
      /\ \A j \in DOMAIN clients :
           clients'[j].busyMine = clients[j].busyMine + (IF j = i THEN 1 ELSE 0)
  BY <1>1, <1>4, <1>7, CountFacts, StartTaskMine
<1>9. BusyMatchesOutstanding'
  BY <1>1, <1>3, <1>8, CountFacts DEF BusyMatchesOutstanding, notifyVars
<1>10. PendingAccounting'
  <2>1. NotStarted = Len(requests) /\ NotStarted' = Len(requests) - 1
    BY <1>1, <1>3, CountFacts DEF NotStarted
  <2>2. Expired' = Expired BY <1>1 DEF Expired, callerVars
  <2> QED BY <1>1, <2>1, <2>2, CountFacts DEF PendingAccounting
<1> QED BY <1>9, <1>10 DEF Counts

\* The charge for the task being sent becomes the one for its notifier.
LEMMA QueueFrameCounts ==
  ASSUME FewTasks, Inv, Counts, QueueFrame PROVE Counts'
<1> DEFINE i == worker.index
           t == worker.wrap.task
           n == [transaction |-> transaction[i], wrap |-> worker.wrap]
<1>1. /\ worker.pc = "started"
      /\ notifiers' = [notifiers EXCEPT ![i] = @ \cup {n}]
      /\ worker' = [worker EXCEPT !.pc = "sent"]
      /\ UNCHANGED <<balancerVars, requests, pendingTasks, callerVars>>
  BY DEF QueueFrame
<1>2. worker # Idle /\ worker \in Busy BY <1>1 DEF Inv, TypeOK, Idle
<1>3. worker'.pc = "sent" BY <1>1, <1>2 DEF Busy
<1>4. i \in DOMAIN clients /\ t \in Tasks
  BY <1>2 DEF Inv, WorkerHoldsFront, Busy, Wraps
<1>5. Queued(t) BY <1>1, <1>3, CountFacts, FrontSent DEF QueueFrame, OneHolder
<1>6. \A m \in notifiers[i] : m # n
  <2>1. ~Awaited(t) BY <1>4, <1>5, CountFacts DEF OneHolder, QueuedOrAwaited
  <2> QED BY <1>4, <2>1, CountFacts DEF Awaited, Waiting
<1> HIDE DEF n
<1>7. Cardinality(notifiers[i] \cup {n}) = Cardinality(notifiers[i]) + 1
  BY <1>4, <1>6, CountFacts, FS_AddElement
<1>8. notifiers \in [Handlers -> SUBSET [transaction : Nat, wrap : Wraps]]
  BY DEF Inv, TypeOK
<1>9. BusyMatchesOutstanding'
  <2> SUFFICES ASSUME NEW j \in DOMAIN clients
               PROVE  clients[j].busyMine = Cardinality(notifiers'[j]) + 0
    BY <1>1, <1>3 DEF BusyMatchesOutstanding, balancerVars
  <2>1. CASE j = i
    <3>1. notifiers'[j] = notifiers[i] \cup {n} BY <1>1, <1>4, <1>8, <2>1, CountFacts
    <3>2. /\ Cardinality(notifiers[i]) \in Nat
          /\ clients[j].busyMine = Cardinality(notifiers[i]) + 1
      BY <1>1, <1>4, <2>1, CountFacts
    <3> QED BY <1>7, <3>1, <3>2
  <2>2. CASE j # i
    <3>1. notifiers'[j] = notifiers[j] BY <1>1, <1>8, <2>2, CountFacts
    <3> QED BY <2>2, <3>1, CountFacts
  <2> QED BY <2>1, <2>2
<1>10. PendingAccounting'
  BY <1>1, <1>3 DEF Counts, PendingAccounting, NotStarted, Expired, callerVars
<1> QED BY <1>9, <1>10 DEF Counts

\* The front that was sent is not counted any more when it is popped.
LEMMA PopRequestCounts ==
  ASSUME FewTasks, Inv, Counts, PopRequest PROVE Counts'
<1>1. /\ worker.pc = "sent" /\ requests' = Tail(requests) /\ worker'.pc = "idle"
      /\ UNCHANGED <<balancerVars, pendingTasks, callerVars, notifyVars>>
  BY DEF PopRequest, Idle
<1>2. BusyMatchesOutstanding' BY <1>1, ServersAside DEF balancerVars, notifyVars
<1>3. Len(requests') = Len(requests) - 1
  BY <1>1, CountFacts, HeadTailProperties DEF TypeOK, WorkerHoldsFront, Idle
<1>4. NotStarted' = NotStarted BY <1>1, <1>3, CountFacts DEF NotStarted
<1>5. PendingAccounting'
  BY <1>1, <1>4 DEF Counts, PendingAccounting, Expired, callerVars
<1> QED BY <1>2, <1>5 DEF Counts

\* A new server owes nothing.
LEMMA AddClientCounts ==
  ASSUME FewTasks, Inv, Counts, NEW s \in ToolServers, AddClient(s) PROVE Counts'
<1>1. /\ UpdateClient(s)
      /\ UNCHANGED <<queueVars, callerVars, notifiers>>
  BY DEF AddClient
<1>2. /\ \A j \in DOMAIN clients :
           j \in DOMAIN clients' /\ clients'[j].busyMine = clients[j].busyMine
      /\ \A j \in DOMAIN clients' \ DOMAIN clients : clients'[j].busyMine = 0
  BY <1>1, CountFacts, UpdateClientMine
<1>3. DOMAIN clients' \subseteq Handlers BY AddClientInv DEF Inv
<1>4. ASSUME NEW j \in DOMAIN clients', j \notin DOMAIN clients
      PROVE  Cardinality(notifiers[j]) = 0
  <2>1. notifiers[j] = {} BY <1>3, <1>4 DEF Inv, CompatibleOnceChecked
  <2> QED BY <2>1, FS_EmptySet
<1>5. worker.pc = "started" => worker.index \in DOMAIN clients
  BY DEF Inv, WorkerHoldsFront, Idle
<1>6. BusyMatchesOutstanding'
  <2> SUFFICES ASSUME NEW j \in DOMAIN clients'
               PROVE  clients'[j].busyMine = Cardinality(notifiers[j])
                        + (IF worker.pc = "started" /\ worker.index = j THEN 1 ELSE 0)
    BY <1>1 DEF BusyMatchesOutstanding, queueVars
  <2>1. CASE j \in DOMAIN clients BY <1>2, <2>1, CountFacts
  <2>2. CASE j \notin DOMAIN clients BY <1>2, <1>4, <1>5, <2>2
  <2> QED BY <2>1, <2>2
<1>7. PendingAccounting'
  BY <1>1 DEF Counts, PendingAccounting, NotStarted, Expired, queueVars, callerVars
<1> QED BY <1>6, <1>7 DEF Counts

\* A request that ends, in failure or with an answer, is taken off its server's count.
LEMMA RequestEndsCounts ==
  ASSUME FewTasks, Inv, Counts, NEW i \in DOMAIN clients, NEW n \in notifiers[i],
         notifiers' = [notifiers EXCEPT ![i] = @ \ {n}], worker' = worker,
         FrameFailed(i, n.wrap) \/ \E t \in Tasks : FrameAnswered(i, n.wrap, t)
  PROVE  Counts'
<1>1. FinishTask(i) BY DEF FrameFailed, FrameAnswered
<1>2. /\ Cardinality(notifiers[i] \ {n}) = Cardinality(notifiers[i]) - 1
      /\ Cardinality(notifiers[i]) > 0
  <2>1. IsFiniteSet(notifiers[i]) /\ Cardinality(notifiers[i]) \in Nat BY CountFacts
  <2>2. Cardinality(notifiers[i] \ {n}) = Cardinality(notifiers[i]) - 1
    BY <2>1, FS_RemoveElement
  <2>3. Cardinality(notifiers[i] \ {n}) \in Nat
    BY <2>1, FS_RemoveElement, FS_CardinalityType
  <2> QED BY <2>1, <2>2, <2>3
<1>3. clients[i].busyMine > 0 BY <1>2, CountFacts
<1>4. /\ DOMAIN clients' = DOMAIN clients
      /\ \A j \in DOMAIN clients :
           clients'[j].busyMine = clients[j].busyMine - (IF j = i THEN 1 ELSE 0)
  BY <1>1, <1>3, CountFacts, FinishTaskMine
<1>5. notifiers \in [Handlers -> SUBSET [transaction : Nat, wrap : Wraps]]
  BY DEF Inv, TypeOK
<1>6. BusyMatchesOutstanding'
  <2> SUFFICES ASSUME NEW j \in DOMAIN clients
               PROVE  clients'[j].busyMine = Cardinality(notifiers'[j])
                        + (IF worker.pc = "started" /\ worker.index = j THEN 1 ELSE 0)
    BY <1>4 DEF BusyMatchesOutstanding
  <2>1. CASE j = i
    <3>1. notifiers'[j] = notifiers[i] \ {n} BY <1>5, <2>1, CountFacts
    <3>2. clients'[j].busyMine = clients[i].busyMine - 1 BY <1>4, <2>1
    <3>3. Cardinality(notifiers'[j]) = Cardinality(notifiers[i]) - 1 BY <1>2, <3>1
    <3>4. /\ Cardinality(notifiers[i]) \in Nat
          /\ clients[i].busyMine = Cardinality(notifiers[i])
               + (IF worker.pc = "started" /\ worker.index = i THEN 1 ELSE 0)
      BY CountFacts
    <3> QED BY <2>1, <3>2, <3>3, <3>4
  <2>2. CASE j # i
    <3>1. notifiers'[j] = notifiers[j] BY <1>5, <2>2, CountFacts
    <3> QED BY <1>4, <2>2, <3>1, CountFacts
  <2> QED BY <2>1, <2>2
<1>7. n.wrap.task \in Tasks /\ outcomes[n.wrap.task] = << >>
  <2>1. n.wrap.task \in Tasks /\ Awaited(n.wrap.task)
    BY CountFacts, NotifierTaken DEF OneHolder
  <2> QED BY <2>1, CountFacts DEF OneHolder, NeverLost, InHand
<1>8. CASE QueueTask([n.wrap EXCEPT !.attemptsRemain = @ - 1]) /\ UNCHANGED outcomes
  <2>1. Len(requests') = Len(requests) + 1 BY <1>8 DEF QueueTask, Inv, TypeOK
  <2>2. pendingTasks' = pendingTasks + 1 /\ Expired' = Expired
    BY <1>8 DEF QueueTask, Expired
  <2>3. NotStarted' = NotStarted + 1 /\ NotStarted \in Int
    BY <2>1, CountFacts DEF NotStarted
  <2> QED BY <1>6, <2>2, <2>3, CountFacts DEF Counts, PendingAccounting
<1>9. ASSUME NEW o \in Outcomes, o # "expired", Callback(n.wrap.task, o),
             UNCHANGED <<requests, pendingTasks>>
      PROVE  Counts'
  <2>1. Expired' = Expired BY <1>7, <1>9, ExpiredStep
  <2> QED BY <1>6, <1>9, <2>1 DEF Counts, PendingAccounting, NotStarted
<1>10. CASE FrameFailed(i, n.wrap)
  <2>1. CASE CanRetry(n.wrap) BY <1>8, <1>10, <2>1 DEF FrameFailed
  <2>2. CASE ~CanRetry(n.wrap) BY <1>9, <1>10, <2>2 DEF FrameFailed, Outcomes
  <2> QED BY <2>1, <2>2
<1>11. ASSUME NEW t \in Tasks, FrameAnswered(i, n.wrap, t) PROVE Counts'
  <2>1. t # "expired" /\ t \in Outcomes BY ClientAssumption DEF Outcomes
  <2> QED BY <1>9, <1>11, <2>1 DEF FrameAnswered
<1> QED BY <1>10, <1>11

\* A handler's thread.
LEMMA HandlerCounts ==
  ASSUME FewTasks, Inv, Counts, NEW i \in DOMAIN clients, Handler(i) PROVE Counts'
<1>1. CASE Connect(i) \/ ConnectFails(i) \/ LoseConnection(i)
  <2>1. PICK b \in BOOLEAN : SetClientActive(i, b)
    BY <1>1 DEF Connect, ConnectFails, LoseConnection
  <2>2. UNCHANGED <<queueVars, callerVars, notifyVars>>
    BY <1>1 DEF Connect, ConnectFails, LoseConnection
  <2> QED BY <2>1, <2>2, CountFacts, MineKept, QuietStep
          DEF queueVars, callerVars, notifyVars
<1>2. CASE ClearVersionNotifier(i) \/ CheckVersionTimeout(i)
  <2>1. SetClientCompatible(i, FALSE) /\ UNCHANGED <<queueVars, callerVars, notifiers>>
    BY <1>2 DEF ClearVersionNotifier, CheckVersionTimeout
  <2> QED BY <2>1, CountFacts, MineKept, QuietStep DEF queueVars, callerVars
<1>3. CASE Cleared(i) \/ \E n \in Nat : WriteFrames(i, n)
  <2>1. UNCHANGED <<balancerVars, queueVars, callerVars, notifyVars>>
    BY <1>3 DEF Cleared, WriteFrames
  <2> QED BY <2>1, QuietStep DEF balancerVars, queueVars, callerVars, notifyVars
<1>4. ASSUME NEW n \in notifiers[i], ClearNotifier(i, n) \/ CheckTimeouts(i, n)
      PROVE  Counts'
  BY <1>4, RequestEndsCounts DEF ClearNotifier, CheckTimeouts
<1>5. ASSUME NEW r, ReadResponse(i, r) PROVE Counts'
  <2>1. r.frame \in Tasks /\ worker' = worker BY <1>5 DEF ReadResponse
  <2>2. CASE UNCHANGED <<balancerVars, requests, pendingTasks, outcomes, notifiers>>
    BY <2>1, <2>2, QuietStep DEF balancerVars
  <2>3. ASSUME NEW n \in notifiers[i], notifiers' = [notifiers EXCEPT ![i] = @ \ {n}],
               FrameAnswered(i, n.wrap, r.frame)
        PROVE  Counts'
    BY <2>1, <2>3, RequestEndsCounts
  <2> QED BY <1>5, <2>2, <2>3 DEF ReadResponse
<1>6. ASSUME NEW r, ReadVersions(i, r) PROVE Counts'
  <2>1. UNCHANGED <<queueVars, callerVars, notifiers>> BY <1>6 DEF ReadVersions
  <2>2. \/ \E b \in BOOLEAN : SetClientCompatible(i, b)
        \/ UNCHANGED balancerVars
    BY <1>6, ClientAssumption DEF ReadVersions
  <2> QED BY <2>1, <2>2, CountFacts, MineKept, QuietStep
          DEF balancerVars, queueVars, callerVars
<1>7. ASSUME NEW load \in QueueLoads, ReadStatus(i, load) PROVE Counts'
  <2>1. SetServerSideLoad(i, load) /\ UNCHANGED <<queueVars, callerVars, notifyVars>>
    BY <1>7 DEF ReadStatus
  <2>2. load \in UInt16 BY BoundsAssumption
  <2> QED BY <2>1, <2>2, CountFacts, MineKept, QuietStep
          DEF queueVars, callerVars, notifyVars
<1>8. \A n \in 0 .. Len(framesQueueOutput[i]) + Len(outputSegments[i]) : n \in Nat
  <2>1. /\ framesQueueOutput[i] \in Seq(Frames)
        /\ outputSegments[i] \in Seq([frame : Frames, transaction : Nat])
    BY DEF Inv, TypeOK
  <2>2. Len(framesQueueOutput[i]) \in Nat /\ Len(outputSegments[i]) \in Nat
    BY <2>1, LenProperties
  <2> QED BY <2>2
<1> QED BY <1>1, <1>2, <1>3, <1>4, <1>5, <1>6, <1>7, <1>8 DEF Handler

\* Every step keeps the counts.
LEMMA CountsNext == FewTasks /\ Inv /\ Counts /\ [Next]_vars => Counts'
<1> SUFFICES ASSUME FewTasks, Inv, Counts, [Next]_vars PROVE Counts' OBVIOUS
<1>1. CASE ProcessTasks
  BY <1>1, PickTaskCounts, CountTaskCounts, QueueFrameCounts, PopRequestCounts
     DEF ProcessTasks
<1>2. ASSUME NEW t \in Tasks, InvokeTool(t) PROVE Counts' BY <1>2, InvokeToolCounts
<1>3. ASSUME NEW k \in 1 .. Len(requests), ExpireTask(k) PROVE Counts'
  BY <1>3, ExpireTaskCounts
<1>4. ASSUME NEW s \in ToolServers, AddClient(s) PROVE Counts' BY <1>4, AddClientCounts
<1>5. ASSUME NEW i \in DOMAIN clients, Handler(i) PROVE Counts' BY <1>5, HandlerCounts
<1>6. CASE UNCHANGED vars
  BY <1>6, QuietStep DEF vars, balancerVars, queueVars, callerVars, notifyVars
<1> QED BY <1>1, <1>2, <1>3, <1>4, <1>5, <1>6 DEF Next

\* Nothing is counted at the start.
LEMMA CountsInit == Init => Counts
<1> SUFFICES ASSUME Init PROVE Counts OBVIOUS
<1>1. clients = << >> /\ requests = << >> /\ pendingTasks = 0 /\ worker.pc = "idle"
  BY DEF Init, BalancerInit, Idle
<1>2. Expired = {} BY DEF Init, Expired
<1>3. BusyMatchesOutstanding BY <1>1 DEF BusyMatchesOutstanding
<1>4. PendingAccounting
  <2>1. NotStarted = 0 BY <1>1 DEF NotStarted
  <2> QED BY <1>1, <1>2, <2>1, FS_EmptySet DEF PendingAccounting
<1> QED BY <1>3, <1>4 DEF Counts

(***************************************************************************)
(* Theorems.                                                               *)
(***************************************************************************)
LEMMA CountsInvariant == FewTasks /\ Spec => []Counts
<1>1. FewTasks => []FewTasks
  <2>1. FewTasks /\ [TRUE]_vars => FewTasks' BY DEF FewTasks
  <2> QED BY <2>1, PTL
<1> QED BY <1>1, CountsInit, CountsNext, Invariance, PTL DEF Spec

\* With fewer than 65536 invocations a server's m_busyMine is exactly the number of
\* requests it owes an answer to, whichever thread ends them.
THEOREM BusyIsOutstanding == FewTasks /\ Spec => []BusyMatchesOutstanding
<1>1. Counts => BusyMatchesOutstanding BY DEF Counts
<1> QED BY <1>1, CountsInvariant, PTL

\* m_pendingTasks is the number of waiting tasks and of those that expired waiting.
THEOREM PendingIsQueuedOrExpired == FewTasks /\ Spec => []PendingAccounting
<1>1. Counts => PendingAccounting BY DEF Counts
<1> QED BY <1>1, CountsInvariant, PTL

(***************************************************************************)
(* The results of the invocations, when all announcements are of one       *)
(* server: a transaction number then stands for one task, on the frame     *)
(* object, in the bytes written, at the server and in the notifier.  (With *)
(* a second server a frame that waits in one handler's queue can get a     *)
(* number of the other's.)                                                 *)
(***************************************************************************)
OneServer == \A s, u \in ToolServers : EqualIdTo(s, u)

Request(t, k) == [frame |-> t, transaction |-> k]
Stands(k, t) ==
  \/ k > 0 /\ frameTransaction[t] = k
  \/ \E i \in Handlers : \E n \in notifiers[i] : n.transaction = k /\ n.wrap.task = t
  \/ \E i \in Handlers : \E j \in DOMAIN outputSegments[i] :
       outputSegments[i][j] = Request(t, k)
  \/ \E i \in Handlers : \E x \in DOMAIN server[i] : x.frame = t /\ x.transaction = k

\* Numbers stand for one task each, and come from the only handler, whose first is that of
\* the version request; a task that is to be written has got one.
StandsForOne ==
  \A k \in Nat : \A t, u \in Tasks : Stands(k, t) /\ Stands(k, u) => t = u
NumbersUsed ==
  \A k \in Nat : \A t \in Tasks :
    Stands(k, t) => 1 \in Handlers /\ k < transaction[1]
WritesNumbered ==
  \A i \in Handlers : \A j \in DOMAIN framesQueueOutput[i] :
    framesQueueOutput[i][j] \in Tasks => frameTransaction[framesQueueOutput[i][j]] > 0
VersionFirst == \A i \in DOMAIN clients : transaction[i] > 0

Numbers ==
  /\ StandsForOne /\ NumbersUsed /\ WritesNumbered /\ VersionFirst
  /\ server = [i \in Handlers |-> server[i]]

\* Only one handler is ever in use.
LEMMA OnlyFirst ==
  ASSUME OneServer, Inv
  PROVE  /\ \A i \in DOMAIN clients : i = 1 /\ 1 \in Handlers
         /\ worker # Idle => worker.index = 1 /\ 1 \in DOMAIN clients
<1>1. clients \in Seq(ClientInfo) BY DEF Inv, ClientsTypeOK
<1>2. DOMAIN clients = 1 .. Len(clients) /\ Len(clients) \in Nat BY <1>1, LenProperties
<1>3. ASSUME NEW i \in DOMAIN clients PROVE i = 1 /\ 1 \in Handlers
  <2>1. 1 \in DOMAIN clients BY <1>2
  <2>2. clients[i] \in ClientInfo /\ clients[1] \in ClientInfo
    BY <1>1, <1>2, <2>1, ElementOfSeq
  <2>3. EqualIdTo(clients[i].toolServer, clients[1].toolServer)
    BY <2>2 DEF OneServer, ClientInfo
  <2> QED BY <2>1, <2>3 DEF Inv, ServersKnownOnce
<1> QED BY <1>3 DEF Inv, WorkerHoldsFront

\* Frames and numbers stay, and no notifier is new.
LEMMA QuietNumbers ==
  ASSUME Numbers, UNCHANGED <<frameVars, frameTransaction, transaction>>,
         DOMAIN clients' = DOMAIN clients,
         \A i \in Handlers : notifiers'[i] \subseteq notifiers[i]
  PROVE  Numbers'
<1>1. ASSUME NEW k \in Nat, NEW t \in Tasks, Stands(k, t)' PROVE Stands(k, t)
  BY <1>1 DEF Stands, frameVars
<1>2. StandsForOne' BY <1>1 DEF Numbers, StandsForOne
<1>3. NumbersUsed' BY <1>1 DEF Numbers, NumbersUsed
<1>4. WritesNumbered' BY DEF Numbers, WritesNumbered, frameVars
<1>5. VersionFirst' BY DEF Numbers, VersionFirst
<1> QED BY <1>2, <1>3, <1>4, <1>5 DEF Numbers, frameVars

\* An operation on one client keeps the others.
LEMMA SameServers ==
  ASSUME NEW i,
         \/ StartTask(i) \/ FinishTask(i)
         \/ \E b : SetClientActive(i, b) \/ SetClientCompatible(i, b)
         \/ \E load : SetServerSideLoad(i, load)
  PROVE  DOMAIN clients' = DOMAIN clients
BY DEF StartTask, FinishTask, SetClientActive, SetClientCompatible, SetServerSideLoad, SetClients

\* The connection is lost: what the server worked on is gone, and perhaps a frame.
LEMMA LoseConnectionNumbers ==
  ASSUME Inv, Numbers, NEW i \in DOMAIN clients, LoseConnection(i) PROVE Numbers'
<1>1. /\ i \in Handlers
      /\ server' = [server EXCEPT ![i] = EmptyBag]
      /\ UNCHANGED <<framesQueueOutput, notifyVars, frameTransaction>>
      /\ DOMAIN clients' = DOMAIN clients
      /\ \/ UNCHANGED outputSegments
         \/ /\ outputSegments[i] # << >>
            /\ outputSegments' = [outputSegments EXCEPT ![i] = Tail(@)]
  BY SameServers DEF Inv, LoseConnection
<1>2. outputSegments \in [Handlers -> Seq([frame : Frames, transaction : Nat])]
  BY DEF Inv, TypeOK
<1>3. ASSUME NEW h \in Handlers, NEW j \in DOMAIN outputSegments'[h]
      PROVE  \E m \in DOMAIN outputSegments[h] : outputSegments'[h][j] = outputSegments[h][m]
  <2>1. CASE outputSegments'[h] = outputSegments[h] BY <2>1
  <2>2. CASE outputSegments[h] # << >> /\ outputSegments'[h] = Tail(outputSegments[h])
    <3>1. outputSegments[h] \in Seq([frame : Frames, transaction : Nat]) BY <1>2
    <3>2. j \in 1 .. Len(outputSegments[h]) - 1 /\ Len(outputSegments[h]) \in Nat
          /\ DOMAIN outputSegments[h] = 1 .. Len(outputSegments[h])
          /\ outputSegments'[h][j] = outputSegments[h][j + 1]
      <4> HIDE <1>1
      <4> QED BY <2>2, <3>1
    <3>3. j + 1 \in DOMAIN outputSegments[h] BY <3>2
    <3> QED BY <3>2, <3>3
  <2> QED BY <1>1, <1>2, <2>1, <2>2
<1>4. \A h \in Handlers : DOMAIN server'[h] \subseteq DOMAIN server[h]
  <2>1. DOMAIN EmptyBag = {} BY DEF EmptyBag, SetToBag
  <2>2. DOMAIN server = Handlers BY DEF Numbers
  <2> HIDE DEF EmptyBag
  <2>3. \A h \in Handlers : server'[h] = IF h = i THEN EmptyBag ELSE server[h] BY <1>1, <2>2
  <2> QED BY <2>1, <2>3
<1>5. ASSUME NEW k \in Nat, NEW t \in Tasks, Stands(k, t)' PROVE Stands(k, t)
  BY <1>1, <1>3, <1>4, <1>5 DEF Stands, notifyVars
<1>6. StandsForOne' BY <1>5 DEF Numbers, StandsForOne
<1>7. NumbersUsed' BY <1>1, <1>5 DEF Numbers, NumbersUsed, notifyVars
<1>8. WritesNumbered' BY <1>1 DEF Numbers, WritesNumbered
<1>9. VersionFirst' BY <1>1 DEF Numbers, VersionFirst, notifyVars
<1>10. server' = [h \in Handlers |-> server'[h]] BY <1>1 DEF Numbers
<1> QED BY <1>6, <1>7, <1>8, <1>9, <1>10 DEF Numbers

\* A response is read: one copy of its request leaves the server.
LEMMA AnsweredNumbers ==
  ASSUME Inv, Numbers, NEW i \in DOMAIN clients, NEW r, Answered(i, r),
         UNCHANGED <<framesQueueOutput, outputSegments, transaction, frameTransaction>>,
         DOMAIN clients' = DOMAIN clients,
         \A h \in Handlers : notifiers'[h] \subseteq notifiers[h]
  PROVE  Numbers'
<1>1. i \in Handlers /\ server' = [server EXCEPT ![i] = @ (-) SetToBag({r})]
  BY DEF Inv, Answered
<1>2. \A h \in Handlers : DOMAIN server'[h] \subseteq DOMAIN server[h]
  <2>1. DOMAIN (server[i] (-) SetToBag({r})) \subseteq DOMAIN server[i] BY DEF (-)
  <2>2. DOMAIN server = Handlers BY DEF Numbers
  <2> DEFINE left == server[i] (-) SetToBag({r})
  <2>3. server' = [server EXCEPT ![i] = left] BY <1>1
  <2> HIDE DEF left
  <2>4. \A h \in Handlers : server'[h] = IF h = i THEN left ELSE server[h] BY <1>1, <2>2, <2>3
  <2> QED BY <2>1, <2>4 DEF left
<1>3. ASSUME NEW k \in Nat, NEW t \in Tasks, Stands(k, t)' PROVE Stands(k, t)
  BY <1>2, <1>3 DEF Stands
<1>4. StandsForOne' BY <1>3 DEF Numbers, StandsForOne
<1>5. NumbersUsed' BY <1>3 DEF Numbers, NumbersUsed
<1>6. WritesNumbered' BY DEF Numbers, WritesNumbered
<1>7. VersionFirst' BY DEF Numbers, VersionFirst
<1>8. server' = [h \in Handlers |-> server'[h]]
  <2> DEFINE left == server[i] (-) SetToBag({r})
  <2>1. server' = [server EXCEPT ![i] = left] BY <1>1
  <2> HIDE DEF left
  <2> QED BY <2>1 DEF Numbers
<1> QED BY <1>4, <1>5, <1>6, <1>7, <1>8 DEF Numbers

\* Queued frames get their bytes, with the number they have at that moment, and some are
\* written.
LEMMA WriteFramesNumbers ==
  ASSUME Inv, Numbers, NEW i \in DOMAIN clients, NEW n \in Nat, WriteFrames(i, n)
  PROVE  Numbers'
<1> DEFINE S == [frame : Frames, transaction : Nat]
           queue == framesQueueOutput[i]
           new == [k \in DOMAIN queue |-> Serialized(queue[k])]
           all == outputSegments[i] \o new
           sent(x) == Cardinality({k \in 1 .. n : all[k] = x})
           received == server[i] (+) [x \in {all[k] : k \in 1 .. n} |-> sent(x)]
<1>1. TypeOK /\ i \in Handlers BY DEF Inv
<1>2. /\ n <= Len(all)
      /\ framesQueueOutput' = [framesQueueOutput EXCEPT ![i] = << >>]
      /\ outputSegments' = [outputSegments EXCEPT ![i] = SubSeq(all, n + 1, Len(all))]
      /\ server' = [server EXCEPT ![i] = received]
      /\ UNCHANGED <<clients, transaction, notifiers, frameTransaction>>
  BY DEF WriteFrames, balancerVars, notifyVars
<1>3. new \in Seq(S) /\ DOMAIN new = DOMAIN queue /\ Len(new) \in Nat
  <2>1. /\ Len(queue) \in Nat /\ DOMAIN queue = 1 .. Len(queue)
        /\ \A k \in DOMAIN queue : queue[k] \in Frames
    BY <1>1, LenProperties, ElementOfSeq DEF TypeOK
  <2>2. \A k \in DOMAIN queue : Serialized(queue[k]) \in S
    BY <1>1, <2>1 DEF Serialized, TypeOK, Frames
  <2>3. new \in Seq(S) BY <2>1, <2>2, IsASeq
  <2> HIDE DEF S, queue
  <2> QED BY <2>3, LenProperties
<1>4. outputSegments[i] \in Seq(S) BY <1>1 DEF TypeOK
\* Whatever has bytes stood for its task.
<1>5. ASSUME NEW k \in Nat, NEW t \in Tasks, NEW j \in 1 .. Len(all), all[j] = Request(t, k)
      PROVE  Stands(k, t)
  <2>1. \/ j \in DOMAIN outputSegments[i] /\ all[j] = outputSegments[i][j]
        \/ \E m \in DOMAIN queue : all[j] = new[m]
    <3> DEFINE old == outputSegments[i]
    <3>1. DOMAIN new = 1 .. Len(new) BY <1>3, LenProperties
    <3>2. old \in Seq(S) /\ new \in Seq(S) BY <1>3, <1>4
    <3> HIDE DEF S, new, old
    <3>3. DOMAIN old = 1 .. Len(old) /\ Len(old) \in Nat /\ Len(new) \in Nat
      BY <3>2, LenProperties
    <3>4. Len(all) = Len(old) + Len(new) BY <3>2 DEF old
    <3>5. all[j] = IF j <= Len(old) THEN old[j] ELSE new[j - Len(old)]
      BY <3>2, <3>3, <3>4, <1>5 DEF old
    <3>6. CASE j <= Len(old) BY <3>3, <3>5, <3>6, <1>5 DEF old
    <3>7. CASE j > Len(old)
      <4>1. j - Len(old) \in 1 .. Len(new) BY <3>3, <3>4, <3>7
      <4>2. all[j] = new[j - Len(old)] BY <3>3, <3>5, <3>7
      <4>3. j - Len(old) \in DOMAIN queue BY <4>1, <3>1, <1>3
      <4> QED BY <4>2, <4>3
    <3> QED BY <3>3, <3>6, <3>7
  <2>2. CASE j \in DOMAIN outputSegments[i] /\ all[j] = outputSegments[i][j]
    <3> HIDE DEF all
    <3> QED BY <1>1, <1>5, <2>2 DEF Stands
  <2>3. ASSUME NEW m \in DOMAIN queue, all[j] = new[m] PROVE Stands(k, t)
    <3>1. Serialized(queue[m]) = Request(t, k)
      <4> HIDE DEF all
      <4> QED BY <1>5, <2>3
    <3>2. queue[m] = t BY <3>1 DEF Serialized, Request
    <3>3. t # VersionRequest BY ClientAssumption
    <3>4. k = frameTransaction[t] BY <3>1, <3>2, <3>3 DEF Serialized, Request
    <3>5. frameTransaction[t] > 0
      <4>1. framesQueueOutput[i][m] \in Tasks BY <3>2
      <4>2. frameTransaction[framesQueueOutput[i][m]] > 0
        BY <1>1, <4>1 DEF Numbers, WritesNumbered
      <4> QED BY <3>2, <4>2
    <3> QED BY <3>4, <3>5 DEF Stands
  <2> QED BY <2>1, <2>2, <2>3
<1> HIDE DEF new
<1>6. all \in Seq(S) /\ Len(all) \in Nat
  BY <1>3, <1>4, ConcatProperties, LenProperties
<1>7. ASSUME NEW k \in Nat, NEW t \in Tasks, NEW j \in DOMAIN SubSeq(all, n + 1, Len(all)),
             SubSeq(all, n + 1, Len(all))[j] = Request(t, k)
      PROVE  Stands(k, t)
  <2>1. j \in 1 .. Len(all) - n /\ SubSeq(all, n + 1, Len(all))[j] = all[n + j]
    <3> HIDE DEF all, S
    <3> QED BY <1>2, <1>6
  <2>2. n + j \in 1 .. Len(all)
    <3> HIDE DEF all
    <3> QED BY <1>2, <1>6, <2>1
  <2> QED BY <1>5, <1>7, <2>1, <2>2
<1>8. ASSUME NEW k \in Nat, NEW t \in Tasks, NEW x \in DOMAIN received,
             x.frame = t, x.transaction = k
      PROVE  Stands(k, t)
  <2>1. DOMAIN received = DOMAIN server[i] \cup {all[j] : j \in 1 .. n}
    <3> HIDE DEF all
    <3> QED BY DEF (+)
  <2>2. CASE x \in DOMAIN server[i] BY <1>1, <1>8, <2>2 DEF Stands
  <2>3. ASSUME NEW j \in 1 .. n, all[j] = x PROVE Stands(k, t)
    <3>1. j \in 1 .. Len(all) /\ all[j] \in S
      <4>1. j \in 1 .. Len(all)
        <5> HIDE DEF all
        <5> QED BY <1>2, <1>6
      <4> HIDE DEF all, S
      <4> QED BY <4>1, <1>6, ElementOfSeq
    <3>2. all[j] = Request(t, k)
      <4> HIDE DEF all
      <4> QED BY <3>1, <2>3, <1>8 DEF Request
    <3> QED BY <1>5, <3>1, <3>2
  <2> HIDE DEF all, received
  <2> QED BY <1>8, <2>1, <2>2, <2>3
<1> HIDE DEF all, received, S
<1>9. /\ \A h \in Handlers : outputSegments'[h] = IF h = i THEN SubSeq(all, n + 1, Len(all))
                                                  ELSE outputSegments[h]
      /\ \A h \in Handlers : server'[h] = IF h = i THEN received ELSE server[h]
      /\ \A h \in Handlers : framesQueueOutput'[h] = IF h = i THEN << >> ELSE framesQueueOutput[h]
      /\ server' = [h \in Handlers |-> server'[h]]
  BY <1>1, <1>2 DEF TypeOK, Numbers
<1>10. ASSUME NEW k \in Nat, NEW t \in Tasks, Stands(k, t)' PROVE Stands(k, t)
  <2>1. ASSUME NEW h \in Handlers, NEW j \in DOMAIN outputSegments'[h],
               outputSegments'[h][j] = Request(t, k)
        PROVE  Stands(k, t)
    <3>1. CASE h = i BY <1>7, <1>9, <2>1, <3>1
    <3>2. CASE h # i BY <1>9, <2>1, <3>2 DEF Stands
    <3> QED BY <3>1, <3>2
  <2>2. ASSUME NEW h \in Handlers, NEW x \in DOMAIN server'[h],
               x.frame = t, x.transaction = k
        PROVE  Stands(k, t)
    <3>1. CASE h = i BY <1>8, <1>9, <2>2, <3>1
    <3>2. CASE h # i BY <1>9, <2>2, <3>2 DEF Stands
    <3> QED BY <3>1, <3>2
  <2>3. \/ k > 0 /\ frameTransaction[t] = k
        \/ \E h \in Handlers : \E m \in notifiers[h] : m.transaction = k /\ m.wrap.task = t
        \/ \E h \in Handlers : \E j \in DOMAIN outputSegments'[h] :
             outputSegments'[h][j] = Request(t, k)
        \/ \E h \in Handlers : \E x \in DOMAIN server'[h] : x.frame = t /\ x.transaction = k
    BY <1>2, <1>10 DEF Stands, Request
  <2> QED BY <2>1, <2>2, <2>3 DEF Stands
<1>11. StandsForOne' BY <1>10 DEF Numbers, StandsForOne
<1>12. NumbersUsed' BY <1>2, <1>10 DEF Numbers, NumbersUsed
<1>13. WritesNumbered' BY <1>2, <1>9 DEF Numbers, WritesNumbered
<1>14. VersionFirst' BY <1>2 DEF Numbers, VersionFirst
<1> QED BY <1>9, <1>11, <1>12, <1>13, <1>14 DEF Numbers

\* A server is announced: the number of the version request is used.
LEMMA AddClientNumbers ==
  ASSUME OneServer, Inv, Numbers, NEW s \in ToolServers, AddClient(s)
  PROVE  Numbers'
<1> DEFINE i == Len(clients) + 1
<1>1. /\ UNCHANGED <<notifiers, outputSegments, server, frameTransaction>>
      /\ UpdateClient(s)
  BY DEF AddClient
<1>2. TypeOK /\ ClientsInv BY DEF Inv, ClientsInv
<1>3. \A k \in Nat, t \in Tasks : Stands(k, t)' <=> Stands(k, t) BY <1>1 DEF Stands
<1>4. StandsForOne' BY <1>3 DEF Numbers, StandsForOne
<1>5. CASE Skipped(s) \/ Known(s)
  <2>1. UNCHANGED <<transaction, framesQueueOutput>> BY <1>5 DEF AddClient
  <2>2. DOMAIN clients' = DOMAIN clients BY <1>2, <1>1, <1>5, UpdateClientStep
  <2>3. NumbersUsed' BY <1>3, <2>1 DEF Numbers, NumbersUsed
  <2>4. WritesNumbered' BY <1>1, <2>1 DEF Numbers, WritesNumbered
  <2>5. VersionFirst' BY <2>1, <2>2 DEF Numbers, VersionFirst
  <2> QED BY <1>1, <1>4, <2>3, <2>4, <2>5 DEF Numbers
<1>6. CASE ~Skipped(s) /\ ~Known(s)
  <2>1. /\ i \in Handlers
        /\ transaction' = [transaction EXCEPT ![i] = @ + 1]
        /\ framesQueueOutput' = [framesQueueOutput EXCEPT ![i] = Append(@, VersionRequest)]
    BY <1>6 DEF AddClient
  <2>2. DOMAIN clients' = 1 .. i BY <1>2, <1>1, <1>6, UpdateClientStep
  <2>3. /\ transaction \in [Handlers -> Nat] /\ framesQueueOutput \in [Handlers -> Seq(Frames)]
        /\ DOMAIN clients = 1 .. Len(clients) /\ Len(clients) \in Nat
    BY <1>2, LenProperties DEF TypeOK, ClientsInv, ClientsTypeOK
  <2>4. \A h \in Handlers : transaction'[h] >= transaction[h] /\ transaction'[h] \in Nat
    <3> HIDE DEF i
    <3> QED BY <2>1, <2>3
  <2>5. NumbersUsed' BY <1>3, <2>3, <2>4 DEF Numbers, NumbersUsed
  <2>6. WritesNumbered'
    <3> SUFFICES ASSUME NEW h \in Handlers, NEW j \in DOMAIN framesQueueOutput'[h],
                        framesQueueOutput'[h][j] \in Tasks
                 PROVE  frameTransaction[framesQueueOutput'[h][j]] > 0
      BY <1>1 DEF WritesNumbered
    <3>1. CASE h # i BY <2>1, <2>3, <3>1 DEF Numbers, WritesNumbered
    <3>2. CASE h = i
      <4>1. framesQueueOutput[h] \in Seq(Frames) BY <2>3
      <4>2. framesQueueOutput'[h] = Append(framesQueueOutput[h], VersionRequest)
        BY <2>1, <2>3, <3>2
      <4>3. \/ j \in DOMAIN framesQueueOutput[h]
               /\ framesQueueOutput'[h][j] = framesQueueOutput[h][j]
            \/ framesQueueOutput'[h][j] = VersionRequest
        BY <4>1, <4>2
      <4>4. VersionRequest \notin Tasks BY ClientAssumption
      <4> QED BY <4>3, <4>4 DEF Numbers, WritesNumbered
    <3> QED BY <3>1, <3>2
  <2>7. VersionFirst'
    <3> SUFFICES ASSUME NEW h \in 1 .. i PROVE transaction'[h] > 0 BY <2>2 DEF VersionFirst
    <3>1. CASE h = i BY <2>1, <2>3, <3>1
    <3>2. CASE h # i
      <4>1. h \in DOMAIN clients BY <2>3, <3>2
      <4>2. h \in Handlers /\ transaction[h] > 0
        BY <4>1 DEF Inv, Numbers, VersionFirst
      <4> QED BY <2>3, <2>4, <4>2
    <3> QED BY <3>1, <3>2
  <2> QED BY <1>1, <1>4, <2>5, <2>6, <2>7 DEF Numbers
<1> QED BY <1>5, <1>6

\* A request is numbered and queued: the number is new.
LEMMA QueueFrameNumbers ==
  ASSUME OneServer, Inv, Numbers, QueueFrame
  PROVE  Numbers'
<1> DEFINE t == worker.wrap.task
           n == [transaction |-> transaction[1], wrap |-> worker.wrap]
<1>1. worker # Idle /\ worker.pc = "started" BY DEF QueueFrame, Idle
<1>2. worker.index = 1 /\ 1 \in DOMAIN clients /\ 1 \in Handlers BY <1>1, OnlyFirst
<1>3. /\ frameTransaction' = [frameTransaction EXCEPT ![t] = transaction[1]]
      /\ transaction' = [transaction EXCEPT ![1] = @ + 1]
      /\ notifiers' = [notifiers EXCEPT ![1] = @ \cup {n}]
      /\ framesQueueOutput' = [framesQueueOutput EXCEPT ![1] = Append(@, t)]
      /\ UNCHANGED <<clients, outputSegments, server>>
  BY <1>2 DEF QueueFrame, balancerVars
<1>4. /\ frameTransaction \in [Tasks -> Nat] /\ transaction \in [Handlers -> Nat]
      /\ framesQueueOutput \in [Handlers -> Seq(Frames)]
      /\ notifiers \in [Handlers -> SUBSET [transaction : Nat, wrap : Wraps]]
      /\ worker.wrap \in Wraps
  BY <1>1 DEF Inv, TypeOK, Busy
<1>5. t \in Tasks BY <1>4 DEF Wraps
<1>6. transaction[1] > 0 /\ transaction[1] \in Nat /\ transaction'[1] = transaction[1] + 1
  BY <1>2, <1>3, <1>4 DEF Numbers, VersionFirst
<1>7. n.transaction = transaction[1] /\ n.wrap.task = t OBVIOUS
<1> HIDE DEF n, t
<1>8. /\ \A u \in Tasks : frameTransaction'[u] = IF u = t THEN transaction[1]
                                                 ELSE frameTransaction[u]
      /\ \A h \in Handlers : notifiers'[h] \subseteq notifiers[h] \cup {n}
  BY <1>2, <1>3, <1>4
<1>9. ASSUME NEW k \in Nat, NEW u \in Tasks, Stands(k, u)'
      PROVE  Stands(k, u) \/ (k = transaction[1] /\ u = t)
  <2>1. CASE k > 0 /\ frameTransaction'[u] = k BY <1>8, <2>1 DEF Stands
  <2>2. ASSUME NEW h \in Handlers, NEW m \in notifiers'[h], m.transaction = k, m.wrap.task = u
        PROVE  Stands(k, u) \/ (k = transaction[1] /\ u = t)
    <3>1. CASE m \in notifiers[h] BY <2>2, <3>1 DEF Stands
    <3>2. CASE m = n BY <1>7, <2>2, <3>2
    <3> QED BY <1>8, <2>2, <3>1, <3>2
  <2>3. CASE \/ \E h \in Handlers : \E j \in DOMAIN outputSegments[h] :
                  outputSegments[h][j] = Request(u, k)
             \/ \E h \in Handlers : \E x \in DOMAIN server[h] : x.frame = u /\ x.transaction = k
    BY <2>3 DEF Stands
  <2>4. \/ k > 0 /\ frameTransaction'[u] = k
        \/ \E h \in Handlers : \E m \in notifiers'[h] : m.transaction = k /\ m.wrap.task = u
        \/ \E h \in Handlers : \E j \in DOMAIN outputSegments[h] :
             outputSegments[h][j] = Request(u, k)
        \/ \E h \in Handlers : \E x \in DOMAIN server[h] : x.frame = u /\ x.transaction = k
    BY <1>3, <1>9 DEF Stands, Request
  <2> QED BY <2>1, <2>2, <2>3, <2>4
<1>10. ASSUME NEW k \in Nat, NEW u \in Tasks, Stands(k, u) PROVE k < transaction[1]
  BY <1>10 DEF Numbers, NumbersUsed
<1>11. StandsForOne'
  <2> SUFFICES ASSUME NEW k \in Nat, NEW u \in Tasks, NEW v \in Tasks,
                      Stands(k, u)', Stands(k, v)'
               PROVE  u = v
    BY DEF StandsForOne
  <2>1. Stands(k, u) \/ (k = transaction[1] /\ u = t) BY <1>9
  <2>2. Stands(k, v) \/ (k = transaction[1] /\ v = t) BY <1>9
  <2>3. CASE k = transaction[1] BY <1>6, <1>10, <2>1, <2>2, <2>3
  <2>4. CASE k # transaction[1] BY <2>1, <2>2, <2>4 DEF Numbers, StandsForOne
  <2> QED BY <2>3, <2>4
<1>12. NumbersUsed'
  <2> SUFFICES ASSUME NEW k \in Nat, NEW u \in Tasks, Stands(k, u)'
               PROVE  1 \in Handlers /\ k < transaction'[1]
    BY DEF NumbersUsed, Handlers
  <2>1. k < transaction[1] \/ k = transaction[1] BY <1>9, <1>10
  <2> QED BY <1>2, <1>6, <2>1
<1>13. WritesNumbered'
  <2> SUFFICES ASSUME NEW h \in Handlers, NEW j \in DOMAIN framesQueueOutput'[h],
                      NEW u \in Tasks, framesQueueOutput'[h][j] = u
               PROVE  frameTransaction'[u] > 0
    BY DEF WritesNumbered, Handlers
  <2>1. CASE u = t BY <1>6, <1>8, <2>1
  <2>2. CASE u # t
    <3>1. framesQueueOutput[h] \in Seq(Frames) BY <1>4
    <3>2. \/ framesQueueOutput'[h] = framesQueueOutput[h]
          \/ framesQueueOutput'[h] = Append(framesQueueOutput[h], t)
      BY <1>3, <1>4
    <3>3. j \in DOMAIN framesQueueOutput[h] /\ framesQueueOutput[h][j] = u
      <4>1. CASE framesQueueOutput'[h] = framesQueueOutput[h] BY <4>1
      <4>2. CASE framesQueueOutput'[h] = Append(framesQueueOutput[h], t)
        BY <2>2, <3>1, <4>2
      <4> QED BY <3>2, <4>1, <4>2
    <3>4. frameTransaction[u] > 0 BY <3>3 DEF Numbers, WritesNumbered
    <3> QED BY <1>8, <2>2, <3>4
  <2> QED BY <2>1, <2>2
<1>14. VersionFirst'
  <2> SUFFICES ASSUME NEW h \in DOMAIN clients PROVE transaction'[h] > 0
    BY <1>3 DEF VersionFirst
  <2>1. h \in Handlers /\ transaction[h] > 0 BY DEF Numbers, VersionFirst, Inv
  <2> QED BY <1>3, <1>4, <1>6, <2>1
<1> QED BY <1>3, <1>11, <1>12, <1>13, <1>14 DEF Numbers

\* A callback that is told of a failure, or gets the result of its own task.
LEMMA CallbackResult ==
  ASSUME TypeOK, ResultBelongsToTask, NEW t \in Tasks, NEW o \in Outcomes, Callback(t, o),
         o \in Tasks => o = t
  PROVE  ResultBelongsToTask'
<1>1. outcomes \in [Tasks -> Seq(Outcomes)] BY DEF TypeOK
<1>2. outcomes' = [outcomes EXCEPT ![t] = Append(outcomes[t], o)] BY DEF Callback
<1> SUFFICES ASSUME NEW u \in Tasks, NEW k \in DOMAIN outcomes'[u], outcomes'[u][k] \in Tasks
             PROVE  outcomes'[u][k] = u
  BY DEF ResultBelongsToTask
<1>3. CASE u # t BY <1>1, <1>2, <1>3 DEF ResultBelongsToTask
<1>4. CASE u = t
  <2>1. outcomes[t] \in Seq(Outcomes) /\ outcomes'[u] = Append(outcomes[t], o)
    BY <1>1, <1>2, <1>4
  <2>2. \/ outcomes'[u][k] = o
        \/ k \in DOMAIN outcomes[t] /\ outcomes'[u][k] = outcomes[t][k]
    BY <2>1
  <2> QED BY <1>4, <2>2 DEF ResultBelongsToTask
<1> QED BY <1>3, <1>4

LEMMA SameResults ==
  ASSUME ResultBelongsToTask, UNCHANGED outcomes PROVE ResultBelongsToTask'
BY DEF ResultBelongsToTask

\* The tasks' names are not those of failures.
LEMMA Failures ==
  \A o \in {"unreadable", "expired", "failed"} : o \in Outcomes /\ o \notin Tasks
BY ClientAssumption DEF Outcomes

Results == Numbers /\ ResultBelongsToTask

\* A request ends in failure.
LEMMA FailureResults ==
  ASSUME Inv, Results, NEW i \in DOMAIN clients, NEW n \in notifiers[i],
         ClearNotifier(i, n) \/ CheckTimeouts(i, n)
  PROVE  Results'
<1>1. /\ i \in Handlers
      /\ FrameFailed(i, n.wrap)
      /\ notifiers' = [notifiers EXCEPT ![i] = @ \ {n}]
      /\ UNCHANGED <<frameVars, transaction, frameTransaction>>
  BY DEF Inv, ClearNotifier, CheckTimeouts
<1>2. TypeOK /\ n.wrap.task \in Tasks
  <2>1. TypeOK BY DEF Inv
  <2>2. n \in [transaction : Nat, wrap : Wraps] BY <1>1, <2>1 DEF TypeOK
  <2>3. n.wrap \in Wraps BY <2>2
  <2> QED BY <2>1, <2>3 DEF Wraps
<1>3. \A h \in Handlers : notifiers'[h] \subseteq notifiers[h] BY <1>1, <1>2 DEF TypeOK
<1>4. DOMAIN clients' = DOMAIN clients BY <1>1, SameServers DEF FrameFailed
<1>5. Numbers' BY <1>1, <1>3, <1>4, QuietNumbers DEF Results
<1>6. UNCHANGED outcomes \/ Callback(n.wrap.task, "failed") BY <1>1 DEF FrameFailed
<1>7. ResultBelongsToTask'
  BY <1>2, <1>6, CallbackResult, SameResults, Failures DEF Results
<1> QED BY <1>5, <1>7 DEF Results

\* A response is read: the number it carries stands for the task of the notifier it selects.
LEMMA ReadResponseResults ==
  ASSUME Inv, Results, NEW i \in DOMAIN clients, NEW r \in DOMAIN server[i], ReadResponse(i, r)
  PROVE  Results'
<1>1. /\ i \in Handlers /\ TypeOK
      /\ r.frame \in Tasks
      /\ Answered(i, r)
      /\ UNCHANGED <<framesQueueOutput, outputSegments, transaction, frameTransaction>>
  BY DEF Inv, ReadResponse
<1>2. CASE UNCHANGED <<balancerVars, requests, pendingTasks, outcomes, notifiers>>
  <2>1. Numbers' BY <1>1, <1>2, AnsweredNumbers DEF Results, balancerVars
  <2> QED BY <1>2, <2>1, SameResults DEF Results
<1>3. ASSUME NEW n \in notifiers[i], n.transaction = r.transaction,
             notifiers' = [notifiers EXCEPT ![i] = @ \ {n}],
             FrameAnswered(i, n.wrap, r.frame)
      PROVE  Results'
  <2>1. n.wrap.task \in Tasks /\ n.transaction \in Nat BY <1>1 DEF TypeOK, Wraps
  <2>2. \A h \in Handlers : notifiers'[h] \subseteq notifiers[h] BY <1>1, <1>3 DEF TypeOK
  <2>3. DOMAIN clients' = DOMAIN clients BY <1>3, SameServers DEF FrameAnswered
  <2>4. Numbers' BY <1>1, <2>2, <2>3, AnsweredNumbers DEF Results
  <2>6. Stands(n.transaction, n.wrap.task) BY <1>1 DEF Stands
  <2>7. Stands(n.transaction, r.frame) BY <1>1, <1>3 DEF Stands
  <2>8. r.frame = n.wrap.task BY <1>1, <2>1, <2>6, <2>7 DEF Results, Numbers, StandsForOne
  <2>9. r.frame \in Outcomes BY <1>1 DEF Outcomes
  <2>10. Callback(n.wrap.task, r.frame) BY <1>3 DEF FrameAnswered
  <2>11. ResultBelongsToTask' BY <1>1, <2>1, <2>8, <2>9, <2>10, CallbackResult DEF Results
  <2> QED BY <2>4, <2>11 DEF Results
<1> QED BY <1>2, <1>3 DEF ReadResponse

LEMMA HandlerResults ==
  ASSUME Inv, Results, NEW i \in DOMAIN clients, Handler(i) PROVE Results'
<1>0. i \in Handlers BY DEF Inv
<1>1. CASE Connect(i) \/ ConnectFails(i)
  <2>1. /\ \E b : SetClientActive(i, b)
        /\ UNCHANGED <<callerVars, frameVars, notifyVars, frameTransaction>>
    BY <1>1 DEF Connect, ConnectFails
  <2>2. DOMAIN clients' = DOMAIN clients BY <2>1, SameServers
  <2> QED BY <2>1, <2>2, QuietNumbers, SameResults DEF Results, callerVars, notifyVars
<1>2. CASE LoseConnection(i)
  BY <1>2, LoseConnectionNumbers, SameResults DEF Results, LoseConnection, callerVars
<1>3. CASE ClearVersionNotifier(i) \/ CheckVersionTimeout(i)
  <2>1. /\ SetClientCompatible(i, FALSE)
        /\ UNCHANGED <<callerVars, frameVars, transaction, notifiers, frameTransaction>>
    BY <1>3 DEF ClearVersionNotifier, CheckVersionTimeout
  <2>2. DOMAIN clients' = DOMAIN clients BY <2>1, SameServers
  <2> QED BY <2>1, <2>2, QuietNumbers, SameResults DEF Results, callerVars
<1>4. CASE Cleared(i)
  BY <1>4, QuietNumbers, SameResults
     DEF Results, Cleared, balancerVars, callerVars, notifyVars
<1>5. ASSUME NEW n \in notifiers[i], ClearNotifier(i, n) \/ CheckTimeouts(i, n)
      PROVE  Results'
  BY <1>5, FailureResults
<1>6. ASSUME NEW n \in 0 .. Len(framesQueueOutput[i]) + Len(outputSegments[i]),
             WriteFrames(i, n)
      PROVE  Results'
  <2>1. /\ framesQueueOutput[i] \in Seq(Frames)
        /\ outputSegments[i] \in Seq([frame : Frames, transaction : Nat])
    BY <1>0 DEF Inv, TypeOK
  <2>2. Len(framesQueueOutput[i]) \in Nat /\ Len(outputSegments[i]) \in Nat
    BY <2>1, LenProperties
  <2>3. n \in Nat BY <2>2
  <2>4. UNCHANGED outcomes BY <1>6 DEF WriteFrames, callerVars
  <2> QED BY <1>6, <2>3, <2>4, WriteFramesNumbers, SameResults DEF Results
<1>7. ASSUME NEW r \in BagToSet(server[i]), ReadResponse(i, r) PROVE Results'
  BY <1>7, ReadResponseResults DEF BagToSet
<1>8. ASSUME NEW r, ReadVersions(i, r) PROVE Results'
  <2>1. /\ Answered(i, r)
        /\ UNCHANGED <<callerVars, framesQueueOutput, outputSegments, transaction, notifiers,
                       frameTransaction>>
        /\ (\E b : SetClientCompatible(i, b)) \/ UNCHANGED balancerVars
    BY <1>8 DEF ReadVersions
  <2>2. DOMAIN clients' = DOMAIN clients BY <2>1, SameServers DEF balancerVars
  <2>3. Numbers' BY <2>1, <2>2, AnsweredNumbers DEF Results
  <2> QED BY <2>1, <2>3, SameResults DEF Results, callerVars
<1>9. ASSUME NEW load \in QueueLoads, ReadStatus(i, load) PROVE Results'
  <2>1. /\ SetServerSideLoad(i, load)
        /\ UNCHANGED <<callerVars, frameVars, notifyVars, frameTransaction>>
    BY <1>9 DEF ReadStatus
  <2>2. DOMAIN clients' = DOMAIN clients BY <2>1, SameServers
  <2> QED BY <2>1, <2>2, QuietNumbers, SameResults DEF Results, callerVars, notifyVars
<1> QED BY <1>1, <1>2, <1>3, <1>4, <1>5, <1>6, <1>7, <1>8, <1>9 DEF Handler

LEMMA ResultsNext ==
  ASSUME OneServer, Inv, Results, [Next]_vars PROVE Results'
<1>1. TypeOK BY DEF Inv
<1>2. ASSUME NEW t \in Tasks, InvokeTool(t) PROVE Results'
  <2>1. UNCHANGED <<balancerVars, frameVars, notifyVars, frameTransaction>>
    BY <1>2 DEF InvokeTool
  <2>2. Numbers' BY <2>1, QuietNumbers DEF Results, balancerVars, notifyVars
  <2>3. UNCHANGED outcomes \/ Callback(t, "unreadable") BY <1>2 DEF InvokeTool
  <2>4. ResultBelongsToTask'
    BY <1>1, <2>3, CallbackResult, SameResults, Failures DEF Results
  <2> QED BY <2>2, <2>4 DEF Results
<1>3. ASSUME NEW k \in 1 .. Len(requests), ExpireTask(k) PROVE Results'
  <2>1. UNCHANGED <<balancerVars, frameVars, notifyVars, frameTransaction>>
    BY <1>3 DEF ExpireTask
  <2>2. Numbers' BY <2>1, QuietNumbers DEF Results, balancerVars, notifyVars
  <2>3. requests[k].task \in Tasks
    <3>1. requests \in Seq(Wraps) BY <1>1 DEF TypeOK
    <3>2. requests[k] \in Wraps BY <3>1, ElementOfSeq
    <3> QED BY <3>2 DEF Wraps
  <2>4. Callback(requests[k].task, "expired") BY <1>3 DEF ExpireTask
  <2>5. ResultBelongsToTask' BY <1>1, <2>3, <2>4, CallbackResult, Failures DEF Results
  <2> QED BY <2>2, <2>5 DEF Results
<1>4. CASE PickTask \/ CountTask \/ PopRequest
  <2>1. UNCHANGED <<callerVars, frameVars, notifyVars, frameTransaction>>
    BY <1>4 DEF PickTask, CountTask, PopRequest
  <2>2. DOMAIN clients' = DOMAIN clients
    BY <1>4, SameServers DEF PickTask, CountTask, PopRequest, balancerVars
  <2> QED BY <2>1, <2>2, QuietNumbers, SameResults DEF Results, callerVars, notifyVars
<1>5. CASE QueueFrame
  <2>1. UNCHANGED outcomes BY <1>5 DEF QueueFrame, callerVars
  <2> QED BY <1>5, <2>1, QueueFrameNumbers, SameResults DEF Results
<1>6. ASSUME NEW s \in ToolServers, AddClient(s) PROVE Results'
  <2>1. UNCHANGED outcomes BY <1>6 DEF AddClient, callerVars
  <2> QED BY <1>6, <2>1, AddClientNumbers, SameResults DEF Results
<1>7. CASE UNCHANGED vars
  BY <1>7, QuietNumbers, SameResults DEF Results, vars, balancerVars, callerVars, notifyVars
<1> QED BY <1>2, <1>3, <1>4, <1>5, <1>6, <1>7, HandlerResults DEF Next, ProcessTasks

LEMMA ResultsInit == Init => Results
<1> SUFFICES ASSUME Init PROVE Results OBVIOUS
<1>1. /\ clients = << >> /\ outcomes = [t \in Tasks |-> << >>]
      /\ frameTransaction = [t \in Tasks |-> 0]
      /\ notifiers = [i \in Handlers |-> {}]
      /\ framesQueueOutput = [i \in Handlers |-> << >>]
      /\ outputSegments = [i \in Handlers |-> << >>]
      /\ server = [i \in Handlers |-> EmptyBag]
  BY DEF Init, BalancerInit
<1>2. DOMAIN EmptyBag = {} BY DEF EmptyBag, SetToBag
<1> HIDE DEF EmptyBag
<1>3. \A k \in Nat, t \in Tasks : ~Stands(k, t) BY <1>1, <1>2 DEF Stands
<1>4. StandsForOne /\ NumbersUsed BY <1>3 DEF StandsForOne, NumbersUsed
<1>5. WritesNumbered /\ VersionFirst BY <1>1 DEF WritesNumbered, VersionFirst
<1>6. server = [i \in Handlers |-> server[i]] BY <1>1
<1>7. ResultBelongsToTask BY <1>1 DEF ResultBelongsToTask
<1> QED BY <1>4, <1>5, <1>6, <1>7 DEF Results, Numbers

\* With one server an invocation is answered with the result of its own task
\* (SocketFrameHandler.h:164), whatever is retried, lost, expired or answered late: a frame
\* that is numbered again while it waits, or while an answer is on its way, gets a number
\* that stands for the same task.
THEOREM ResultsAreOwn == OneServer /\ Spec => []ResultBelongsToTask
<1>1. OneServer /\ Inv /\ Results /\ [Next]_vars => Results' BY ResultsNext
<1>2. Results => ResultBelongsToTask BY DEF Results
<1>3. OneServer => []OneServer
  <2>1. OneServer /\ [TRUE]_vars => OneServer' BY DEF OneServer, EqualIdTo
  <2> QED BY <2>1, PTL
<1> QED BY <1>1, <1>2, <1>3, ResultsInit, Invariance, PTL DEF Spec

(***************************************************************************)
(* RemoteToolClient implements RemoteInvocation: whatever the threads do,  *)
(* what a caller sees of its invocation is a step of the promise, or       *)
(* nothing.                                                                *)
(***************************************************************************)
(***************************************************************************)
(* The copy of a task that is held, and the attempts it has left.          *)
(***************************************************************************)
\* A queued copy is the only one that is held.
QueuedCopies ==
  \A k \in Live :
    /\ requests[k].task \in Tasks /\ requests[k] \in Wraps
    /\ InHand(requests[k].task) /\ ~Awaited(requests[k].task)
    /\ HeldWraps(requests[k].task) = {requests[k]}

\* The copy a notifier waits for is the only one that is held.
AwaitedCopies ==
  \A i \in Handlers : \A n \in notifiers[i] :
    /\ n.wrap.task \in Tasks /\ n.wrap \in Wraps
    /\ InHand(n.wrap.task) /\ Awaited(n.wrap.task)
    /\ HeldWraps(n.wrap.task) = {n.wrap}

\* A task that is in hand has one copy, whose attempts are those it has left; nothing of
\* another is held.
OneCopy ==
  \A t \in Tasks :
    /\ InHand(t) => \E w \in Wraps : HeldWraps(t) = {w} /\ RemainOf(t) = w.attemptsRemain
    /\ ~InHand(t) => HeldWraps(t) = {}

\* They follow from the invariant: first the queue.
LEMMA InvQueuedCopies == Inv => QueuedCopies
<1> SUFFICES ASSUME Inv, NEW k \in Live
             PROVE  /\ requests[k].task \in Tasks /\ requests[k] \in Wraps
                    /\ InHand(requests[k].task) /\ ~Awaited(requests[k].task)
                    /\ HeldWraps(requests[k].task) = {requests[k]}
  BY DEF QueuedCopies
<1>1. requests[k] \in Wraps BY LiveRange DEF Inv
<1>2. requests[k].task \in Tasks BY <1>1 DEF Wraps
<1>3. Queued(requests[k].task) BY DEF Queued
<1>4. InHand(requests[k].task) /\ ~Awaited(requests[k].task)
  BY <1>2, <1>3 DEF Inv, OneHolder, NeverLost, QueuedOrAwaited
<1>5. \A j \in Live : requests[j].task = requests[k].task => requests[j] = requests[k]
  BY DEF Inv, OneHolder, QueuedOnce
<1>6. \A i \in Handlers : \A n \in notifiers[i] : n.wrap.task # requests[k].task
  BY <1>4 DEF Awaited, Waiting
<1> QED BY <1>1, <1>2, <1>4, <1>5, <1>6 DEF HeldWraps

\* Then the notifiers.
LEMMA InvAwaitedCopies == Inv => AwaitedCopies
<1> SUFFICES ASSUME Inv, NEW i \in Handlers, NEW n \in notifiers[i]
             PROVE  /\ n.wrap.task \in Tasks /\ n.wrap \in Wraps
                    /\ InHand(n.wrap.task) /\ Awaited(n.wrap.task)
                    /\ HeldWraps(n.wrap.task) = {n.wrap}
  BY DEF AwaitedCopies
<1>1. n.wrap \in Wraps BY DEF Inv, TypeOK
<1>2. n.wrap.task \in Tasks BY <1>1 DEF Wraps
<1>3. Awaited(n.wrap.task) BY DEF Awaited, Waiting
<1>4. InHand(n.wrap.task) /\ ~Queued(n.wrap.task)
  BY <1>2, <1>3 DEF Inv, OneHolder, NeverLost, QueuedOrAwaited
<1>5. \A k \in Live : requests[k].task # n.wrap.task BY <1>4 DEF Queued
<1>6. \A j \in Handlers : \A m \in notifiers[j] : m.wrap.task = n.wrap.task => m = n
  BY DEF Inv, OneHolder, AwaitedOnce
<1> QED BY <1>1, <1>2, <1>3, <1>4, <1>5, <1>6 DEF HeldWraps

\* Then both.
LEMMA InvOneCopy == Inv => OneCopy
<1> SUFFICES ASSUME Inv, NEW t \in Tasks
             PROVE  /\ InHand(t) => \E w \in Wraps :
                         HeldWraps(t) = {w} /\ RemainOf(t) = w.attemptsRemain
                    /\ ~InHand(t) => HeldWraps(t) = {}
  BY DEF OneCopy
<1>1. InHand(t) <=> Queued(t) \/ Awaited(t) BY DEF Inv, OneHolder, NeverLost
<1>2. ASSUME InHand(t), NEW w \in Wraps, HeldWraps(t) = {w}
      PROVE  RemainOf(t) = w.attemptsRemain
  BY <1>2 DEF RemainOf, InHand
<1>3. Queued(t) => \E w \in Wraps : HeldWraps(t) = {w} BY InvQueuedCopies DEF Queued, QueuedCopies
<1>4. Awaited(t) => \E w \in Wraps : HeldWraps(t) = {w}
  BY InvAwaitedCopies DEF AwaitedCopies, Awaited, Waiting
<1>5. ~InHand(t) => HeldWraps(t) = {}
  BY <1>1 DEF HeldWraps, Queued, Awaited, Waiting
<1> QED BY <1>1, <1>2, <1>3, <1>4, <1>5

\* And all three of the next state.
LEMMA CopiesNext == Inv' => QueuedCopies' /\ AwaitedCopies' /\ OneCopy'
BY InvQueuedCopies, InvAwaitedCopies, InvOneCopy, PTL

(***************************************************************************)
(* The steps.                                                              *)
(***************************************************************************)
\* The state of the promise.
PhaseNow == [t \in Tasks |-> Phase(t)]
RemainNow == [t \in Tasks |-> RemainOf(t)]

\* A task that keeps its copy is not touched.
LEMMA Untouched ==
  ASSUME Inv, Inv', NEW u \in Tasks,
         u \in invoked' <=> u \in invoked, outcomes'[u] = outcomes[u],
         Awaited(u)' <=> Awaited(u),
         HeldWraps(u) \subseteq HeldWraps(u)' \/ HeldWraps(u)' \subseteq HeldWraps(u)
  PROVE  Phase(u)' = Phase(u) /\ RemainOf(u)' = RemainOf(u)
<1>1. Phase(u)' = Phase(u) BY DEF Phase
<1>2. InHand(u)' <=> InHand(u) BY DEF InHand
<1>3. CASE InHand(u)
  <2>1. PICK w \in Wraps : HeldWraps(u) = {w} /\ RemainOf(u) = w.attemptsRemain
    BY <1>3, InvOneCopy DEF OneCopy
  <2>2. PICK v \in Wraps : HeldWraps(u)' = {v} /\ RemainOf(u)' = v.attemptsRemain
    BY <1>2, <1>3, CopiesNext DEF OneCopy
  <2> QED BY <1>1, <2>1, <2>2
<1>4. CASE ~InHand(u) BY <1>1, <1>4 DEF InHand, RemainOf
<1> QED BY <1>3, <1>4

\* When no task is touched the promise does not move.
LEMMA NothingSeen ==
  ASSUME Inv, Inv', UNCHANGED <<invoked, outcomes>>,
         \A u \in Tasks : Awaited(u)' <=> Awaited(u),
         \A u \in Tasks :
           HeldWraps(u) \subseteq HeldWraps(u)' \/ HeldWraps(u)' \subseteq HeldWraps(u)
  PROVE  UNCHANGED <<PhaseNow, RemainNow>>
<1>1. \A u \in Tasks : Phase(u)' = Phase(u) /\ RemainOf(u)' = RemainOf(u) BY Untouched
<1> QED BY <1>1 DEF PhaseNow, RemainNow

\* When one task is touched the others stay where they are.
LEMMA OneSeen ==
  ASSUME Inv, Inv', NEW t \in Tasks,
         \A u \in Tasks \ {t} :
           /\ u \in invoked' <=> u \in invoked
           /\ outcomes'[u] = outcomes[u]
           /\ Awaited(u)' <=> Awaited(u)
           /\ HeldWraps(u) \subseteq HeldWraps(u)' \/ HeldWraps(u)' \subseteq HeldWraps(u)
  PROVE  /\ PhaseNow' = [PhaseNow EXCEPT ![t] = Phase(t)']
         /\ RemainNow' = [RemainNow EXCEPT ![t] = RemainOf(t)']
<1>1. \A u \in Tasks \ {t} : Phase(u)' = Phase(u) /\ RemainOf(u)' = RemainOf(u)
  BY Untouched
<1> QED BY <1>1 DEF PhaseNow, RemainNow

\* The callback of a task is called.
LEMMA AnswerSeen ==
  ASSUME Inv, Inv', NEW t \in Tasks, outcomes[t] = << >>, outcomes'[t] # << >>,
         \A u \in Tasks \ {t} :
           /\ u \in invoked' <=> u \in invoked
           /\ outcomes'[u] = outcomes[u]
           /\ Awaited(u)' <=> Awaited(u)
           /\ HeldWraps(u) \subseteq HeldWraps(u)' \/ HeldWraps(u)' \subseteq HeldWraps(u)
  PROVE  Invocation!Answer(t)
<1>1. /\ PhaseNow' = [PhaseNow EXCEPT ![t] = Phase(t)']
      /\ RemainNow' = [RemainNow EXCEPT ![t] = RemainOf(t)']
  BY OneSeen
<1>2. Phase(t)' = "answered" /\ RemainOf(t)' = 0 BY DEF Phase, RemainOf
<1>3. Phase(t) # "answered" BY DEF Phase
<1> QED BY <1>1, <1>2, <1>3 DEF Invocation!Answer, PhaseNow, RemainNow

\* The attempts left are those of any copy that is held.
CopyRemains ==
  \A t \in Tasks : \A w \in HeldWraps(t) : InHand(t) /\ RemainOf(t) = w.attemptsRemain

\* It follows from the invariant.
LEMMA InvCopyRemains == Inv => CopyRemains
<1> SUFFICES ASSUME Inv, NEW t \in Tasks, NEW w \in HeldWraps(t)
             PROVE  InHand(t) /\ RemainOf(t) = w.attemptsRemain
  BY DEF CopyRemains
<1>1. InHand(t) BY InvOneCopy DEF OneCopy
<1>2. PICK v \in Wraps : HeldWraps(t) = {v} /\ RemainOf(t) = v.attemptsRemain
  BY <1>1, InvOneCopy DEF OneCopy
<1> QED BY <1>1, <1>2

\* And of the next state.
LEMMA CopyRemainsNext == Inv' => CopyRemains'
BY InvCopyRemains, PTL

\* A copy is held by the queue or by a notifier.
LEMMA HolderOf ==
  /\ \A k \in Live : requests[k] \in HeldWraps(requests[k].task)
  /\ \A i \in Handlers : \A n \in notifiers[i] : n.wrap \in HeldWraps(n.wrap.task)
  /\ \A t \in Tasks : \A w \in HeldWraps(t) :
       /\ w.task = t
       /\ \/ \E k \in Live : requests[k] = w
          \/ \E i \in Handlers : \E n \in notifiers[i] : n.wrap = w
BY DEF HeldWraps

\* A step that changes neither the queue nor the notifiers nor the answers.
LEMMA SameHolding ==
  ASSUME Inv, Inv', UNCHANGED <<requests, notifiers, invoked, outcomes>>, Live' = Live
  PROVE  UNCHANGED <<PhaseNow, RemainNow>>
<1>1. \A u \in Tasks : (Awaited(u)' <=> Awaited(u)) /\ HeldWraps(u)' = HeldWraps(u)
  BY DEF Awaited, Waiting, HeldWraps
<1> QED BY <1>1, NothingSeen

\* A task is put at the end of the queue: what was queued stays where it is.
LEMMA Appended ==
  ASSUME Inv, NEW w \in Wraps, requests' = Append(requests, w), worker' = worker
  PROVE  /\ \A k \in Live : k \in Live' /\ requests'[k] = requests[k]
         /\ \E k \in Live' : requests'[k] = w
<1>1. /\ requests \in Seq(Wraps) /\ Len(requests) \in Nat
      /\ Live \subseteq 1 .. Len(requests)
      /\ worker.pc = "sent" => Len(requests) > 0
  BY LiveRange DEF Inv, TypeOK
<1>2. /\ Len(requests') = Len(requests) + 1
      /\ requests'[Len(requests) + 1] = w
      /\ \A k \in 1 .. Len(requests) : requests'[k] = requests[k]
  BY <1>1
<1>3. Live' = Live \cup {Len(requests) + 1} BY <1>1, <1>2 DEF Live
<1> QED BY <1>1, <1>2, <1>3

\* An invocation is made: its input cannot be read, or it is queued.
LEMMA InvokeToolSeen ==
  ASSUME Inv, Inv', NEW t \in Tasks, InvokeTool(t)
  PROVE  Invocation!Answer(t) \/ Invocation!Invoke(t)
<1>1. /\ t \notin invoked /\ invoked' = invoked \cup {t}
      /\ UNCHANGED <<worker, notifiers>>
  BY DEF InvokeTool, notifyVars
<1>2. outcomes[t] = << >> /\ ~Awaited(t)
  BY <1>1 DEF Inv, OneHolder, AnsweredAtMostOnce, NeverLost, InHand
<1>3. \A u \in Tasks : Awaited(u)' <=> Awaited(u) BY <1>1 DEF Awaited, Waiting
<1>4. CASE Callback(t, "unreadable") /\ UNCHANGED <<requests, pendingTasks>>
  <2>1. outcomes'[t] # << >> /\ \A u \in Tasks \ {t} : outcomes'[u] = outcomes[u]
    <3>1. "unreadable" \in Outcomes BY DEF Outcomes
    <3> QED BY <1>4, <3>1, CallbackStep DEF Inv
  <2>2. \A u \in Tasks : HeldWraps(u)' = HeldWraps(u) BY <1>1, <1>4 DEF HeldWraps, Live
  <2> QED BY <1>1, <1>2, <1>3, <2>1, <2>2, AnswerSeen
<1>5. CASE /\ QueueTask([task |-> t, attemptsRemain |-> InvocationAttempts])
           /\ UNCHANGED outcomes
  <2> DEFINE w == [task |-> t, attemptsRemain |-> InvocationAttempts]
  <2>1. w \in Wraps /\ w.task = t /\ w.attemptsRemain = InvocationAttempts
    BY ClientAssumption DEF Wraps
  <2>2. requests' = Append(requests, w) BY <1>5 DEF QueueTask
  <2> HIDE DEF w
  <2>3. /\ \A k \in Live : k \in Live' /\ requests'[k] = requests[k]
        /\ \E k \in Live' : requests'[k] = w
    BY <1>1, <2>1, <2>2, Appended
  <2>4. \A u \in Tasks : HeldWraps(u) \subseteq HeldWraps(u)'
    BY <1>1, <2>3 DEF HeldWraps
  <2>5. w \in HeldWraps(t)' BY <2>1, <2>3 DEF HeldWraps
  <2>6. RemainOf(t)' = InvocationAttempts BY <2>1, <2>5, CopyRemainsNext DEF CopyRemains
  <2>7. RemainOf(t) = InvocationAttempts BY <1>1, <1>2 DEF RemainOf
  <2>8. Phase(t) = "none" BY <1>1, <1>2 DEF Phase
  <2>9. Phase(t)' = "queued" BY <1>1, <1>2, <1>3, <1>5 DEF Phase
  <2>10. /\ PhaseNow' = [PhaseNow EXCEPT ![t] = Phase(t)']
         /\ RemainNow' = [RemainNow EXCEPT ![t] = RemainOf(t)']
    BY <1>1, <1>3, <1>5, <2>4, OneSeen
  <2>11. UNCHANGED RemainNow BY <2>6, <2>7, <2>10 DEF RemainNow
  <2> QED BY <2>8, <2>9, <2>10, <2>11
        DEF Invocation!Invoke, Invocation!Move, PhaseNow, RemainNow
<1> QED BY <1>4, <1>5 DEF InvokeTool

\* A queued task expires.
LEMMA ExpireTaskSeen ==
  ASSUME Inv, Inv', NEW k \in 1 .. Len(requests), ExpireTask(k)
  PROVE  Invocation!Answer(requests[k].task)
<1> DEFINE S == {requests[j] : j \in 1 .. Len(requests)}
           before == SubSeq(requests, 1, k - 1)
           after == SubSeq(requests, k + 1, Len(requests))
<1>1. /\ worker = Idle /\ worker' = worker
      /\ requests' = before \o after
      /\ Callback(requests[k].task, "expired")
      /\ UNCHANGED <<invoked, notifiers>>
  BY DEF ExpireTask, notifyVars
<1>2. /\ requests \in Seq(Wraps) /\ Len(requests) \in Nat /\ Live = 1 .. Len(requests)
      /\ Live' = 1 .. Len(requests')
  BY <1>1, LiveRange DEF Inv, TypeOK, Live, Idle
<1>3. /\ requests[k].task \in Tasks /\ outcomes[requests[k].task] = << >>
      /\ ~Awaited(requests[k].task)
  BY <1>2, InvQueuedCopies DEF QueuedCopies, InHand
<1>4. /\ outcomes'[requests[k].task] # << >>
      /\ \A u \in Tasks \ {requests[k].task} : outcomes'[u] = outcomes[u]
  <2>1. "expired" \in Outcomes BY DEF Outcomes
  <2> QED BY <1>1, <1>3, <2>1, CallbackStep DEF Inv
<1>5. \A j \in Live' : requests'[j] \in S
  <2>1. before \in Seq(S) /\ after \in Seq(S)
    <3>1. \A j \in 1 .. k - 1 : requests[j] \in S BY <1>2
    <3>2. \A j \in k + 1 .. Len(requests) : requests[j] \in S BY <1>2
    <3> HIDE DEF S
    <3> QED BY <1>2, <3>1, <3>2, SubSeqProperties
  <2> HIDE DEF S, before, after
  <2>2. requests' \in Seq(S) BY <1>1, <2>1, ConcatProperties
  <2> QED BY <1>2, <2>2, ElementOfSeq
<1>6. \A u \in Tasks : HeldWraps(u)' \subseteq HeldWraps(u)
  <2>1. \A j \in Live' : \E i \in Live : requests[i] = requests'[j] BY <1>2, <1>5
  <2> HIDE DEF S
  <2> QED BY <1>1, <2>1 DEF HeldWraps
<1>7. \A u \in Tasks : Awaited(u)' <=> Awaited(u) BY <1>1 DEF Awaited, Waiting
<1> QED BY <1>1, <1>3, <1>4, <1>6, <1>7, AnswerSeen

\* ProcessTasks sends the front of the queue.
LEMMA QueueFrameSeen ==
  ASSUME Inv, Inv', QueueFrame
  PROVE  \E t \in Tasks : Invocation!Run(t)
<1>1. /\ worker.pc = "started" /\ worker'.pc = "sent" /\ worker # Idle
      /\ notifiers' = [notifiers EXCEPT ![worker.index] =
           @ \cup {[transaction |-> transaction[worker.index], wrap |-> worker.wrap]}]
      /\ UNCHANGED <<requests, invoked, outcomes>>
  BY DEF QueueFrame, Inv, TypeOK, Busy, Idle, callerVars
<1>2. /\ requests \in Seq(Wraps) /\ Len(requests) \in Nat /\ Len(requests) > 0
      /\ Live = 1 .. Len(requests) /\ Live' = 2 .. Len(requests)
      /\ requests[1] = worker.wrap /\ worker.index \in Handlers
  <2>1. /\ requests \in Seq(Wraps) /\ requests # << >> /\ Head(requests) = worker.wrap
        /\ worker.index \in Handlers
    BY <1>1 DEF Inv, TypeOK, WorkerHoldsFront
  <2>2. Len(requests) \in Nat /\ Len(requests) > 0 BY <2>1, EmptySeq
  <2> QED BY <1>1, <2>1, <2>2 DEF Live
<1>3. PICK w \in Wraps, i \in Handlers, n \in [transaction : Nat, wrap : Wraps] :
        /\ w = worker.wrap /\ w = requests[1] /\ n.wrap = w
        /\ notifiers' = [notifiers EXCEPT ![i] = @ \cup {n}]
  <2> DEFINE n == [transaction |-> transaction[worker.index], wrap |-> worker.wrap]
             i == worker.index
  <2>1. requests[1] \in Wraps BY <1>2
  <2>2. transaction[worker.index] \in Nat BY <1>2 DEF Inv, TypeOK
  <2>3. n \in [transaction : Nat, wrap : Wraps] /\ n.wrap = requests[1]
    BY <1>2, <2>1, <2>2
  <2>4. notifiers' = [notifiers EXCEPT ![i] = @ \cup {n}] BY <1>1
  <2>5. i \in Handlers /\ requests[1] = worker.wrap BY <1>2
  <2> HIDE DEF n, i
  <2> QED BY <2>1, <2>3, <2>4, <2>5
<1> DEFINE t == w.task
<1>4. t \in Tasks /\ InHand(t) /\ ~Awaited(t) /\ HeldWraps(t) = {w}
  <2>1. QueuedCopies BY InvQueuedCopies
  <2>2. 1 \in Live /\ requests[1] = w BY <1>2, <1>3
  <2> QED BY <2>1, <2>2 DEF QueuedCopies
<1>5. \A u \in Tasks : Awaited(u)' <=> Awaited(u) \/ u = t
  <2>1. TypeOK /\ AwaitedOnce /\ ~Awaited(n.wrap.task) /\ n.wrap.task = t
    BY <1>3, <1>4 DEF Inv, OneHolder
  <2> QED BY <1>3, <2>1, NotifierAdded
<1>6. n \in notifiers'[i] /\ \A j \in Handlers : notifiers[j] \subseteq notifiers'[j]
  BY <1>3 DEF Inv, TypeOK
<1>7. RemainOf(t) = w.attemptsRemain /\ RemainOf(t)' = w.attemptsRemain
  <2>1. w \in HeldWraps(t)' BY <1>3, <1>6 DEF HeldWraps
  <2> QED BY <1>4, <2>1, InvCopyRemains, CopyRemainsNext DEF CopyRemains
<1>8. \A u \in Tasks \ {t} : HeldWraps(u) \subseteq HeldWraps(u)'
  <2>1. \A k \in Live : requests[k].task # t => k \in Live' BY <1>2, <1>3
  <2> HIDE DEF t
  <2> QED BY <1>1, <1>6, <2>1 DEF HeldWraps
<1>9. Phase(t) = "queued" /\ Phase(t)' = "running"
  BY <1>1, <1>4, <1>5 DEF Phase, InHand
<1> HIDE DEF t
<1>10. /\ PhaseNow' = [PhaseNow EXCEPT ![t] = Phase(t)']
       /\ RemainNow' = [RemainNow EXCEPT ![t] = RemainOf(t)']
  BY <1>1, <1>4, <1>5, <1>8, OneSeen
<1>11. UNCHANGED RemainNow BY <1>7, <1>10 DEF RemainNow
<1>12. Invocation!Run(t)
  BY <1>4, <1>9, <1>10, <1>11 DEF Invocation!Run, Invocation!Move, PhaseNow, RemainNow
<1> QED BY <1>4, <1>12

\* ProcessTasks takes the front it has sent off the queue.
LEMMA PopRequestSeen ==
  ASSUME Inv, Inv', PopRequest
  PROVE  UNCHANGED <<PhaseNow, RemainNow>>
<1>1. /\ worker.pc = "sent" /\ worker' = Idle /\ requests' = Tail(requests)
      /\ UNCHANGED <<invoked, outcomes, notifiers>>
  BY DEF PopRequest, callerVars, notifyVars
<1>2. /\ requests \in Seq(Wraps) /\ requests # << >> /\ Len(requests) \in Nat
      /\ Len(requests) > 0
  BY <1>1, LiveRange, EmptySeq DEF Inv, TypeOK
<1>3. /\ Len(requests') = Len(requests) - 1
      /\ \A k \in 1 .. Len(requests) - 1 : requests'[k] = requests[k + 1]
  BY <1>1, <1>2, HeadTailProperties
<1>4. Live = 2 .. Len(requests) /\ Live' = 1 .. Len(requests) - 1
  BY <1>1, <1>3 DEF Live, Idle
<1>5. \A k \in Live : \E j \in Live' : requests'[j] = requests[k]
  <2>1. \A k \in Live : k - 1 \in Live' /\ requests'[k - 1] = requests[k]
    BY <1>2, <1>3, <1>4
  <2> QED BY <2>1
<1>6. \A u \in Tasks : HeldWraps(u) \subseteq HeldWraps(u)'
  BY <1>1, <1>5 DEF HeldWraps
<1>7. \A u \in Tasks : Awaited(u)' <=> Awaited(u) BY <1>1 DEF Awaited, Waiting
<1> QED BY <1>1, <1>6, <1>7, NothingSeen

\* A request ends: its task is answered, or goes back to the queue with an attempt less.
LEMMA RequestEndsSeen ==
  ASSUME Inv, Inv', NEW i \in DOMAIN clients, NEW n \in notifiers[i],
         notifiers' = [notifiers EXCEPT ![i] = @ \ {n}],
         FrameFailed(i, n.wrap) \/ \E r \in Tasks : FrameAnswered(i, n.wrap, r),
         UNCHANGED <<worker, invoked>>
  PROVE  Invocation!Answer(n.wrap.task) \/ Invocation!Retry(n.wrap.task)
<1> DEFINE t == n.wrap.task
<1>1. i \in Handlers /\ TypeOK /\ AwaitedOnce BY DEF Inv, OneHolder
<1>2. /\ n.wrap \in Wraps /\ t \in Tasks
      /\ \A u \in Tasks : Awaited(u)' <=> Awaited(u) /\ u # t
  BY <1>1, NotifierTaken
<1>3. InHand(t) /\ Awaited(t) /\ HeldWraps(t) = {n.wrap}
  BY <1>1, InvAwaitedCopies DEF AwaitedCopies
<1>4. \A j \in Handlers : \A m \in notifiers[j] : m.wrap.task # t => m \in notifiers'[j]
  BY <1>1 DEF TypeOK
<1>5. ASSUME NEW o \in Outcomes, Callback(t, o), UNCHANGED requests
      PROVE  Invocation!Answer(t)
  <2>1. outcomes'[t] # << >> /\ \A u \in Tasks \ {t} : outcomes'[u] = outcomes[u]
    BY <1>1, <1>2, <1>5, CallbackStep
  <2>2. \A u \in Tasks \ {t} : HeldWraps(u) \subseteq HeldWraps(u)'
    BY <1>4, <1>5 DEF HeldWraps, Live
  <2> QED BY <1>2, <1>3, <2>1, <2>2, AnswerSeen DEF InHand
<1>6. CASE CanRetry(n.wrap) /\ QueueTask([n.wrap EXCEPT !.attemptsRemain = @ - 1])
           /\ UNCHANGED outcomes
  <2> DEFINE w == [n.wrap EXCEPT !.attemptsRemain = @ - 1]
  <2>1. /\ w \in Wraps /\ w.task = t /\ w.attemptsRemain = n.wrap.attemptsRemain - 1
        /\ n.wrap.attemptsRemain \in Nat /\ n.wrap.attemptsRemain > 0
    BY <1>2, <1>6, ClientAssumption DEF Wraps, CanRetry
  <2>2. requests' = Append(requests, w) BY <1>6 DEF QueueTask
  <2> HIDE DEF w
  <2>3. /\ \A k \in Live : k \in Live' /\ requests'[k] = requests[k]
        /\ \E k \in Live' : requests'[k] = w
    BY <2>1, <2>2, Appended
  <2>4. \A u \in Tasks \ {t} : HeldWraps(u) \subseteq HeldWraps(u)'
    BY <1>4, <2>3 DEF HeldWraps
  <2>5. RemainOf(t) = n.wrap.attemptsRemain /\ RemainOf(t)' = w.attemptsRemain
    <3>1. w \in HeldWraps(t)' BY <2>1, <2>3 DEF HeldWraps
    <3> QED BY <1>2, <1>3, <3>1, InvCopyRemains, CopyRemainsNext DEF CopyRemains
  <2>6. Phase(t) = "running" /\ Phase(t)' = "queued"
    BY <1>2, <1>3, <1>6 DEF Phase, InHand
  <2> HIDE DEF t
  <2>7. /\ PhaseNow' = [PhaseNow EXCEPT ![t] = Phase(t)']
        /\ RemainNow' = [RemainNow EXCEPT ![t] = RemainOf(t)']
    BY <1>2, <1>6, <2>4, OneSeen
  <2>8. t \in Tasks /\ RemainOf(t) > 0 /\ RemainOf(t)' = RemainOf(t) - 1
    BY <1>2, <2>1, <2>5
  <2>9. RemainNow' = [RemainNow EXCEPT ![t] = @ - 1] BY <2>7, <2>8 DEF RemainNow
  <2>10. Invocation!Retry(t)
    BY <2>6, <2>7, <2>8, <2>9 DEF Invocation!Retry, Invocation!Move, PhaseNow, RemainNow
  <2> QED BY <2>10 DEF t
<1>7. CASE FrameFailed(i, n.wrap)
  <2>1. CASE CanRetry(n.wrap) BY <1>6, <1>7, <2>1 DEF FrameFailed
  <2>2. CASE ~CanRetry(n.wrap)
    <3>1. "failed" \in Outcomes BY DEF Outcomes
    <3> QED BY <1>5, <1>7, <2>2, <3>1 DEF FrameFailed
  <2> QED BY <2>1, <2>2
<1>8. ASSUME NEW r \in Tasks, FrameAnswered(i, n.wrap, r) PROVE Invocation!Answer(t)
  <2>1. r \in Outcomes BY DEF Outcomes
  <2> QED BY <1>5, <1>8, <2>1 DEF FrameAnswered
<1> QED BY <1>7, <1>8

(***************************************************************************)
(* The refinement.                                                         *)
(***************************************************************************)
\* A new client has made no invocation.
LEMMA InitSeen == Init => Invocation!Init
<1> SUFFICES ASSUME Init PROVE Invocation!Init OBVIOUS
<1>1. \A t \in Tasks : Phase(t) = "none" /\ RemainOf(t) = InvocationAttempts
  BY DEF Init, Phase, RemainOf, Awaited, Waiting
<1> QED BY <1>1 DEF Invocation!Init

\* The steps of a handler's thread.
LEMMA HandlerSeen ==
  ASSUME Inv, Inv', NEW i \in DOMAIN clients, Handler(i)
  PROVE  (\E t \in Tasks : Invocation!Answer(t) \/ Invocation!Retry(t))
         \/ UNCHANGED <<PhaseNow, RemainNow>>
<1>1. CASE Connect(i) \/ ConnectFails(i) \/ LoseConnection(i) \/ ClearVersionNotifier(i)
           \/ Cleared(i) \/ CheckVersionTimeout(i)
           \/ (\E n \in 0 .. Len(framesQueueOutput[i]) + Len(outputSegments[i]) :
                 WriteFrames(i, n))
           \/ (\E r \in BagToSet(server[i]) : ReadVersions(i, r))
           \/ (\E load \in QueueLoads : ReadStatus(i, load))
  <2>1. UNCHANGED <<requests, worker, notifiers, invoked, outcomes>>
    BY <1>1 DEF Connect, ConnectFails, LoseConnection, ClearVersionNotifier, Cleared,
         CheckVersionTimeout, WriteFrames, ReadVersions, ReadStatus, queueVars, callerVars,
         notifyVars
  <2> QED BY <2>1, SameHolding DEF Live
<1>2. ASSUME NEW n \in notifiers[i], ClearNotifier(i, n) \/ CheckTimeouts(i, n)
      PROVE  \E t \in Tasks : Invocation!Answer(t) \/ Invocation!Retry(t)
  <2>1. /\ notifiers' = [notifiers EXCEPT ![i] = @ \ {n}]
        /\ FrameFailed(i, n.wrap) /\ UNCHANGED <<worker, invoked>>
    BY <1>2 DEF ClearNotifier, CheckTimeouts
  <2>2. n.wrap.task \in Tasks BY InvAwaitedCopies DEF AwaitedCopies, Inv
  <2> QED BY <2>1, <2>2, RequestEndsSeen
<1>3. ASSUME NEW r, ReadResponse(i, r)
      PROVE  (\E t \in Tasks : Invocation!Answer(t) \/ Invocation!Retry(t))
             \/ UNCHANGED <<PhaseNow, RemainNow>>
  <2>1. r.frame \in Tasks /\ UNCHANGED <<worker, invoked>> BY <1>3 DEF ReadResponse
  <2>2. ASSUME NEW n \in notifiers[i], notifiers' = [notifiers EXCEPT ![i] = @ \ {n}],
               FrameAnswered(i, n.wrap, r.frame)
        PROVE  \E t \in Tasks : Invocation!Answer(t) \/ Invocation!Retry(t)
    <3>1. n.wrap.task \in Tasks BY InvAwaitedCopies DEF AwaitedCopies, Inv
    <3> QED BY <2>1, <2>2, <3>1, RequestEndsSeen
  <2>3. CASE UNCHANGED <<requests, outcomes, notifiers>>
    BY <2>1, <2>3, SameHolding DEF Live
  <2> QED BY <1>3, <2>2, <2>3 DEF ReadResponse
<1> QED BY <1>1, <1>2, <1>3 DEF Handler

\* Every step of the client is one of the promise, or is not seen.
LEMMA StepSeen ==
  ASSUME Inv, Inv', [Next]_vars
  PROVE  Invocation!Next \/ UNCHANGED <<PhaseNow, RemainNow>>
<1>1. ASSUME NEW t \in Tasks, InvokeTool(t) PROVE Invocation!Next
  BY <1>1, InvokeToolSeen DEF Invocation!Next
<1>2. ASSUME NEW k \in 1 .. Len(requests), ExpireTask(k) PROVE Invocation!Next
  <2>1. requests[k].task \in Tasks BY LiveRange DEF Inv, Wraps
  <2> QED BY <1>2, <2>1, ExpireTaskSeen DEF Invocation!Next
<1>3. CASE ProcessTasks
  <2>1. CASE PickTask \/ CountTask
    <3>1. /\ UNCHANGED <<requests, notifiers, invoked, outcomes>>
          /\ worker.pc # "sent" /\ worker'.pc # "sent"
      BY <2>1 DEF PickTask, CountTask, Idle, callerVars, notifyVars, Inv, TypeOK, Busy
    <3> QED BY <3>1, SameHolding DEF Live
  <2>2. CASE QueueFrame BY <2>2, QueueFrameSeen DEF Invocation!Next
  <2>3. CASE PopRequest BY <2>3, PopRequestSeen
  <2> QED BY <1>3, <2>1, <2>2, <2>3 DEF ProcessTasks
<1>4. ASSUME NEW s \in ToolServers, AddClient(s) PROVE UNCHANGED <<PhaseNow, RemainNow>>
  <2>1. UNCHANGED <<requests, worker, notifiers, invoked, outcomes>>
    BY <1>4 DEF AddClient, queueVars, callerVars
  <2> QED BY <2>1, SameHolding DEF Live
<1>5. ASSUME NEW i \in DOMAIN clients, Handler(i)
      PROVE  Invocation!Next \/ UNCHANGED <<PhaseNow, RemainNow>>
  BY <1>5, HandlerSeen DEF Invocation!Next
<1>6. CASE UNCHANGED vars
  <2>1. UNCHANGED <<requests, worker, notifiers, invoked, outcomes>>
    BY <1>6 DEF vars, queueVars, callerVars, notifyVars
  <2> QED BY <2>1, SameHolding DEF Live
<1> QED BY <1>1, <1>2, <1>3, <1>4, <1>5, <1>6 DEF Next

\* What the caller of InvokeTool sees is what RemoteInvocation promises: its callback is
\* called once, after a bounded number of retries, and nothing happens afterwards
\* (RemoteToolClient.cpp:106-156).
THEOREM Refinement == Spec => ImplementsInvocation
<1>1. Inv /\ Inv' /\ [Next]_vars => [Invocation!Next]_Invocation!invocationVars
  BY StepSeen DEF PhaseNow, RemainNow, Invocation!invocationVars
<1>2. Spec => []Inv BY Invariance
<1> QED BY <1>1, <1>2, InitSeen, PTL DEF Spec, ImplementsInvocation, Invocation!Spec
=============================================================================
