--------------------------- MODULE ToolProxyProofs ---------------------------
(***************************************************************************)
(* Proofs about ToolProxy, for any clients, proxies and deployments: a     *)
(* proxy's job count is the number of requests it works on, so that its    *)
(* inactivity timer never ends it for a request that failed half way; and  *)
(* a client's exit code of 0 is true.                                      *)
(***************************************************************************)
EXTENDS ToolProxy, FiniteSetTheorems, TLAPS

(***************************************************************************)
(* The inductive invariant.                                                *)
(***************************************************************************)
\* The jobs whose first command has not started, and those one of whose commands has.
NotStarted == {"sent", "read", "pp", "run"}
Started == {"ppRuns", "remote", "cc", "ccRuns", "runRuns", "done"}

\* Nothing has been done for a client that has not sent its request.
Unsent ==
  \A c \in Clients : client[c] \notin {"sent", "ended"} =>
    job[c] = "none" /\ ranIn[c] = {} /\ exitCode[c] = None

\* A job is some proxy's.
Placed == \A c \in Clients : job[c] # "none" => on[c] \in Proxies

\* A proxy counts the jobs it works on, from its start to its end.
Counted ==
  \A p \in Proxies : proxy[p] # "gone" => runningJobs[p] = Cardinality(WorkOf(p))

\* While a proxy has worked in one directory at a time, its jobs run in theirs.
InItsDir ==
  \A c \in Clients : on[c] \notin met =>
    /\ job[c] \in Working \cup {"read"} => cwd[on[c]] = deployment.dir[c]
    /\ job[c] \in NotStarted => ranIn[c] = {}
    /\ job[c] \in Started => ranIn[c] = {deployment.dir[c]}

\* A response of success follows a compilation.
DoneWell == \A c \in Clients : job[c] = "done" => c \in succeeded

\* An exit code of 0 follows such a response, and nothing is done for the client any more.
ExitedWell ==
  \A c \in Clients : exitCode[c] = 0 =>
    /\ client[c] = "ended" /\ job[c] \in {"done", "none"}
    /\ c \in succeeded
    /\ on[c] \notin met => ranIn[c] = {deployment.dir[c]}

IInv ==
  /\ TypeOK
  /\ Unsent /\ Placed /\ Counted /\ InItsDir /\ DoneWell /\ ExitedWell

(***************************************************************************)
(* The actions, one by one, and what becomes of the count.                 *)
(***************************************************************************)
\* The clients a proxy works for are finitely many.
LEMMA WorkIsFinite ==
  ASSUME NEW p PROVE IsFiniteSet(WorkOf(p)) /\ Cardinality(WorkOf(p)) \in Nat
<1>1. IsFiniteSet(Clients) BY ProxyAssumption
<1>2. WorkOf(p) \in SUBSET Clients BY DEF WorkOf
<1> QED BY <1>1, <1>2, FS_Subset, FS_CardinalityType

\* A step that starts and ends no work and no proxy leaves every count right.
LEMMA SameWork ==
  ASSUME Counted, UNCHANGED runningJobs,
         \A p \in Proxies : proxy'[p] # "gone" => proxy[p] # "gone",
         \A p \in Proxies : proxy'[p] # "gone" => \A c \in Clients :
           (on[c] = p /\ job[c] \in Working) <=> (on'[c] = p /\ job'[c] \in Working)
  PROVE  Counted'
<1>1. \A p \in Proxies : proxy'[p] # "gone" => WorkOf(p)' = WorkOf(p) BY DEF WorkOf
<1> QED BY <1>1 DEF Counted

\* A job that begins is counted.
LEMMA MoreWork ==
  ASSUME TypeOK, Counted, NEW c \in Clients, on[c] \in Proxies, job[c] \notin Working,
         UpdateRunningJobs(c, 1), UNCHANGED <<proxy, on>>,
         NEW stage \in Working, job' = [job EXCEPT ![c] = stage]
  PROVE  Counted'
<1> SUFFICES ASSUME NEW p \in Proxies, proxy[p] # "gone"
             PROVE  runningJobs'[p] = Cardinality(WorkOf(p)')
  BY DEF Counted
<1>1. runningJobs[p] = Cardinality(WorkOf(p)) BY DEF Counted
<1>2. CASE p = on[c]
  <2>1. WorkOf(p)' = WorkOf(p) \cup {c} /\ c \notin WorkOf(p)
    BY <1>2 DEF WorkOf, TypeOK
  <2>2. Cardinality(WorkOf(p)') = Cardinality(WorkOf(p)) + 1
    BY <2>1, WorkIsFinite, FS_AddElement
  <2> QED BY <1>1, <1>2, <2>2 DEF UpdateRunningJobs, TypeOK
<1>3. CASE p # on[c]
  <2>1. WorkOf(p)' = WorkOf(p) BY <1>3 DEF WorkOf, TypeOK
  <2> QED BY <1>1, <1>3, <2>1 DEF UpdateRunningJobs, TypeOK
<1> QED BY <1>2, <1>3

\* A job that ends is counted off, and there was one to count off.
LEMMA LessWork ==
  ASSUME TypeOK, Counted, NEW c \in Clients, on[c] \in Proxies, job[c] \in Working,
         proxy[on[c]] # "gone",
         UpdateRunningJobs(c, -1), UNCHANGED <<proxy, on>>,
         NEW stage \in {"done", "failed"}, job' = [job EXCEPT ![c] = stage]
  PROVE  Counted' /\ runningJobs' \in [Proxies -> Nat]
<1>0. stage \notin Working BY DEF Working
<1>1. \A p \in Proxies : proxy[p] # "gone" => runningJobs[p] = Cardinality(WorkOf(p))
  BY DEF Counted
<1>2. /\ WorkOf(on[c])' = WorkOf(on[c]) \ {c}
      /\ c \in WorkOf(on[c])
  BY <1>0 DEF WorkOf, TypeOK
<1>3. Cardinality(WorkOf(on[c])') = Cardinality(WorkOf(on[c])) - 1
  BY <1>2, WorkIsFinite, FS_RemoveElement
<1>4. Cardinality(WorkOf(on[c])') \in Nat
  BY <1>2, WorkIsFinite, FS_RemoveElement, FS_CardinalityType
<1>5. runningJobs[on[c]] - 1 = Cardinality(WorkOf(on[c])') BY <1>1, <1>3
<1>6. runningJobs' \in [Proxies -> Nat]
  BY <1>4, <1>5 DEF UpdateRunningJobs, TypeOK
<1>7. ASSUME NEW p \in Proxies, proxy[p] # "gone"
      PROVE  runningJobs'[p] = Cardinality(WorkOf(p)')
  <2>1. CASE p = on[c] BY <1>5, <2>1 DEF UpdateRunningJobs, TypeOK
  <2>2. CASE p # on[c]
    <3>1. WorkOf(p)' = WorkOf(p) BY <2>2 DEF WorkOf, TypeOK
    <3> QED BY <1>1, <1>7, <2>2, <3>1 DEF UpdateRunningJobs, TypeOK
  <2> QED BY <2>1, <2>2
<1> QED BY <1>6, <1>7 DEF Counted
(***************************************************************************)
(* Every action keeps the invariant.                                       *)
(***************************************************************************)
\* The handler of a client connects.
LEMMA ConnectKeeps ==
  ASSUME IInv, NEW c \in Clients,
         Connect(c)
  PROVE  IInv'
<1>1. Counted'
  BY SameWork DEF Connect, IInv, Placed, Unsent, TypeOK, clientVars, proxyVars,
     workVars, Working
<1>2. TypeOK'
  BY ProxyAssumption DEF Connect, IInv, TypeOK, clientVars, proxyVars, workVars,
     DeploymentRecords, Waiting, Asked, Working
<1>3. Unsent'
  BY ProxyAssumption DEF Connect, IInv, TypeOK, clientVars, proxyVars, workVars,
     DeploymentRecords, Unsent, Waiting, Asked, Working
<1>4. Placed'
  BY ProxyAssumption DEF Connect, IInv, TypeOK, clientVars, proxyVars, workVars,
     DeploymentRecords, Placed, Working, Asked
<1>5. InItsDir'
  BY ProxyAssumption DEF Connect, IInv, TypeOK, clientVars, proxyVars, workVars,
     DeploymentRecords, InItsDir, Unsent, Working, Started, NotStarted
<1>6. DoneWell'
  BY ProxyAssumption DEF Connect, IInv, TypeOK, clientVars, proxyVars, workVars,
     DeploymentRecords, DoneWell, Working
<1>7. ExitedWell'
  BY ProxyAssumption DEF Connect, IInv, TypeOK, clientVars, proxyVars, workVars,
     DeploymentRecords, ExitedWell, DoneWell, InItsDir, Unsent, Started, Waiting, Asked,
     Working
<1> QED BY <1>1, <1>2, <1>3, <1>4, <1>5, <1>6, <1>7 DEF IInv

\* A client starts a proxy or finds one.
LEMMA StartKeeps ==
  ASSUME IInv, NEW c \in Clients,
         StartClient(c)
  PROVE  IInv'
<1>1. Counted'
  BY SameWork DEF StartClient, Move, IInv, Placed, Unsent, TypeOK, clientVars,
     proxyVars, workVars, Working
<1>2. TypeOK'
  BY ProxyAssumption DEF StartClient, Move, IInv, TypeOK, clientVars, proxyVars,
     workVars, DeploymentRecords, Waiting, Asked, Working
<1>3. Unsent'
  BY ProxyAssumption DEF StartClient, Move, IInv, TypeOK, clientVars, proxyVars,
     workVars, DeploymentRecords, Unsent, Waiting, Asked, Working
<1>4. Placed'
  BY ProxyAssumption DEF StartClient, Move, IInv, TypeOK, clientVars, proxyVars,
     workVars, DeploymentRecords, Placed, Working, Asked
<1>5. InItsDir'
  BY ProxyAssumption DEF StartClient, Move, IInv, TypeOK, clientVars, proxyVars,
     workVars, DeploymentRecords, InItsDir, Unsent, Working, Started, NotStarted
<1>6. DoneWell'
  BY ProxyAssumption DEF StartClient, Move, IInv, TypeOK, clientVars, proxyVars,
     workVars, DeploymentRecords, DoneWell, Working
<1>7. ExitedWell'
  BY ProxyAssumption DEF StartClient, Move, IInv, TypeOK, clientVars, proxyVars,
     workVars, DeploymentRecords, ExitedWell, DoneWell, InItsDir, Unsent, Started,
     Waiting, Asked, Working
<1> QED BY <1>1, <1>2, <1>3, <1>4, <1>5, <1>6, <1>7 DEF IInv

\* A client has a connection or ends.
LEMMA WaitAgainKeeps ==
  ASSUME IInv, NEW c \in Clients,
         WaitAgain(c)
  PROVE  IInv'
<1>1. Counted'
  BY SameWork DEF WaitAgain, Move, End, IInv, Placed, Unsent, TypeOK, clientVars,
     proxyVars, workVars, Working
<1>2. TypeOK'
  BY ProxyAssumption DEF WaitAgain, Move, End, IInv, TypeOK, clientVars, proxyVars,
     workVars, DeploymentRecords, Waiting, Asked, Working
<1>3. Unsent'
  BY ProxyAssumption DEF WaitAgain, Move, End, IInv, TypeOK, clientVars, proxyVars,
     workVars, DeploymentRecords, Unsent, Waiting, Asked, Working
<1>4. Placed'
  BY ProxyAssumption DEF WaitAgain, Move, End, IInv, TypeOK, clientVars, proxyVars,
     workVars, DeploymentRecords, Placed, Working, Asked
<1>5. InItsDir'
  BY ProxyAssumption DEF WaitAgain, Move, End, IInv, TypeOK, clientVars, proxyVars,
     workVars, DeploymentRecords, InItsDir, Unsent, Working, Started, NotStarted
<1>6. DoneWell'
  BY ProxyAssumption DEF WaitAgain, Move, End, IInv, TypeOK, clientVars, proxyVars,
     workVars, DeploymentRecords, DoneWell, Working
<1>7. ExitedWell'
  BY ProxyAssumption DEF WaitAgain, Move, End, IInv, TypeOK, clientVars, proxyVars,
     workVars, DeploymentRecords, ExitedWell, DoneWell, InItsDir, Unsent, Started,
     Waiting, Asked, Working
<1> QED BY <1>1, <1>2, <1>3, <1>4, <1>5, <1>6, <1>7 DEF IInv

\* A client queues its request.
LEMMA RunTaskKeeps ==
  ASSUME IInv, NEW c \in Clients,
         RunTask(c)
  PROVE  IInv'
<1>1. Counted'
  BY SameWork DEF RunTask, Move, IInv, Placed, Unsent, TypeOK, clientVars, proxyVars,
     workVars, Working
<1>2. TypeOK'
  BY ProxyAssumption DEF RunTask, Move, IInv, TypeOK, clientVars, proxyVars, workVars,
     DeploymentRecords, Waiting, Asked, Working
<1>3. Unsent'
  BY ProxyAssumption DEF RunTask, Move, IInv, TypeOK, clientVars, proxyVars, workVars,
     DeploymentRecords, Unsent, Waiting, Asked, Working
<1>4. Placed'
  BY ProxyAssumption DEF RunTask, Move, IInv, TypeOK, clientVars, proxyVars, workVars,
     DeploymentRecords, Placed, Working, Asked
<1>5. InItsDir'
  BY ProxyAssumption DEF RunTask, Move, IInv, TypeOK, clientVars, proxyVars, workVars,
     DeploymentRecords, InItsDir, Unsent, Working, Started, NotStarted
<1>6. DoneWell'
  BY ProxyAssumption DEF RunTask, Move, IInv, TypeOK, clientVars, proxyVars, workVars,
     DeploymentRecords, DoneWell, Working
<1>7. ExitedWell'
  BY ProxyAssumption DEF RunTask, Move, IInv, TypeOK, clientVars, proxyVars, workVars,
     DeploymentRecords, ExitedWell, DoneWell, InItsDir, Unsent, Started, Waiting, Asked,
     Working
<1> QED BY <1>1, <1>2, <1>3, <1>4, <1>5, <1>6, <1>7 DEF IInv

\* A request is written to the proxy the client is connected to.
LEMMA WriteKeeps ==
  ASSUME IInv, NEW c \in Clients,
         Write(c)
  PROVE  IInv'
<1>1. Counted'
  BY SameWork DEF Write, Move, IInv, Placed, Unsent, TypeOK, clientVars, proxyVars,
     workVars, Working
<1>2. TypeOK'
  BY ProxyAssumption DEF Write, Move, IInv, TypeOK, clientVars, proxyVars, workVars,
     DeploymentRecords, Waiting, Asked, Working
<1>3. Unsent'
  BY ProxyAssumption DEF Write, Move, IInv, TypeOK, clientVars, proxyVars, workVars,
     DeploymentRecords, Unsent, Waiting, Asked, Working
<1>4. Placed'
  BY ProxyAssumption DEF Write, Move, IInv, TypeOK, clientVars, proxyVars, workVars,
     DeploymentRecords, Placed, Working, Asked
<1>5. InItsDir'
  BY ProxyAssumption DEF Write, Move, IInv, TypeOK, clientVars, proxyVars, workVars,
     DeploymentRecords, InItsDir, Unsent, Working, Started, NotStarted
<1>6. DoneWell'
  BY ProxyAssumption DEF Write, Move, IInv, TypeOK, clientVars, proxyVars, workVars,
     DeploymentRecords, DoneWell, Working
<1>7. ExitedWell'
  BY ProxyAssumption DEF Write, Move, IInv, TypeOK, clientVars, proxyVars, workVars,
     DeploymentRecords, ExitedWell, DoneWell, InItsDir, Unsent, Started, Waiting, Asked,
     Working
<1> QED BY <1>1, <1>2, <1>3, <1>4, <1>5, <1>6, <1>7 DEF IInv

\* A client loses its proxy.
LEMMA LoseKeeps ==
  ASSUME IInv, NEW c \in Clients,
         LoseConnection(c)
  PROVE  IInv'
<1>1. Counted'
  BY SameWork DEF LoseConnection, End, IInv, Placed, Unsent, TypeOK, clientVars,
     proxyVars, workVars, Working
<1>2. TypeOK'
  BY ProxyAssumption DEF LoseConnection, End, IInv, TypeOK, clientVars, proxyVars,
     workVars, DeploymentRecords, Waiting, Asked, Working
<1>3. Unsent'
  BY ProxyAssumption DEF LoseConnection, End, IInv, TypeOK, clientVars, proxyVars,
     workVars, DeploymentRecords, Unsent, Waiting, Asked, Working
<1>4. Placed'
  BY ProxyAssumption DEF LoseConnection, End, IInv, TypeOK, clientVars, proxyVars,
     workVars, DeploymentRecords, Placed, Working, Asked
<1>5. InItsDir'
  BY ProxyAssumption DEF LoseConnection, End, IInv, TypeOK, clientVars, proxyVars,
     workVars, DeploymentRecords, InItsDir, Unsent, Working, Started, NotStarted
<1>6. DoneWell'
  BY ProxyAssumption DEF LoseConnection, End, IInv, TypeOK, clientVars, proxyVars,
     workVars, DeploymentRecords, DoneWell, Working
<1>7. ExitedWell'
  BY ProxyAssumption DEF LoseConnection, End, IInv, TypeOK, clientVars, proxyVars,
     workVars, DeploymentRecords, ExitedWell, DoneWell, InItsDir, Unsent, Started,
     Waiting, Asked, Working
<1> QED BY <1>1, <1>2, <1>3, <1>4, <1>5, <1>6, <1>7 DEF IInv

\* A client waits no longer.
LEMMA ExpireKeeps ==
  ASSUME IInv, NEW c \in Clients,
         Expire(c)
  PROVE  IInv'
<1>1. Counted'
  BY SameWork DEF Expire, End, IInv, Placed, Unsent, TypeOK, clientVars, proxyVars,
     workVars, Working
<1>2. TypeOK'
  BY ProxyAssumption DEF Expire, End, IInv, TypeOK, clientVars, proxyVars, workVars,
     DeploymentRecords, Waiting, Asked, Working
<1>3. Unsent'
  BY ProxyAssumption DEF Expire, End, IInv, TypeOK, clientVars, proxyVars, workVars,
     DeploymentRecords, Unsent, Waiting, Asked, Working
<1>4. Placed'
  BY ProxyAssumption DEF Expire, End, IInv, TypeOK, clientVars, proxyVars, workVars,
     DeploymentRecords, Placed, Working, Asked
<1>5. InItsDir'
  BY ProxyAssumption DEF Expire, End, IInv, TypeOK, clientVars, proxyVars, workVars,
     DeploymentRecords, InItsDir, Unsent, Working, Started, NotStarted
<1>6. DoneWell'
  BY ProxyAssumption DEF Expire, End, IInv, TypeOK, clientVars, proxyVars, workVars,
     DeploymentRecords, DoneWell, Working
<1>7. ExitedWell'
  BY ProxyAssumption DEF Expire, End, IInv, TypeOK, clientVars, proxyVars, workVars,
     DeploymentRecords, ExitedWell, DoneWell, InItsDir, Unsent, Started, Waiting, Asked,
     Working
<1> QED BY <1>1, <1>2, <1>3, <1>4, <1>5, <1>6, <1>7 DEF IInv

\* A client reads its response.
LEMMA ResponseKeeps ==
  ASSUME IInv, NEW c \in Clients,
         ReadResponse(c)
  PROVE  IInv'
<1>1. Counted'
  BY SameWork DEF ReadResponse, End, IInv, Placed, Unsent, TypeOK, clientVars,
     proxyVars, workVars, Working
<1>2. TypeOK'
  BY ProxyAssumption DEF ReadResponse, End, IInv, TypeOK, clientVars, proxyVars,
     workVars, DeploymentRecords, Waiting, Asked, Working
<1>3. Unsent'
  BY ProxyAssumption DEF ReadResponse, End, IInv, TypeOK, clientVars, proxyVars,
     workVars, DeploymentRecords, Unsent, Waiting, Asked, Working
<1>4. Placed'
  BY ProxyAssumption DEF ReadResponse, End, IInv, TypeOK, clientVars, proxyVars,
     workVars, DeploymentRecords, Placed, Working, Asked
<1>5. InItsDir'
  BY ProxyAssumption DEF ReadResponse, End, IInv, TypeOK, clientVars, proxyVars,
     workVars, DeploymentRecords, InItsDir, Unsent, Working, Started, NotStarted
<1>6. DoneWell'
  BY ProxyAssumption DEF ReadResponse, End, IInv, TypeOK, clientVars, proxyVars,
     workVars, DeploymentRecords, DoneWell, Working
<1>7. ExitedWell'
  BY ProxyAssumption DEF ReadResponse, End, IInv, TypeOK, clientVars, proxyVars,
     workVars, DeploymentRecords, ExitedWell, DoneWell, InItsDir, Unsent, Started,
     Waiting, Asked, Working
<1> QED BY <1>1, <1>2, <1>3, <1>4, <1>5, <1>6, <1>7 DEF IInv

\* A proxy listens, or finds that another one does.
LEMMA ListenKeeps ==
  ASSUME IInv, NEW p \in Proxies,
         Listen(p)
  PROVE  IInv'
<1>1. Counted'
  BY SameWork DEF Listen, IInv, Placed, Unsent, TypeOK, clientVars, proxyVars, workVars,
     Working
<1>2. TypeOK'
  BY ProxyAssumption DEF Listen, IInv, TypeOK, clientVars, proxyVars, workVars,
     DeploymentRecords, Waiting, Asked, Working
<1>3. Unsent'
  BY ProxyAssumption DEF Listen, IInv, TypeOK, clientVars, proxyVars, workVars,
     DeploymentRecords, Unsent, Waiting, Asked, Working
<1>4. Placed'
  BY ProxyAssumption DEF Listen, IInv, TypeOK, clientVars, proxyVars, workVars,
     DeploymentRecords, Placed, Working, Asked
<1>5. InItsDir'
  BY ProxyAssumption DEF Listen, IInv, TypeOK, clientVars, proxyVars, workVars,
     DeploymentRecords, InItsDir, Unsent, Working, Started, NotStarted
<1>6. DoneWell'
  BY ProxyAssumption DEF Listen, IInv, TypeOK, clientVars, proxyVars, workVars,
     DeploymentRecords, DoneWell, Working
<1>7. ExitedWell'
  BY ProxyAssumption DEF Listen, IInv, TypeOK, clientVars, proxyVars, workVars,
     DeploymentRecords, ExitedWell, DoneWell, InItsDir, Unsent, Started, Waiting, Asked,
     Working
<1> QED BY <1>1, <1>2, <1>3, <1>4, <1>5, <1>6, <1>7 DEF IInv

\* The inactivity timer of a proxy ends it.
LEMMA InactiveKeeps ==
  ASSUME IInv, NEW p \in Proxies,
         InactiveChecker(p)
  PROVE  IInv'
<1>1. Counted'
  BY SameWork DEF InactiveChecker, IInv, Placed, Unsent, TypeOK, clientVars, proxyVars,
     workVars, Working
<1>2. TypeOK'
  BY ProxyAssumption DEF InactiveChecker, IInv, TypeOK, clientVars, proxyVars, workVars,
     DeploymentRecords, Waiting, Asked, Working
<1>3. Unsent'
  BY ProxyAssumption DEF InactiveChecker, IInv, TypeOK, clientVars, proxyVars, workVars,
     DeploymentRecords, Unsent, Waiting, Asked, Working
<1>4. Placed'
  BY ProxyAssumption DEF InactiveChecker, IInv, TypeOK, clientVars, proxyVars, workVars,
     DeploymentRecords, Placed, Working, Asked
<1>5. InItsDir'
  BY ProxyAssumption DEF InactiveChecker, IInv, TypeOK, clientVars, proxyVars, workVars,
     DeploymentRecords, InItsDir, Unsent, Working, Started, NotStarted
<1>6. DoneWell'
  BY ProxyAssumption DEF InactiveChecker, IInv, TypeOK, clientVars, proxyVars, workVars,
     DeploymentRecords, DoneWell, Working
<1>7. ExitedWell'
  BY ProxyAssumption DEF InactiveChecker, IInv, TypeOK, clientVars, proxyVars, workVars,
     DeploymentRecords, ExitedWell, DoneWell, InItsDir, Unsent, Started, Waiting, Asked,
     Working
<1> QED BY <1>1, <1>2, <1>3, <1>4, <1>5, <1>6, <1>7 DEF IInv

\* A proxy ends, with what it was doing.
LEMMA GoneKeeps ==
  ASSUME IInv, NEW p \in Proxies, crashes' \in 0 .. 1,
         IsGone(p)
  PROVE  IInv'
<1>1. Counted'
  BY SameWork DEF IsGone, IInv, Placed, Unsent, TypeOK, clientVars, proxyVars, workVars,
     Working
<1>2. TypeOK'
  BY ProxyAssumption DEF IsGone, IInv, TypeOK, clientVars, proxyVars, workVars,
     DeploymentRecords, Waiting, Asked, Working
<1>3. Unsent'
  BY ProxyAssumption DEF IsGone, IInv, TypeOK, clientVars, proxyVars, workVars,
     DeploymentRecords, Unsent, Waiting, Asked, Working
<1>4. Placed'
  BY ProxyAssumption DEF IsGone, IInv, TypeOK, clientVars, proxyVars, workVars,
     DeploymentRecords, Placed, Working, Asked
<1>5. InItsDir'
  BY ProxyAssumption DEF IsGone, IInv, TypeOK, clientVars, proxyVars, workVars,
     DeploymentRecords, InItsDir, Unsent, Working, Started, NotStarted
<1>6. DoneWell'
  BY ProxyAssumption DEF IsGone, IInv, TypeOK, clientVars, proxyVars, workVars,
     DeploymentRecords, DoneWell, Working
<1>7. ExitedWell'
  BY ProxyAssumption DEF IsGone, IInv, TypeOK, clientVars, proxyVars, workVars,
     DeploymentRecords, ExitedWell, DoneWell, InItsDir, Unsent, Started, Waiting, Asked,
     Working
<1> QED BY <1>1, <1>2, <1>3, <1>4, <1>5, <1>6, <1>7 DEF IInv

\* A proxy reads a request.
LEMMA RequestKeeps ==
  ASSUME IInv, NEW c \in Clients,
         ReadRequest(c)
  PROVE  IInv'
<1>0. on[c] \in Proxies /\ proxy[on[c]] # "gone" BY DEF IInv, Placed, InProxy, ReadRequest
<1>1. Counted'
  BY <1>0, SameWork DEF ReadRequest, InProxy, Stage, IInv, Placed, Unsent, TypeOK,
     clientVars, proxyVars, workVars, Working
<1>2. TypeOK'
  BY <1>0, ProxyAssumption DEF ReadRequest, InProxy, Stage, IInv, TypeOK, clientVars,
     proxyVars, workVars, DeploymentRecords, Waiting, Asked, Working
<1>3. Unsent'
  BY <1>0, ProxyAssumption DEF ReadRequest, InProxy, Stage, IInv, TypeOK, clientVars,
     proxyVars, workVars, DeploymentRecords, Unsent, Waiting, Asked, Working
<1>4. Placed'
  BY <1>0, ProxyAssumption DEF ReadRequest, InProxy, Stage, IInv, TypeOK, clientVars,
     proxyVars, workVars, DeploymentRecords, Placed, Working, Asked
<1>5. InItsDir'
  BY <1>0, ProxyAssumption DEF ReadRequest, InProxy, Stage, IInv, TypeOK, clientVars,
     proxyVars, workVars, DeploymentRecords, InItsDir, Unsent, Working, Started,
     NotStarted
<1>6. DoneWell'
  BY <1>0, ProxyAssumption DEF ReadRequest, InProxy, Stage, IInv, TypeOK, clientVars,
     proxyVars, workVars, DeploymentRecords, DoneWell, Working
<1>7. ExitedWell'
  BY <1>0, ProxyAssumption DEF ReadRequest, InProxy, Stage, IInv, TypeOK, clientVars,
     proxyVars, workVars, DeploymentRecords, ExitedWell, DoneWell, InItsDir, Unsent,
     Started, Waiting, Asked, Working
<1> QED BY <1>1, <1>2, <1>3, <1>4, <1>5, <1>6, <1>7 DEF IInv

\* A proxy counts a job.
LEMMA CountKeeps ==
  ASSUME IInv, NEW c \in Clients,
         CountJob(c)
  PROVE  IInv'
<1> DEFINE stage == IF c \in deployment.split THEN "pp" ELSE "run"
<1>0. on[c] \in Proxies /\ proxy[on[c]] # "gone" BY DEF IInv, Placed, InProxy, CountJob
<1>1. Counted'
  <2>1. stage \in Working /\ job[c] \notin Working /\ job' = [job EXCEPT ![c] = stage]
    BY DEF CountJob, InProxy, Stage, Working
  <2> QED BY <1>0, <2>1, MoreWork DEF CountJob, InProxy, Stage, IInv
<1>2. TypeOK' BY <1>0 DEF CountJob, InProxy, Stage, UpdateRunningJobs, IInv, TypeOK,
     clientVars, proxyVars, workVars, Waiting, Asked, Working
<1>3. Unsent'
  BY <1>0, ProxyAssumption DEF CountJob, InProxy, Stage, IInv, TypeOK, clientVars,
     proxyVars, workVars, DeploymentRecords, Unsent, Waiting, Asked, Working
<1>4. Placed'
  BY <1>0, ProxyAssumption DEF CountJob, InProxy, Stage, IInv, TypeOK, clientVars,
     proxyVars, workVars, DeploymentRecords, Placed, Working, Asked
<1>5. InItsDir'
  BY <1>0, ProxyAssumption DEF CountJob, InProxy, Stage, IInv, TypeOK, clientVars,
     proxyVars, workVars, DeploymentRecords, InItsDir, Unsent, Working, Started,
     NotStarted
<1>6. DoneWell'
  BY <1>0, ProxyAssumption DEF CountJob, InProxy, Stage, IInv, TypeOK, clientVars,
     proxyVars, workVars, DeploymentRecords, DoneWell, Working
<1>7. ExitedWell'
  BY <1>0, ProxyAssumption DEF CountJob, InProxy, Stage, IInv, TypeOK, clientVars,
     proxyVars, workVars, DeploymentRecords, ExitedWell, DoneWell, InItsDir, Unsent,
     Started, Waiting, Asked, Working
<1> QED BY <1>1, <1>2, <1>3, <1>4, <1>5, <1>6, <1>7 DEF IInv

\* A command of a job starts.
LEMMA ProcessKeeps ==
  ASSUME IInv, NEW c \in Clients, NEW stage \in {"pp", "cc", "run"}, NEW runs \in Working,
         <<stage, runs>> \in {<<"pp", "ppRuns">>, <<"cc", "ccRuns">>, <<"run", "runRuns">>},
         StartProcess(c, stage, runs)
  PROVE  IInv'
<1>0. on[c] \in Proxies /\ proxy[on[c]] # "gone" BY DEF IInv, Placed, InProxy, StartProcess
<1>1. Counted'
  BY <1>0, SameWork DEF StartProcess, InProxy, Stage, IInv, Placed, Unsent, TypeOK,
     clientVars, proxyVars, workVars, Working
<1>2. TypeOK'
  BY <1>0, ProxyAssumption DEF StartProcess, InProxy, Stage, IInv, TypeOK, clientVars,
     proxyVars, workVars, DeploymentRecords, Waiting, Asked, Working
<1>3. Unsent'
  BY <1>0, ProxyAssumption DEF StartProcess, InProxy, Stage, IInv, TypeOK, clientVars,
     proxyVars, workVars, DeploymentRecords, Unsent, Waiting, Asked, Working
<1>4. Placed'
  BY <1>0, ProxyAssumption DEF StartProcess, InProxy, Stage, IInv, TypeOK, clientVars,
     proxyVars, workVars, DeploymentRecords, Placed, Working, Asked
<1>5. InItsDir'
  BY <1>0, ProxyAssumption DEF StartProcess, InProxy, Stage, IInv, TypeOK, clientVars,
     proxyVars, workVars, DeploymentRecords, InItsDir, Unsent, Working, Started,
     NotStarted
<1>6. DoneWell'
  BY <1>0, ProxyAssumption DEF StartProcess, InProxy, Stage, IInv, TypeOK, clientVars,
     proxyVars, workVars, DeploymentRecords, DoneWell, Working
<1>7. ExitedWell'
  BY <1>0, ProxyAssumption DEF StartProcess, InProxy, Stage, IInv, TypeOK, clientVars,
     proxyVars, workVars, DeploymentRecords, ExitedWell, DoneWell, InItsDir, Unsent,
     Started, Waiting, Asked, Working
<1> QED BY <1>1, <1>2, <1>3, <1>4, <1>5, <1>6, <1>7 DEF IInv

\* A preprocessing ends.
LEMMA PreprocessedKeeps ==
  ASSUME IInv, NEW c \in Clients, NEW success \in BOOLEAN,
         FinishPreprocessing(c, success)
  PROVE  IInv'
<1>0. on[c] \in Proxies /\ proxy[on[c]] # "gone"
  BY DEF IInv, Placed, InProxy, FinishPreprocessing
<1>1. Counted' /\ runningJobs' \in [Proxies -> Nat]
  <2>1. CASE success
    <3>1. UNCHANGED <<proxy, on, runningJobs>> /\ job[c] \in Working
      BY <2>1 DEF FinishPreprocessing, InProxy, Stage, Respond, Working
    <3>2. \A d \in Clients : job'[d] \in Working <=> job[d] \in Working
      BY <2>1 DEF FinishPreprocessing, InProxy, Stage, Respond, Working, IInv, TypeOK
    <3>3. \A p \in Proxies : \A d \in Clients :
            (on[d] = p /\ job[d] \in Working) <=> (on'[d] = p /\ job'[d] \in Working)
      BY <3>1, <3>2
    <3>4. Counted' BY <3>1, <3>3, SameWork DEF IInv
    <3> QED BY <3>1, <3>4 DEF IInv, TypeOK
  <2>2. CASE ~success
    <3>1. /\ UpdateRunningJobs(c, -1) /\ UNCHANGED <<proxy, on>>
          /\ job' = [job EXCEPT ![c] = "failed"] /\ job[c] \in Working
      BY <2>2 DEF FinishPreprocessing, InProxy, Stage, Respond, Working
    <3> QED BY <1>0, <3>1, LessWork DEF IInv
  <2> QED BY <2>1, <2>2
<1>2. TypeOK'
  BY <1>0, <1>1 DEF FinishPreprocessing, InProxy, Stage, Respond, IInv, TypeOK,
     clientVars, proxyVars, workVars, Waiting, Asked, Working
<1>3. Unsent'
  BY <1>0, ProxyAssumption DEF FinishPreprocessing, InProxy, Stage, Respond, IInv,
     TypeOK, clientVars, proxyVars, workVars, DeploymentRecords, Unsent, Waiting, Asked,
     Working
<1>4. Placed'
  BY <1>0, ProxyAssumption DEF FinishPreprocessing, InProxy, Stage, Respond, IInv,
     TypeOK, clientVars, proxyVars, workVars, DeploymentRecords, Placed, Working, Asked
<1>5. InItsDir'
  BY <1>0, ProxyAssumption DEF FinishPreprocessing, InProxy, Stage, Respond, IInv,
     TypeOK, clientVars, proxyVars, workVars, DeploymentRecords, InItsDir, Unsent,
     Working, Started, NotStarted
<1>6. DoneWell'
  BY <1>0, ProxyAssumption DEF FinishPreprocessing, InProxy, Stage, Respond, IInv,
     TypeOK, clientVars, proxyVars, workVars, DeploymentRecords, DoneWell, Working
<1>7. ExitedWell'
  BY <1>0, ProxyAssumption DEF FinishPreprocessing, InProxy, Stage, Respond, IInv,
     TypeOK, clientVars, proxyVars, workVars, DeploymentRecords, ExitedWell, DoneWell,
     InItsDir, Unsent, Started, Waiting, Asked, Working
<1> QED BY <1>1, <1>2, <1>3, <1>4, <1>5, <1>6, <1>7 DEF IInv

\* A compilation ends.
LEMMA CompiledKeeps ==
  ASSUME IInv, NEW c \in Clients, NEW success \in BOOLEAN, NEW stage \in {"remote", "ccRuns", "runRuns"},
         FinishCompilation(c, stage, success)
  PROVE  IInv'
<1>0. on[c] \in Proxies /\ proxy[on[c]] # "gone"
  BY DEF IInv, Placed, InProxy, FinishCompilation
<1>1. Counted' /\ runningJobs' \in [Proxies -> Nat]
  <2>1. /\ UpdateRunningJobs(c, -1) /\ UNCHANGED <<proxy, on>>
        /\ job' = [job EXCEPT ![c] = IF success THEN "done" ELSE "failed"]
        /\ job[c] \in Working
    BY DEF FinishCompilation, InProxy, Stage, Respond, Working
  <2> QED BY <1>0, <2>1, LessWork DEF IInv
<1>2. TypeOK'
  BY <1>0, <1>1 DEF FinishCompilation, InProxy, Stage, Respond, IInv, TypeOK,
     clientVars, proxyVars, workVars, Waiting, Asked, Working
<1>3. Unsent'
  BY <1>0, ProxyAssumption DEF FinishCompilation, InProxy, Stage, Respond, IInv, TypeOK,
     clientVars, proxyVars, workVars, DeploymentRecords, Unsent, Waiting, Asked, Working
<1>4. Placed'
  BY <1>0, ProxyAssumption DEF FinishCompilation, InProxy, Stage, Respond, IInv, TypeOK,
     clientVars, proxyVars, workVars, DeploymentRecords, Placed, Working, Asked
<1>5. InItsDir'
  BY <1>0, ProxyAssumption DEF FinishCompilation, InProxy, Stage, Respond, IInv, TypeOK,
     clientVars, proxyVars, workVars, DeploymentRecords, InItsDir, Unsent, Working,
     Started, NotStarted
<1>6. DoneWell'
  BY <1>0, ProxyAssumption DEF FinishCompilation, InProxy, Stage, Respond, IInv, TypeOK,
     clientVars, proxyVars, workVars, DeploymentRecords, DoneWell, Working
<1>7. ExitedWell'
  BY <1>0, ProxyAssumption DEF FinishCompilation, InProxy, Stage, Respond, IInv, TypeOK,
     clientVars, proxyVars, workVars, DeploymentRecords, ExitedWell, DoneWell, InItsDir,
     Unsent, Started, Waiting, Asked, Working
<1> QED BY <1>1, <1>2, <1>3, <1>4, <1>5, <1>6, <1>7 DEF IInv

LEMMA InitIInv == ASSUME Init PROVE IInv
<1>1. TypeOK
  BY ProxyAssumption DEF Init, TypeOK, DeploymentRecords, Waiting
<1>2. Unsent /\ Placed /\ DoneWell BY DEF Init, Unsent, Placed, DoneWell
<1>3. InItsDir BY DEF Init, InItsDir, Working, Started, NotStarted
<1>4. ExitedWell BY ProxyAssumption DEF Init, ExitedWell
<1>5. Counted
  <2>1. \A p \in Proxies : WorkOf(p) = {} BY DEF Init, WorkOf, Working
  <2> QED BY <2>1, FS_EmptySet DEF Init, Counted
<1> QED BY <1>1, <1>2, <1>3, <1>4, <1>5 DEF IInv

\* The invariant is inductive.
LEMMA StepIInv == ASSUME IInv, [Next]_vars PROVE IInv'
<1>1. ASSUME NEW c \in Clients, ClientStep(c) PROVE IInv'
  BY <1>1, ConnectKeeps, StartKeeps, WaitAgainKeeps, RunTaskKeeps, WriteKeeps, LoseKeeps,
     ResponseKeeps DEF ClientStep
<1>2. ASSUME NEW c \in Clients, JobStep(c) PROVE IInv'
  <2>1. CASE ReadRequest(c) BY <2>1, RequestKeeps
  <2>2. CASE CountJob(c) BY <2>2, CountKeeps
  <2>3. CASE StartProcess(c, "pp", "ppRuns") BY <2>3, ProcessKeeps DEF Working
  <2>4. CASE StartProcess(c, "cc", "ccRuns") BY <2>4, ProcessKeeps DEF Working
  <2>5. CASE StartProcess(c, "run", "runRuns") BY <2>5, ProcessKeeps DEF Working
  <2>6. ASSUME NEW success \in BOOLEAN, FinishPreprocessing(c, success) PROVE IInv'
    BY <2>6, PreprocessedKeeps
  <2>7. ASSUME NEW success \in BOOLEAN, NEW stage \in {"remote", "ccRuns", "runRuns"},
               FinishCompilation(c, stage, success)
        PROVE  IInv'
    BY <2>7, CompiledKeeps
  <2> QED BY <1>2, <2>1, <2>2, <2>3, <2>4, <2>5, <2>6, <2>7 DEF JobStep
<1>3. ASSUME NEW c \in Clients, Expire(c) PROVE IInv' BY <1>3, ExpireKeeps
<1>4. ASSUME NEW p \in Proxies, Listen(p) PROVE IInv' BY <1>4, ListenKeeps
<1>5. ASSUME NEW p \in Proxies, InactiveChecker(p) PROVE IInv' BY <1>5, InactiveKeeps
<1>6. ASSUME NEW p \in Proxies, Leave(p) \/ Crash(p) PROVE IInv'
  <2>1. crashes' \in 0 .. 1
    BY <1>6, ProxyAssumption DEF Leave, Crash, IInv, TypeOK, DeploymentRecords
  <2> QED BY <1>6, <2>1, GoneKeeps DEF Leave, Crash
<1>7. CASE UNCHANGED vars
  BY <1>7 DEF vars, clientVars, proxyVars, workVars, IInv, TypeOK, Unsent, Placed, Counted,
     InItsDir, DoneWell, ExitedWell, WorkOf
<1> QED BY <1>1, <1>2, <1>3, <1>4, <1>5, <1>6, <1>7 DEF Next

(***************************************************************************)
(* The theorems.                                                           *)
(***************************************************************************)
\* The invariant holds in every reachable state.
THEOREM Inductive == Spec => []IInv
BY InitIInv, StepIInv, PTL DEF Spec

\* Clients, proxies and jobs stay in their states, and no count falls below zero.
THEOREM TypeCorrect == Spec => []TypeOK
<1>1. IInv => TypeOK BY DEF IInv
<1> QED BY <1>1, Inductive, PTL

\* m_runningJobs is the number of requests the proxy works on, so the inactivity timer
\* finds it zero exactly when there are none (ToolProxyServer.cpp:104).
THEOREM TimerIsRight == Spec => []IdleMeansNoWork
<1>1. IInv => IdleMeansNoWork BY DEF IInv, Counted, IdleMeansNoWork
<1> QED BY <1>1, Inductive, PTL

\* An exit code of 0 means a compilation by the client's command, in its directory where
\* the proxy has worked in one directory at a time.
THEOREM ExitCodesAreTrue == Spec => []ExitCodeIsTrue
<1>1. IInv => ExitCodeIsTrue BY DEF IInv, ExitedWell, ExitCodeIsTrue
<1> QED BY <1>1, Inductive, PTL
=============================================================================
