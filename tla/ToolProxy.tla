------------------------------ MODULE ToolProxy ------------------------------
(***************************************************************************)
(* The tool proxy: short-lived clients (ToolProxyClient.cpp), each with    *)
(* one command, which start a proxy when they find none, and the proxies   *)
(* (ToolProxyServer.cpp), which preprocess the command locally, compile it *)
(* remotely or locally, and leave when nothing has run for a while.        *)
(*                                                                         *)
(* Time is abstracted: every wait may end, every timer may have expired.   *)
(***************************************************************************)
EXTENDS Integers, FiniteSets

CONSTANTS
  Clients, Proxies,
  Dirs,           (* working directories                                      *)
  Deployments,    (* the clients' commands, and bounds                        *)
  None

\* The working directory of a client's command, the commands SplitTask can split, the
\* proxies that run, and how many may crash.
DeploymentRecords ==
  [dir : [Clients -> Dirs], split : SUBSET Clients, up : SUBSET Proxies, crashes : 0 .. 1]

ASSUME ProxyAssumption ==
  /\ Deployments \subseteq DeploymentRecords /\ IsFiniteSet(Clients)
  /\ None \notin Proxies \cup Dirs \cup {0, 1}

VARIABLES
  deployment,
  client,       (* where a client is                                          *)
  exitCode,
  conn,         (* the proxy its handler is connected to                      *)
  orphaned,     (* history: clients that queued the request when unconnected  *)
  proxy, port,  (* a proxy's state; the one that has the port                 *)
  job, on,      (* what the proxy does for a client, and which proxy          *)
  runningJobs, cwd,
  preprocessed, (* preprocessed files                                         *)
  ranIn,        (* directories in which commands of a client ran              *)
  succeeded,    (* history: the clients whose object was compiled             *)
  met,          (* history: proxies that worked for two directories at a time *)
  crashes

clientVars == <<client, exitCode, conn, orphaned>>
proxyVars == <<proxy, port, runningJobs, cwd>>
workVars == <<job, on, preprocessed, ranIn, succeeded>>
vars == <<deployment, clientVars, proxyVars, workVars, met, crashes>>

Waiting == {"wait", "waitAgain"}
Asked == {"queued", "sent"}
Working == {"pp", "ppRuns", "remote", "cc", "ccRuns", "run", "runRuns"}

TypeOK ==
  /\ deployment \in Deployments
  /\ client \in [Clients -> Waiting \cup {"ready", "ended"} \cup Asked]
  /\ exitCode \in [Clients -> {0, 1, None}] /\ conn \in [Clients -> Proxies \cup {None}]
  /\ orphaned \subseteq Clients
  /\ proxy \in [Proxies -> {"none", "starting", "listening", "interrupted", "gone"}]
  /\ port \in Proxies \cup {None}
  /\ job \in [Clients -> {"none", "sent", "read", "failed", "done"} \cup Working]
  /\ on \in [Clients -> Proxies \cup {None}]
  /\ runningJobs \in [Proxies -> Nat] /\ cwd \in [Proxies -> Dirs \cup {None}]
  /\ preprocessed \subseteq Clients /\ ranIn \in [Clients -> SUBSET (Dirs \cup {None})]
  /\ succeeded \subseteq Clients /\ met \subseteq Proxies /\ crashes \in 0 .. 1

Init ==
  /\ deployment \in Deployments
  /\ client = [c \in Clients |-> "wait"] /\ exitCode = [c \in Clients |-> None]
  /\ conn = [c \in Clients |-> None] /\ orphaned = {}
  /\ proxy = [p \in Proxies |-> IF p \in deployment.up THEN "starting" ELSE "none"]
  /\ port = None
  /\ job = [c \in Clients |-> "none"] /\ on = [c \in Clients |-> None]
  /\ runningJobs = [p \in Proxies |-> 0] /\ cwd = [p \in Proxies |-> None]
  /\ preprocessed = {} /\ ranIn = [c \in Clients |-> {}]
  /\ succeeded = {} /\ met = {} /\ crashes = 0

(***************************************************************************)
(* The client.                                                             *)
(***************************************************************************)
End(c, code) ==
  /\ client' = [client EXCEPT ![c] = "ended"]
  /\ exitCode' = [exitCode EXCEPT ![c] = code]

Move(c, state) == client' = [client EXCEPT ![c] = state] /\ UNCHANGED exitCode

\* The handler's thread connects, and again whenever the connection is lost.
Connect(c) ==
  /\ client[c] # "ended" /\ conn[c] = None /\ port # None
  /\ conn' = [conn EXCEPT ![c] = port]
  /\ UNCHANGED <<deployment, client, exitCode, orphaned, proxyVars, workVars, met, crashes>>

\* Start: the first wait ends; without a connection a proxy is started, if there is one to
\* start.
StartClient(c) ==
  /\ client[c] = "wait" /\ Move(c, "waitAgain")
  /\ \/ conn[c] # None /\ UNCHANGED proxy
     \/ /\ conn[c] = None
        /\ \E p \in Proxies : /\ proxy[p] = "none"
                              /\ proxy' = [proxy EXCEPT ![p] = "starting"]
     \/ conn[c] = None /\ (\A p \in Proxies : proxy[p] # "none") /\ UNCHANGED proxy
  /\ UNCHANGED <<deployment, conn, orphaned, port, runningJobs, cwd, workVars, met, crashes>>

\* The second wait ends.
WaitAgain(c) ==
  /\ client[c] = "waitAgain"
  /\ IF conn[c] # None THEN Move(c, "ready") ELSE End(c, 1)
  /\ UNCHANGED <<deployment, conn, orphaned, proxyVars, workVars, met, crashes>>

\* RunTask.
RunTask(c) ==
  /\ client[c] = "ready" /\ Move(c, "queued")
  /\ orphaned' = IF conn[c] = None THEN orphaned \cup {c} ELSE orphaned
  /\ UNCHANGED <<deployment, conn, proxyVars, workVars, met, crashes>>

Write(c) ==
  /\ client[c] = "queued" /\ conn[c] # None /\ Move(c, "sent")
  /\ job' = [job EXCEPT ![c] = "sent"] /\ on' = [on EXCEPT ![c] = conn[c]]
  /\ UNCHANGED <<deployment, conn, orphaned, proxyVars, preprocessed, ranIn, succeeded, met,
                 crashes>>

\* Mutant: the callback is not told.
LoseConnectionSilently(c) ==
  /\ client[c] # "ended" /\ conn[c] # None /\ proxy[conn[c]] = "gone"
  /\ conn' = [conn EXCEPT ![c] = None]
  /\ UNCHANGED <<deployment, client, exitCode, orphaned, proxyVars, workVars, met, crashes>>

\* The callback is told of an error if there is one.
LoseConnection(c) ==
  /\ client[c] # "ended" /\ conn[c] # None /\ proxy[conn[c]] = "gone"
  /\ conn' = [conn EXCEPT ![c] = None]
  /\ IF client[c] \in Asked THEN End(c, 1) ELSE UNCHANGED <<client, exitCode>>
  /\ UNCHANGED <<deployment, orphaned, proxyVars, workVars, met, crashes>>

\* CheckTimeouts, which runs only in a connected handler.
Expire(c) ==
  /\ client[c] \in Asked /\ conn[c] # None /\ End(c, 1)
  /\ UNCHANGED <<deployment, conn, orphaned, proxyVars, workVars, met, crashes>>

ReadResponse(c) ==
  /\ client[c] = "sent" /\ conn[c] = on[c] /\ job[c] \in {"done", "failed"}
  /\ End(c, IF job[c] = "done" THEN 0 ELSE 1)
  /\ UNCHANGED <<deployment, conn, orphaned, proxyVars, workVars, met, crashes>>

(***************************************************************************)
(* The proxy.                                                              *)
(***************************************************************************)
\* StartListen; a proxy that cannot listen is interrupted.
Listen(p) ==
  /\ proxy[p] = "starting"
  /\ proxy' = [proxy EXCEPT ![p] = IF port = None THEN "listening" ELSE "interrupted"]
  /\ port' = IF port = None THEN p ELSE port
  /\ UNCHANGED <<deployment, clientVars, workVars, runningJobs, cwd, met, crashes>>

\* m_inactiveChecker, once m_inactiveTimeout has passed since the last update.
InactiveChecker(p) ==
  /\ proxy[p] = "listening" /\ runningJobs[p] = 0
  /\ proxy' = [proxy EXCEPT ![p] = "interrupted"]
  /\ UNCHANGED <<deployment, clientVars, workVars, port, runningJobs, cwd, met, crashes>>

IsGone(p) ==
  /\ proxy' = [proxy EXCEPT ![p] = "gone"]
  /\ port' = IF port = p THEN None ELSE port
  /\ job' = [c \in Clients |-> IF on[c] = p THEN "none" ELSE job[c]]
  /\ UNCHANGED <<deployment, clientVars, runningJobs, cwd, on, preprocessed, ranIn, succeeded,
                 met>>

Leave(p) == proxy[p] = "interrupted" /\ IsGone(p) /\ UNCHANGED crashes

Crash(p) ==
  /\ proxy[p] \in {"starting", "listening"} /\ crashes < deployment.crashes
  /\ crashes' = crashes + 1 /\ IsGone(p)

InProxy(c, at) == job[c] = at /\ proxy[on[c]] \in {"listening", "interrupted"}
Stage(c, stage) == job' = [job EXCEPT ![c] = stage] /\ UNCHANGED on
UpdateRunningJobs(c, delta) == runningJobs' = [runningJobs EXCEPT ![on[c]] = @ + delta]

\* The request reader: the working directory of the process changes at once, the job is
\* counted after the command has been split.
ReadRequest(c) ==
  /\ InProxy(c, "sent") /\ Stage(c, "read")
  /\ cwd' = [cwd EXCEPT ![on[c]] = deployment.dir[c]]
  /\ met' = IF \E d \in Clients : /\ d # c /\ on[d] = on[c] /\ job[d] \in Working \cup {"read"}
                                  /\ deployment.dir[d] # deployment.dir[c]
            THEN met \cup {on[c]} ELSE met
  /\ UNCHANGED <<deployment, clientVars, proxy, port, runningJobs, preprocessed, ranIn, succeeded,
                 crashes>>

CountJob(c) ==
  /\ InProxy(c, "read") /\ Stage(c, IF c \in deployment.split THEN "pp" ELSE "run")
  /\ UpdateRunningJobs(c, 1)
  /\ UNCHANGED <<deployment, clientVars, proxy, port, cwd, preprocessed, ranIn, succeeded, met,
                 crashes>>

\* The executor starts a task in the working directory the process has by then.
StartProcess(c, stage, runs) ==
  /\ InProxy(c, stage) /\ Stage(c, runs)
  /\ ranIn' = [ranIn EXCEPT ![c] = @ \cup {cwd[on[c]]}]
  /\ UNCHANGED <<deployment, clientVars, proxyVars, preprocessed, succeeded, met, crashes>>

\* A response, and the job counted off.
Respond(c, success) ==
  /\ Stage(c, IF success THEN "done" ELSE "failed")
  /\ UpdateRunningJobs(c, -1)

\* Mutant: only what was compiled is counted off.
FinishPreprocessingUncounted(c, success) ==
  /\ InProxy(c, "ppRuns")
  /\ IF success
     THEN /\ preprocessed' = preprocessed \cup {c}
          /\ Stage(c, "remote") \/ Stage(c, "cc")
          /\ UNCHANGED runningJobs
     ELSE /\ Stage(c, "failed")
          /\ UNCHANGED <<preprocessed, runningJobs>>
  /\ UNCHANGED <<deployment, clientVars, proxy, port, cwd, ranIn, succeeded, met, crashes>>

\* Mutant: the response says what the last command said, and no command has failed.
FinishPreprocessingWell(c, success) ==
  /\ InProxy(c, "ppRuns")
  /\ IF success
     THEN /\ preprocessed' = preprocessed \cup {c}
          /\ Stage(c, "remote") \/ Stage(c, "cc")
          /\ UNCHANGED runningJobs
     ELSE Respond(c, TRUE) /\ UNCHANGED preprocessed
  /\ UNCHANGED <<deployment, clientVars, proxy, port, cwd, ranIn, succeeded, met, crashes>>

\* The callback of the preprocessing: GetFreeRemoteThreads decides where to compile.
FinishPreprocessing(c, success) ==
  /\ InProxy(c, "ppRuns")
  /\ IF success
     THEN /\ preprocessed' = preprocessed \cup {c}
          /\ Stage(c, "remote") \/ Stage(c, "cc")
          /\ UNCHANGED runningJobs
     ELSE Respond(c, FALSE) /\ UNCHANGED preprocessed
  /\ UNCHANGED <<deployment, clientVars, proxy, port, cwd, ranIn, succeeded, met, crashes>>

\* The callback of the remote client removes the preprocessed file; those of the local
\* tasks leave what there is.
FinishCompilation(c, stage, success) ==
  /\ InProxy(c, stage)
  /\ Respond(c, success)
  /\ preprocessed' = IF stage = "remote" THEN preprocessed \ {c} ELSE preprocessed
  /\ succeeded' = IF success THEN succeeded \cup {c} ELSE succeeded
  /\ UNCHANGED <<deployment, clientVars, proxy, port, cwd, ranIn, met, crashes>>

-----------------------------------------------------------------------------
ClientStep(c) ==
  \/ Connect(c) \/ StartClient(c) \/ WaitAgain(c) \/ RunTask(c) \/ Write(c)
  \/ LoseConnection(c) \/ ReadResponse(c)

JobStep(c) ==
  \/ ReadRequest(c) \/ CountJob(c)
  \/ StartProcess(c, "pp", "ppRuns") \/ StartProcess(c, "cc", "ccRuns")
  \/ StartProcess(c, "run", "runRuns")
  \/ \E success \in BOOLEAN :
       \/ FinishPreprocessing(c, success)
       \/ \E stage \in {"remote", "ccRuns", "runRuns"} : FinishCompilation(c, stage, success)

Next ==
  \/ \E c \in Clients : ClientStep(c) \/ JobStep(c) \/ Expire(c)
  \/ \E p \in Proxies : Listen(p) \/ InactiveChecker(p) \/ Leave(p) \/ Crash(p)

\* Threads run on, commands end, a proxy that is interrupted leaves.
Fairness ==
  /\ \A c \in Clients : WF_vars(ClientStep(c)) /\ WF_vars(JobStep(c))
  /\ \A p \in Proxies : WF_vars(Listen(p)) /\ WF_vars(Leave(p))

Spec == Init /\ [][Next]_vars /\ Fairness

(***************************************************************************)
(* Properties.                                                             *)
(***************************************************************************)
\* The clients a proxy works for.
WorkOf(p) == {c \in Clients : on[c] = p /\ job[c] \in Working}

\* The inactivity timer sees no running job exactly when the proxy works for nobody: no
\* path of a request, however it fails, leaves the count up or takes it down twice.
IdleMeansNoWork ==
  \A p \in Proxies : proxy[p] \in {"listening", "interrupted"} =>
    runningJobs[p] = Cardinality(WorkOf(p))

\* A client exits with 0 only when its object was compiled, by its own command and in its
\* own directory, as long as no proxy worked for two directories at a time
\* (ToolProxyServer.cpp:53 assumes that none does).
ExitCodeIsTrue ==
  \A c \in Clients : exitCode[c] = 0 =>
    c \in succeeded /\ (on[c] \notin met => ranIn[c] = {deployment.dir[c]})

\* Every client ends, whatever becomes of the proxies and whoever else starts one; the only
\* one that may hang has asked after its connection was lost and before it got another.
ClientEnds == \A c \in Clients : <>(client[c] = "ended" \/ c \in orphaned)
=============================================================================
