----------------------------- MODULE NinjaBuild -----------------------------
(***************************************************************************)
(* A build by the modified ninja: the rewrite of its graph                 *)
(* (StateRewrite.cpp), its main loop (build.cc) and the executor of remote *)
(* commands (RemoteExecutor.cpp), whose results arrive from the threads of *)
(* the remote tool client.                                                 *)
(*                                                                         *)
(* An edge of the manifest is named for itself; the rewrite splits one     *)
(* into <<e, "pp">> and <<e, "cc">>, any other is <<e, "run">>.  Every     *)
(* edge has one output, a node named like the edge.  The build is from     *)
(* scratch, so every edge is wanted.                                       *)
(***************************************************************************)
EXTENDS Naturals, Sequences, FiniteSets, FiniteSetsExt, SequencesExt

CONSTANTS
  ManifestEdges,
  Manifests,     (* the manifests and options a build may start with             *)
  Parallelism    (* config_.parallelism                                         *)

\* A manifest: the inputs of an edge (explicit, implicit and order-only together), the
\* edges whose rule PreprocessCode can split, those whose flags forbid remote execution,
\* the phony ones, one pool (depth 0: none), the least number of remote edges, -k, -n, and
\* how often the disk may fail Builder: a directory, a response file, a Stat, a log.
ManifestRecords ==
  [deps : [ManifestEdges -> SUBSET ManifestEdges], compile : SUBSET ManifestEdges,
   localFlags : SUBSET ManifestEdges, phony : SUBSET ManifestEdges,
   pool : SUBSET ManifestEdges, depth : Nat, minimalRemote : Nat, failures : Nat,
   dryRun : BOOLEAN, diskErrors : 0 .. 1]

ASSUME BuildAssumption ==
  /\ IsFiniteSet(ManifestEdges)
  /\ Manifests \subseteq ManifestRecords
  /\ \A m \in Manifests : m.compile \cap m.phony = {}   \* a phony rule has no command
  /\ Parallelism \in Nat \ {0}

VARIABLES
  manifest,
  want,          (* Plan::want_: edges not finished, and whether scheduled       *)
  ready, readyRemote, delayed, poolUse,
  at, outcome,   (* where the main loop is; how Build returned                   *)
  pendingCommands, pendingRemote, failuresAllowed,
  running, finished,            (* the subprocesses; the finished, not reaped    *)
  requests, written,            (* the client's tasks; those that have written   *)
  activeEdges, results, hasStart, (* the remote executor                         *)
  files,         (* outputs that this build has written                          *)
  interrupted, diskErrors,
  excused        (* history: edges reaped without success, or answered before Abort *)

planVars == <<want, ready, readyRemote, delayed, poolUse>>
loopVars == <<at, outcome, failuresAllowed>>
runnerVars == <<pendingCommands, running, finished>>
clientVars == <<requests, written>>
remoteVars == <<pendingRemote, activeEdges, results, hasStart>>
envVars == <<interrupted, diskErrors, excused>>
vars == <<manifest, planVars, loopVars, runnerVars, clientVars, remoteVars, files, envVars>>

(***************************************************************************)
(* The rewrite of the graph.                                               *)
(***************************************************************************)
Split(m) == m.compile \ m.localFlags
Edges(m) == (ManifestEdges \ Split(m)) \X {"run"} \cup Split(m) \X {"pp", "cc"}
Output(m, d) == <<d, IF d \in Split(m) THEN "cc" ELSE "run">>

\* Mutant: order-only inputs stay behind, so the preprocessing waits for nothing.
InputsForgotten(m, e) ==
  CASE e[2] = "cc" -> {<<e[1], "pp">>}
    [] e[2] = "pp" -> {}
    [] OTHER       -> {Output(m, d) : d \in m.deps[e[1]]}

Inputs(m, e) ==
  IF e[2] = "cc" THEN {<<e[1], "pp">>} ELSE {Output(m, d) : d \in m.deps[e[1]]}

IsRemote(e) == e[2] = "cc"
UsesTemporaryInputs(e) == e[2] = "cc"
IsPhony(m, e) == e[1] \in m.phony
\* AddEdge puts the two halves of a split edge into the default pool; the rewrite does not
\* copy the pool of the original.
InPool(m, e) == m.depth # 0 /\ e[1] \in m.pool /\ e[2] = "run"
RemoteEdges(m) == {e \in Edges(m) : IsRemote(e)}

AllEdges == ManifestEdges \X {"run", "pp", "cc"}
TypeOK ==
  /\ manifest \in Manifests
  /\ DOMAIN want \subseteq Edges(manifest) /\ \A e \in DOMAIN want : want[e] \in {"start", "finish"}
  /\ ready \subseteq DOMAIN want /\ readyRemote \subseteq RemoteEdges(manifest)
  /\ delayed \subseteq DOMAIN want /\ poolUse \in 0 .. manifest.depth
  /\ at \in {"remote", "reap", "local", "wait", "idle", "cleanup", "aborting", "done"}
  /\ outcome \in {"none", "success", "failed", "stuck", "interrupted", "error"}
  /\ pendingCommands \in Nat /\ pendingRemote \in Nat
  /\ failuresAllowed \in 0 .. manifest.failures
  /\ running \subseteq AllEdges /\ finished \subseteq AllEdges \X BOOLEAN
  /\ written \subseteq requests /\ requests \subseteq AllEdges
  /\ activeEdges \subseteq AllEdges /\ results \in Seq(AllEdges \X BOOLEAN)
  /\ files \subseteq AllEdges /\ hasStart \in BOOLEAN /\ interrupted \in BOOLEAN
  /\ diskErrors \in 0 .. 1 /\ excused \subseteq AllEdges

\* Plan::AddTarget has scheduled the edges without inputs to wait for; one in a pool is
\* delayed and retrieved in turn.
Room(m, use) == IF m.depth > use THEN m.depth - use ELSE 0

Retrievals(m, set, use) ==
  kSubset(IF Cardinality(set) < Room(m, use) THEN Cardinality(set) ELSE Room(m, use), set)

Init ==
  /\ manifest \in Manifests
  /\ LET first == {e \in Edges(manifest) : Inputs(manifest, e) = {}}
         pooled == {e \in first : InPool(manifest, e)}
     IN /\ want = [e \in Edges(manifest) |-> IF e \in first THEN "finish" ELSE "start"]
        /\ \E now \in Retrievals(manifest, pooled, 0) :
             /\ ready = (first \ pooled) \cup now
             /\ delayed = pooled \ now
             /\ poolUse = Cardinality(now)
        /\ readyRemote = {e \in ready : IsRemote(e)}
  /\ at = "remote" /\ outcome = "none"
  /\ pendingCommands = 0 /\ pendingRemote = 0 /\ failuresAllowed = manifest.failures
  /\ running = {} /\ finished = {} /\ requests = {} /\ written = {}
  /\ activeEdges = {} /\ results = << >>
  /\ hasStart = (Cardinality(RemoteEdges(manifest)) > manifest.minimalRemote)
  /\ files = {} /\ interrupted = FALSE /\ diskErrors = manifest.diskErrors
  /\ excused = {}

(***************************************************************************)
(* The plan.                                                               *)
(***************************************************************************)
MoreToDo == DOMAIN want # {}

\* Mutant: an edge found for the remote stays among the ready.
FindWorkInOne(e, onlyRemote) ==
  /\ e \in IF onlyRemote THEN readyRemote ELSE ready
  /\ ready' = (IF onlyRemote THEN ready ELSE ready \ {e})
  /\ readyRemote' = readyRemote \ {e}
  /\ UNCHANGED <<want, delayed, poolUse>>

FindWork(e, onlyRemote) ==
  /\ e \in IF onlyRemote THEN readyRemote ELSE ready
  /\ ready' = ready \ {e}
  /\ readyRemote' = readyRemote \ {e}
  /\ UNCHANGED <<want, delayed, poolUse>>

\* EdgeFinished: the pool lets delayed edges go; a success schedules the edges that waited
\* for the output, and offers them to the remote too.
EdgeFinished(e, success) ==
  LET m == manifest
      left == [d \in DOMAIN want \ {e} |-> want[d]]
      waiting == {d \in DOMAIN left : /\ want[d] = "start" /\ e \in Inputs(m, d)
                                      /\ Inputs(m, d) \cap DOMAIN left = {}}
      new == IF success THEN waiting ELSE {}
      newPooled == {d \in new : InPool(m, d)}
      use == poolUse - (IF InPool(m, e) THEN 1 ELSE 0)
  IN \E freed \in Retrievals(m, delayed, use) :
       \E now \in Retrievals(m, (delayed \ freed) \cup newPooled, use + Cardinality(freed)) :
         /\ want' = IF success THEN [d \in DOMAIN left |-> IF d \in new THEN "finish" ELSE left[d]]
                    ELSE want
         /\ ready' = (ready \ {e}) \cup (new \ newPooled) \cup freed \cup now
         /\ readyRemote' = readyRemote \cup {d \in new : IsRemote(d)}
         /\ delayed' = (delayed \cup newPooled) \ (freed \cup now)
         /\ poolUse' = use + Cardinality(freed) + Cardinality(now)

(***************************************************************************)
(* The main loop of Builder::Build.                                        *)
(***************************************************************************)
Go(place) == at' = place /\ UNCHANGED <<outcome, failuresAllowed>>
Return(how) == at' = "cleanup" /\ outcome' = how /\ UNCHANGED failuresAllowed
CanStart == failuresAllowed > 0

Finish == at = "remote" /\ ~MoreToDo /\ Return("success")
          /\ UNCHANGED <<manifest, planVars, runnerVars, clientVars, remoteVars, files, envVars>>

\* StartEdge has found an edge and fails: a directory, a response file, a tool not known.
StartFails(place, onlyRemote) ==
  /\ at = place /\ MoreToDo /\ CanStart /\ diskErrors > 0
  /\ onlyRemote => hasStart
  /\ \E e \in Edges(manifest) : FindWork(e, onlyRemote) /\ ~IsPhony(manifest, e)
  /\ diskErrors' = diskErrors - 1
  /\ Return("error")
  /\ UNCHANGED <<manifest, runnerVars, clientVars, remoteVars, files, interrupted, excused>>

\* StartCommand and InvokeTool; a missing input is answered at once, in this thread.
StartRemote ==
  /\ at = "remote" /\ MoreToDo /\ CanStart /\ hasStart
  /\ \E e \in Edges(manifest) :
       /\ FindWork(e, TRUE)
       /\ IF Inputs(manifest, e) \subseteq files
          THEN /\ requests' = requests \cup {e} /\ activeEdges' = activeEdges \cup {e}
               /\ UNCHANGED results
          ELSE /\ results' = Append(results, <<e, FALSE>>)
               /\ UNCHANGED <<requests, activeEdges>>
  /\ pendingRemote' = pendingRemote + 1
  /\ UNCHANGED <<manifest, loopVars, runnerVars, written, hasStart, files, envVars>>

\* No free thread just now, or nothing that could go there.
SkipRemote ==
  /\ at = "remote" /\ MoreToDo /\ Go("reap")
  /\ UNCHANGED <<manifest, planVars, runnerVars, clientVars, remoteVars, files, envVars>>

\* Mutant: temporary inputs are kept.
RemainingFilesAll(e, success) == files

RemainingFiles(e, success) ==
  IF success /\ UsesTemporaryInputs(e) THEN files \ Inputs(manifest, e) ELSE files

\* FinishCommand where it returns true.
Finished(e, success) ==
  /\ EdgeFinished(e, success)
  /\ files' = RemainingFiles(e, success)
  /\ failuresAllowed' = IF ~success /\ failuresAllowed > 0 THEN failuresAllowed - 1
                        ELSE failuresAllowed
  /\ excused' = IF success THEN excused ELSE excused \cup {e}
  /\ at' = "remote" /\ UNCHANGED <<outcome, interrupted, diskErrors>>

\* Where it returns false: the output's Stat fails before the plan is told, or a log cannot
\* be written after.  The temporary inputs stay.
NotRecorded(e) ==
  /\ ~manifest.dryRun /\ diskErrors > 0 /\ diskErrors' = diskErrors - 1
  /\ UNCHANGED planVars \/ EdgeFinished(e, TRUE)
  /\ excused' = excused \cup {e}
  /\ Return("error")
  /\ UNCHANGED <<files, interrupted>>

\* ExtractDeps makes a failure of a command whose dependencies cannot be read.
FinishCommand(result) ==
  \/ Finished(result[1], result[2])
  \/ result[2] /\ ~manifest.dryRun /\ Finished(result[1], FALSE)
  \/ result[2] /\ NotRecorded(result[1])

\* Mutant: the pending remote commands are not counted down.
ReapRemoteUncounted ==
  /\ at = "reap" /\ results # << >>
  /\ results' = Tail(results)
  /\ FinishCommand(Head(results))
  /\ UNCHANGED <<manifest, runnerVars, clientVars, pendingRemote, activeEdges, hasStart>>

ReapRemote ==
  /\ at = "reap" /\ results # << >>
  /\ results' = Tail(results)
  /\ pendingRemote' = pendingRemote - 1
  /\ FinishCommand(Head(results))
  /\ UNCHANGED <<manifest, runnerVars, clientVars, activeEdges, hasStart>>

NothingToReap ==
  /\ at = "reap" /\ results = << >> /\ Go("local")
  /\ UNCHANGED <<manifest, planVars, runnerVars, clientVars, remoteVars, files, envVars>>

Processes == Cardinality(running) + Cardinality(finished)
CanRunMore == manifest.dryRun \/ Processes < Parallelism

\* In a dry run a command has finished as soon as it is started.
StartLocal ==
  /\ at = "local" /\ CanStart /\ CanRunMore
  /\ \E e \in Edges(manifest) :
       /\ FindWork(e, FALSE) /\ ~IsPhony(manifest, e)
       /\ IF manifest.dryRun
          THEN finished' = finished \cup {<<e, TRUE>>} /\ UNCHANGED running
          ELSE running' = running \cup {e} /\ UNCHANGED finished
  /\ pendingCommands' = pendingCommands + 1
  /\ Go("remote")
  /\ UNCHANGED <<manifest, clientVars, remoteVars, files, envVars>>

FinishPhony ==
  /\ at = "local" /\ CanStart /\ CanRunMore
  /\ \E e \in ready : IsPhony(manifest, e) /\ EdgeFinished(e, TRUE)
  /\ Go("remote")
  /\ UNCHANGED <<manifest, runnerVars, clientVars, remoteVars, files, envVars>>

\* CanRunMore is false, which the load average makes it only while something runs.
SkipLocal ==
  /\ at = "local"
  /\ ~CanStart \/ ready = {} \/ ~CanRunMore \/ running # {}
  /\ Go("wait")
  /\ UNCHANGED <<manifest, planVars, runnerVars, clientVars, remoteVars, files, envVars>>

ReapLocal ==
  /\ at = "wait" /\ pendingCommands > 0
  /\ \E result \in finished :
       /\ finished' = finished \ {result}
       /\ FinishCommand(result)
  /\ pendingCommands' = pendingCommands - 1
  /\ UNCHANGED <<manifest, running, clientVars, remoteVars>>

\* ExitInterrupted: a signal has ended the subprocess.  It has left the runner, so Cleanup
\* does not know its output any more.
ReapInterrupted ==
  /\ at = "wait" /\ pendingCommands > 0
  /\ \E result \in finished :
       /\ ~result[2]
       /\ finished' = finished \ {result}
       /\ excused' = excused \cup {result[1]}
  /\ Return("interrupted")
  /\ UNCHANGED <<manifest, planVars, pendingCommands, running, clientVars, remoteVars, files,
                 interrupted, diskErrors>>

\* DoWork: an interrupt is looked at where a subprocess is waited for, and nowhere else.
NoticeInterrupt ==
  /\ at = "wait" /\ pendingCommands > 0 /\ finished = {} /\ interrupted
  /\ Return("interrupted")
  /\ UNCHANGED <<manifest, planVars, runnerVars, clientVars, remoteVars, files, envVars>>

NothingToWaitFor ==
  /\ at = "wait" /\ pendingCommands = 0 /\ Go("idle")
  /\ UNCHANGED <<manifest, planVars, runnerVars, clientVars, remoteVars, files, envVars>>

SleepSome ==
  /\ at = "idle" /\ CanStart /\ pendingRemote > 0 /\ Go("remote")
  /\ UNCHANGED <<manifest, planVars, runnerVars, clientVars, remoteVars, files, envVars>>

\* Without failures left, Build does not wait for what still runs remotely.
GiveUp ==
  /\ at = "idle" /\ ~(CanStart /\ pendingRemote > 0)
  /\ Return(IF failuresAllowed < manifest.failures THEN "failed" ELSE "stuck")
  /\ UNCHANGED <<manifest, planVars, runnerVars, clientVars, remoteVars, files, envVars>>

(***************************************************************************)
(* Builder::Cleanup, from Build or the destructor.                         *)
(***************************************************************************)
\* The subprocesses are ended; m_hasStart is cleared before the client is destroyed.
Abort ==
  /\ at = "cleanup" /\ Go("aborting")
  /\ hasStart' = FALSE
  /\ excused' = excused \cup {r[1] : r \in ToSet(results)}
  /\ UNCHANGED <<manifest, planVars, runnerVars, clientVars, pendingRemote, activeEdges,
                 results, files, interrupted, diskErrors>>

\* The client's destructor has joined its threads; tasks not answered by then never are.
\* Then the outputs of the active edges go.
RemoveOutputs ==
  /\ at = "aborting" /\ written = {} /\ Go("done")
  /\ requests' = {}
  /\ files' = files \ (activeEdges \cup running \cup {result[1] : result \in finished})
  /\ running' = {} /\ finished' = {}
  /\ UNCHANGED <<manifest, planVars, pendingCommands, written, remoteVars, envVars>>

(***************************************************************************)
(* The others: subprocesses, the threads of the client, the user.          *)
(***************************************************************************)
LocalWrites(e) ==
  /\ e \in running \ files /\ at # "aborting"
  /\ files' = files \cup {e}
  /\ UNCHANGED <<manifest, planVars, loopVars, runnerVars, clientVars, remoteVars, envVars>>

LocalExits(e, success) ==
  /\ e \in running /\ at # "aborting"
  /\ success => e \in files
  /\ running' = running \ {e} /\ finished' = finished \cup {<<e, success>>}
  /\ UNCHANGED <<manifest, planVars, loopVars, pendingCommands, clientVars, remoteVars, files,
                 envVars>>

ClientWrites(e) ==
  /\ e \in requests \ written
  /\ written' = written \cup {e} /\ files' = files \cup {e}
  /\ UNCHANGED <<manifest, planVars, loopVars, runnerVars, requests, remoteVars, envVars>>

\* Mutant: the edge is erased although the executor has been aborted.
CallbackErasing(e, success) ==
  /\ results' = Append(results, <<e, success>>)
  /\ activeEdges' = activeEdges \ {e}

\* The callback of StartCommand.
CallbackOf(e, success) ==
  /\ results' = Append(results, <<e, success>>)
  /\ activeEdges' = IF hasStart THEN activeEdges \ {e} ELSE activeEdges

ClientAnswers(e, success) ==
  /\ e \in requests /\ success = (e \in written)
  /\ requests' = requests \ {e} /\ written' = written \ {e}
  /\ CallbackOf(e, success)
  /\ UNCHANGED <<manifest, planVars, loopVars, runnerVars, pendingRemote, hasStart, files,
                 envVars>>

Interrupt ==
  /\ ~interrupted /\ at # "done" /\ interrupted' = TRUE
  /\ UNCHANGED <<manifest, planVars, loopVars, runnerVars, clientVars, remoteVars, files,
                 diskErrors, excused>>

-----------------------------------------------------------------------------
Loop ==
  \/ Finish \/ StartFails("remote", TRUE) \/ StartFails("local", FALSE)
  \/ StartRemote \/ SkipRemote \/ ReapRemote \/ NothingToReap
  \/ StartLocal \/ FinishPhony \/ SkipLocal \/ ReapLocal \/ ReapInterrupted
  \/ NoticeInterrupt \/ NothingToWaitFor \/ SleepSome \/ GiveUp \/ Abort \/ RemoveOutputs

Others ==
  \/ \E e \in AllEdges, success \in BOOLEAN : LocalExits(e, success) \/ ClientAnswers(e, success)
  \/ \E e \in AllEdges : LocalWrites(e) \/ ClientWrites(e)

Next == Loop \/ Others \/ Interrupt \/ (at = "done" /\ UNCHANGED vars)

\* The main thread runs on, subprocesses end, and a thread of the client that has written an
\* output goes on to the callback.  That a task is answered at all is not promised: the
\* client leaves one for ever that its server can not be reconnected for
\* (SocketFrameHandler.cpp:101).
Fairness ==
  /\ WF_vars(Loop)
  /\ \A e \in AllEdges :
       /\ WF_vars(\E success \in BOOLEAN : LocalExits(e, success))
       /\ WF_vars(e \in written /\ ClientAnswers(e, TRUE))

Spec == Init /\ [][Next]_vars /\ Fairness

(***************************************************************************)
(* Properties.                                                             *)
(***************************************************************************)
FinishedEdges == {r[1] : r \in finished}
ResultEdges == {r[1] : r \in ToSet(results)}
Places == <<ready, delayed, running, FinishedEdges, requests, ResultEdges>>

\* Until Abort, the loop's count of remote commands is that of the tasks the client holds
\* and the results not reaped, and the active edges are the tasks; the count of local
\* commands is right until an interrupted one is reaped uncounted (build.cc:967).
Counted ==
  at # "aborting" /\ at # "done" =>
    /\ pendingRemote = Cardinality(requests) + Len(results)
    /\ activeEdges = requests
    /\ outcome # "interrupted" => pendingCommands = Processes

\* An edge is in one place at a time, whether it was found for the remote or locally: it
\* never runs twice, on two sides or after it was reaped, the remote is offered none that
\* is not ready, a pool has no more running than its depth, and the loop counts what the
\* executors hold: no callback, in this thread or in between, loses an edge.
EachEdgeOnce ==
  /\ Cardinality({e \in running : InPool(manifest, e)}) <= manifest.depth
  /\ readyRemote \subseteq ready
  /\ \A i, j \in DOMAIN Places : i < j => Places[i] \cap Places[j] = {}
  /\ \A i, j \in DOMAIN results : results[i][1] = results[j][1] => i = j
  /\ (UNION ToSet(Places)) \subseteq DOMAIN want
  /\ Counted

\* What the manifest says an edge needs is there while the edge runs, split or not: the
\* rewrite loses no dependency, and no preprocessed file goes before it is compiled.
InputsAreThere ==
  \A e \in running \cup requests :
    /\ \A d \in Inputs(manifest, e) : d \in files \/ IsPhony(manifest, d)
    /\ \A d \in manifest.deps[e[1]] : Output(manifest, d) \in files \/ d \in manifest.phony

\* A successful build has built all outputs and cleaned every preprocessed file.
SuccessIsComplete ==
  (outcome = "success" /\ at = "done") =>
    files = IF manifest.dryRun THEN {}
            ELSE {e \in Edges(manifest) : e[2] # "pp" /\ ~IsPhony(manifest, e)}

\* After a build that was given up, an output is left only if its edge has finished, was
\* reaped (as failed, interrupted or not recorded) or had answered before Abort: what the
\* client's threads write while it is destroyed goes, and so does what subprocesses had
\* written.
NoOutputLeft == at = "done" => files \cap DOMAIN want \subseteq excused

\* Build returns, and never because nothing can run although nothing has failed, unless the
\* client leaves a task without answer for ever: then the loop sleeps for ever too
\* (build.cc:993).
BuildReturns ==
  <>(at = "done" /\ outcome # "stuck") \/ \E e \in AllEdges : <>[](e \in requests)
=============================================================================
