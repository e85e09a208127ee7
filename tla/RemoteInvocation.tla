-------------------------- MODULE RemoteInvocation --------------------------
(***************************************************************************)
(* What RemoteToolClient::InvokeTool promises its caller, with the servers *)
(* and connections left out: an invocation waits in the queue, runs on     *)
(* some server, may go back to the queue a bounded number of times, and    *)
(* ends with one call of its callback, after which nothing happens to it.  *)
(***************************************************************************)
EXTENDS Naturals

CONSTANTS
  Tasks,              (* the invocations                                      *)
  InvocationAttempts  (* m_invocationAttempts: how often one may be retried   *)

VARIABLES
  phase,   (* where each invocation is                                        *)
  remain   (* the retries it has left                                         *)

invocationVars == <<phase, remain>>

Init ==
  /\ phase = [t \in Tasks |-> "none"]
  /\ remain = [t \in Tasks |-> InvocationAttempts]

Move(t, from, to) == phase[t] = from /\ phase' = [phase EXCEPT ![t] = to]

Invoke(t) == Move(t, "none", "queued") /\ UNCHANGED remain
Run(t)    == Move(t, "queued", "running") /\ UNCHANGED remain
Retry(t)  == /\ remain[t] > 0
             /\ Move(t, "running", "queued")
             /\ remain' = [remain EXCEPT ![t] = @ - 1]

\* The callback: unreadable input, expired in the queue, a result, or an error
\* that leaves no retry.
Answer(t) ==
  /\ phase[t] # "answered"
  /\ phase' = [phase EXCEPT ![t] = "answered"]
  /\ remain' = [remain EXCEPT ![t] = 0]

Next == \E t \in Tasks : Invoke(t) \/ Run(t) \/ Retry(t) \/ Answer(t)

Spec == Init /\ [][Next]_invocationVars
=============================================================================
