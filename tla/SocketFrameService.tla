------------------------- MODULE SocketFrameService -------------------------
(***************************************************************************)
(* The accepting side of the network (SocketFrameService.cpp,              *)
(* TcpListener.cpp): the service's thread creates a worker, a              *)
(* SocketFrameHandler with a thread of its own, for the connection at the  *)
(* head of the listen backlog; that thread accepts it.  Meanwhile the      *)
(* listener's m_waitingAccept keeps the service from creating another.     *)
(* The service also erases the workers whose connection is lost.           *)
(***************************************************************************)
EXTENDS Naturals, Sequences

CONSTANTS
  Connections,  (* the connections clients make, each with a worker of its own *)
  Hosts,        (* the hosts clients run on                                    *)
  HostOf,       (* the host a connection comes from                            *)
  WhiteLists    (* the white lists the service may be configured with          *)

ASSUME ServiceAssumption ==
  HostOf \in [Connections -> Hosts] /\ WhiteLists \subseteq SUBSET Hosts

VARIABLES
  whiteList,     (* m_whiteList, never changed; when empty, any host is allowed *)
  backlog,       (* connections the kernel has completed, in order             *)
  waitingAccept, (* m_waitingAccept                                            *)
  workers,       (* the state of each connection and its worker                *)
  refused        (* history: the connections the white list turned away        *)

serviceVars == <<whiteList, backlog, waitingAccept, workers, refused>>

WorkerStates ==
  {"none",       \* the connection is not made yet, or waits in the backlog
   "pending",    \* its worker is created and has to accept it
   "connected",
   "broken",     \* refused or lost; the worker is inactive and not erased yet
   "erased"}

ServiceTypeOK ==
  /\ whiteList \in WhiteLists
  /\ backlog \in Seq(Connections)
  /\ waitingAccept \in BOOLEAN
  /\ workers \in [Connections -> WorkerStates]
  /\ refused \in SUBSET Connections

ServiceInit ==
  /\ whiteList \in WhiteLists
  /\ backlog = << >>
  /\ waitingAccept = FALSE
  /\ workers = [c \in Connections |-> "none"]
  /\ refused = {}

SetWorker(c, state) == workers' = [workers EXCEPT ![c] = state]

InBacklog(c) == \E k \in DOMAIN backlog : backlog[k] = c

IsAccepted(host) == whiteList = {} \/ host \in whiteList

Arrive(c) ==
  /\ workers[c] = "none"
  /\ ~InBacklog(c)
  /\ backlog' = Append(backlog, c)
  /\ UNCHANGED <<whiteList, waitingAccept, workers, refused>>

\* Quant, second part: GetPendingConnection and AddWorker.
AddWorker ==
  /\ ~waitingAccept
  /\ backlog # << >>
  /\ waitingAccept' = TRUE
  /\ SetWorker(Head(backlog), "pending")
  /\ UNCHANGED <<whiteList, backlog, refused>>

Refuse(c) ==
  /\ SetWorker(c, "broken")
  /\ refused' = refused \cup {c}
  /\ UNCHANGED waitingAccept

\* Mutant: the flag is cleared only when a connection is refused.
DoAcceptKeeping(c) ==
  /\ workers[c] = "pending"
  /\ backlog' = Tail(backlog)
  /\ UNCHANGED whiteList
  /\ \/ /\ IsAccepted(HostOf[c])
        /\ SetWorker(c, "connected")
        /\ UNCHANGED <<waitingAccept, refused>>
     \/ /\ ~IsAccepted(HostOf[c])
        /\ SetWorker(c, "broken")
        /\ waitingAccept' = FALSE
        /\ refused' = refused \cup {c}

\* The first Quant of the worker's thread: Connect calls DoAccept, which clears
\* m_waitingAccept only after the host was found in the white list.
DoAccept(c) ==
  /\ workers[c] = "pending"
  /\ backlog' = Tail(backlog)
  /\ UNCHANGED whiteList
  /\ \/ /\ IsAccepted(HostOf[c])
        /\ SetWorker(c, "connected")
        /\ waitingAccept' = FALSE
        /\ UNCHANGED refused
     \/ /\ ~IsAccepted(HostOf[c])
        /\ Refuse(c)

\* accept() fails: the address stays 0.0.0.0, which no white list has.
AcceptFails(c) ==
  /\ workers[c] = "pending"
  /\ backlog' = Tail(backlog)
  /\ UNCHANGED whiteList
  /\ \/ /\ whiteList # {}
        /\ Refuse(c)
     \/ /\ whiteList = {}
        /\ SetWorker(c, "broken")
        /\ waitingAccept' = FALSE
        /\ UNCHANGED refused

Break(c) ==
  /\ workers[c] = "connected"
  /\ SetWorker(c, "broken")
  /\ UNCHANGED <<whiteList, backlog, waitingAccept, refused>>

\* Quant, first part: an inactive worker's thread is joined, then the worker erased.
EraseWorker(c) ==
  /\ workers[c] = "broken"
  /\ SetWorker(c, "erased")
  /\ UNCHANGED <<whiteList, backlog, waitingAccept, refused>>

\* At most one worker has to accept, and it is for the head of the backlog: the service's
\* thread looks at the kernel's queue, the worker's thread takes from it, and only
\* m_waitingAccept keeps the two in step.  The flag stands for such a worker, or stays
\* set because a connection was refused.
OneAccepting ==
  /\ \A j, k \in DOMAIN backlog : backlog[j] = backlog[k] => j = k
  /\ \A k \in DOMAIN backlog : workers[backlog[k]] \in {"none", "pending"}
  /\ \A c \in Connections : workers[c] = "pending" =>
       waitingAccept /\ backlog # << >> /\ Head(backlog) = c
  /\ waitingAccept => refused # {} \/ \E c \in Connections : workers[c] = "pending"
=============================================================================
