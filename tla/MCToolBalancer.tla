--------------------------- MODULE MCToolBalancer ---------------------------
(* Two servers: "a" has every tool and two threads, idle or used by others   *)
(* (65535 is a use count that has wrapped below zero on the server); "b" has *)
(* one tool, and is known with two threads, or with none as a server listed  *)
(* in the client's own configuration is. "c" has no required tool.           *)
EXTENDS ToolBalancer

CONSTANTS gcc, clang

MCTools == {gcc, clang}
MCRequired == {gcc}
Server(id, tools, threads, others) ==
  [id |-> id, toolIds |-> tools, totalThreads |-> threads, othersUsed |-> others]
MCToolServers ==
  { Server("a", {}, 2, 0), Server("a", {}, 2, 65535),
    Server("b", {gcc}, 2, 2), Server("b", {gcc, clang}, 0, 0),
    Server("c", {clang}, 2, 0) }
=============================================================================
