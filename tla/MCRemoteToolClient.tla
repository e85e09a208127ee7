------------------------- MODULE MCRemoteToolClient -------------------------
(* The client with one or two servers of equal size that have every tool.    *)
EXTENDS RemoteToolClient, TLC

CONSTANTS gcc, t1, t2, t3

MCTools == {gcc}
MCToolOf == [t \in Tasks |-> gcc]
Server(id) == [id |-> id, toolIds |-> {}, totalThreads |-> 2, othersUsed |-> 0]
MCOneServer == {Server("a")}
MCTwoServers == {Server("a"), Server("b")}
Symmetry == Permutations(Tasks)
=============================================================================
