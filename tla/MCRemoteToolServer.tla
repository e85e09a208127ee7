------------------------ MODULE MCRemoteToolServer ------------------------
(* One client that loses its connection and makes another (c1, c2), and a    *)
(* second client (c3), from a host that the white list, when there is one,   *)
(* does not have.                                                            *)
EXTENDS RemoteToolServer

CONSTANTS c1, c2, c3, s1, s2, h1, h2, t1, t2

MCSessionOf == [c \in Connections |-> IF c = c3 THEN s2 ELSE s1]
MCHostOf == [c \in Connections |-> IF c = c3 THEN h2 ELSE h1]
MCWhiteLists == {{}, {h1}}
=============================================================================
