---------------------------- MODULE MCToolProxy ----------------------------
(* Instances of ToolProxy: two clients of one or of two directories, with a   *)
(* proxy that runs and others that may be started; one with a crash.          *)
EXTENDS ToolProxy
CONSTANTS c1, c2, p1, p2, d1, d2
MCClients == {c1, c2}
MCProxies == {p1, p2}
MCDirs == {d1, d2}
OneDir == [dir |-> [c \in MCClients |-> d1], split |-> MCClients, up |-> {}, crashes |-> 0]
Mixed == [OneDir EXCEPT !.split = {c1}, !.up = {p1}, !.crashes = 1]
TwoDirs == [OneDir EXCEPT !.dir = [c \in MCClients |-> IF c = c1 THEN d1 ELSE d2], !.up = {p1}]
MCDeployments == {OneDir, Mixed, TwoDirs}
=============================================================================
