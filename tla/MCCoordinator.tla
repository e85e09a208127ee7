--------------------------- MODULE MCCoordinator ---------------------------
EXTENDS Coordinator

CONSTANTS t1, t2, t3, c1, k1, k2

MCToolServers == {t1, t2, t3}
MCClients == {c1}
MCCoordinators == {k1, k2}

Deploy(hosts, started, times, changes, failures, ends, sessions) ==
  [hosts |-> [p \in Processes |-> IF p \in DOMAIN hosts THEN hosts[p] ELSE << >>],
   started |-> started,
   connects |-> [p \in Processes |-> IF p \in DOMAIN times THEN times[p] ELSE 1],
   infos |-> [t \in ToolServers |-> IF t \in DOMAIN changes THEN changes[t] ELSE 1],
   losses |-> failures, crashes |-> ends,
   sessions |-> sessions]

\* A tool server that reconnects, and a client.
Reconnecting ==
  Deploy(t1 :> <<k1>> @@ c1 :> <<k1>>, {t1, c1}, t1 :> 2, t1 :> 2, 1, 1, {})
\* Two tool servers whose changes cross, and a client.
Crossed ==
  Deploy(t1 :> <<k1>> @@ t2 :> <<k1>> @@ c1 :> <<k1>>, {t1, t2, c1}, << >>, t1 :> 2, 0, 0, {})
\* Three tool servers: an erasure from the middle of the list.
Three ==
  Deploy(t1 :> <<k1>> @@ t2 :> <<k1>> @@ t3 :> <<k1>>, {t1, t2, t3}, << >>, << >>, 2, 0, {})
\* A client with two coordinators, and a tool server at both.
Redundant ==
  Deploy(t1 :> <<k1, k2>> @@ c1 :> <<k1, k2>>, {t1}, << >>, << >>, 0, 0, {})
\* A tool server that is being started while its info changes.
Starting == Deploy(t1 :> <<k1, k2>>, {}, << >>, t1 :> 2, 0, 0, {})
\* A client's session.
Session == Deploy(c1 :> <<k1>>, {}, c1 :> 2, << >>, 1, 0, {c1})

MCDeployments == {Reconnecting, Crossed, Three, Redundant, Starting, Session}
=============================================================================
