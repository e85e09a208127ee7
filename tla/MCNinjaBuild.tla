---------------------------- MODULE MCNinjaBuild ----------------------------
(* Instances of NinjaBuild: a generator, two objects that wait for it, the    *)
(* program and a phony target; with a pool, with failures, with flags that    *)
(* keep an edge local, and with too few remote edges to start the client.     *)
EXTENDS NinjaBuild

MCEdges == {"gen", "a", "b", "app", "all"}
Plain ==
  [deps |-> [e \in MCEdges |-> CASE e = "gen" -> {} [] e \in {"a", "b"} -> {"gen"}
                                 [] e = "app" -> {"a", "b"} [] e = "all" -> {"app"}],
   compile |-> {"a", "b"}, localFlags |-> {}, phony |-> {"all"},
   pool |-> {}, depth |-> 0, minimalRemote |-> 1, failures |-> 1, dryRun |-> FALSE, diskErrors |-> 0]

Pooled == [Plain EXCEPT !.compile = {}, !.pool = {"a", "b"}, !.depth = 1, !.failures = 2]
OneLocal == [Plain EXCEPT !.localFlags = {"b"}, !.minimalRemote = 0, !.diskErrors = 1]
TooFew == [Plain EXCEPT !.minimalRemote = 2]
NoDependencies == [Plain EXCEPT !.deps = [e \in MCEdges |-> IF e = "all" THEN {"app"} ELSE {}],
                                !.compile = {"a", "b"}, !.pool = {"gen", "b", "app"},
                                !.depth = 1, !.failures = 2]
DryRun == [Plain EXCEPT !.dryRun = TRUE]
DryRunLocal == [TooFew EXCEPT !.dryRun = TRUE]
MCManifests == {Plain, Pooled, OneLocal, TooFew, NoDependencies, DryRun, DryRunLocal}
=============================================================================
