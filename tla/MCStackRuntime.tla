--------------------------- MODULE MCStackRuntime ---------------------------
(* A small stack for TLC: a database with a hostname on an automatic port, and  *)
(* a worker on a fixed port that starts before it and is given its port. A      *)
(* change takes the database's port and hostname away, gives the worker another *)
(* hostname and makes it depend on the database, so that it starts after it; or *)
(* a change drops the worker.                                                   *)
EXTENDS StackRuntime

CONSTANTS db, worker, h1, h2, p2

Def(command, needs, port, hosts) ==
  [command |-> command, needs |-> needs, port |-> port, hosts |-> hosts]

Stack(database, plain) == [s \in {db, worker} |-> IF s = db THEN database ELSE plain]
Base == Stack(Def("v1", {}, "auto", {h1}), Def("v1", {}, p2, {}))
Moved == Stack(Def("v1", {}, "none", {}), Def("v1", {db}, p2, {h2}))
Alone == [s \in {db} |-> Base[db]]

MCManifests == {Base, Moved, Alone}

ManifestFiles == [m \in MCManifests |->
  IF m = Moved THEN {"root", "new"} ELSE {"root", "old"}]
StartOrder == [m \in MCManifests |->
  [s \in Service |-> IF (s = worker) = (m = Moved) THEN 2 ELSE 1]]
=============================================================================
