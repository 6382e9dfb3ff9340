---------------------------- MODULE DevtoolsServer ----------------------------
(* What the two streams of the devtools control server (devtools/server.go)    *)
(* have in common: connections, and that the server stops for both at once.    *)
CONSTANTS
  Clients,  \* the pages; each attaches to a stream once, through a handler of its own
  None

VARIABLE
  stopped   \* isStopped
=============================================================================
