------------------------------ MODULE HealthFeed ------------------------------
(***************************************************************************)
(* The health stream of the devtools control server (devtools/server.go):  *)
(* publishers (the poll, and the stack's runtime after each of its steps)  *)
(* and the handlers that attach a page read the stack's health, and then   *)
(* record it and send it to the pages under healthMu.  Pages come and go,  *)
(* writes fail, and the server stops at any point in between.              *)
(***************************************************************************)
EXTENDS DevtoolsServer, Naturals

CONSTANTS
  Poller,      \* the goroutine of pollHealth
  Runtime,     \* other callers of PublishHealthResponse
  MaxChanges   \* changes of the stack's health in a behaviour

Publishers == {Poller} \union Runtime
Procs == Publishers \union Clients

ASSUME HealthFeedAssumption ==
  /\ MaxChanges \in Nat
  /\ Publishers \intersect Clients = {}
  /\ None \notin Procs \union Nat

VARIABLES
  health,         \* version of the stack's health and of the pages' configuration
  board,          \* lastPublishedHealth
  mutex,          \* the process that holds healthMu
  healthClients,  \* the connections that are written to
  pc,             \* pc[p]: the next step of process p
  message,        \* message[p]: the health p read
  recipients,     \* recipients[p]: the recipients p has not written to yet
  connection,     \* connection[c]: is c's connection "new", "open" or "closed"?
  held,           \* held[c]: the health c received last
  closing         \* connections that Stop has taken over and not closed yet

pages == <<connection, held>>
procs == <<pc, message, recipients>>
healthVars == <<health, board, mutex, healthClients, procs, pages, closing, stopped>>

Versions == 0..MaxChanges

\* Types of the state; a process writes to pages only while it holds healthMu.
HealthTypeOK ==
  /\ health \in Versions
  /\ board \in Versions \union {None}
  /\ mutex \in Procs \union {None}
  /\ healthClients \subseteq Clients
  /\ pc \in [Procs -> {"idle", "read", "lock", "send", "attached"}]
  /\ message \in [Procs -> Versions \union {None}]
  /\ recipients \in [Procs -> SUBSET Clients]
  /\ connection \in [Clients -> {"new", "open", "closed"}]
  /\ held \in [Clients -> Versions \union {None}]
  /\ closing \subseteq Clients
  /\ stopped \in BOOLEAN
  /\ \A p \in Procs : pc[p] = "send" <=> mutex = p

HealthInit ==
  /\ health = 0 /\ board = None
  /\ mutex = None
  /\ healthClients = {} /\ closing = {}
  /\ pc = [p \in Procs |-> "idle"]
  /\ message = [p \in Procs |-> None]
  /\ recipients = [p \in Procs |-> {}]
  /\ connection = [c \in Clients |-> "new"]
  /\ held = [c \in Clients |-> None]
  /\ stopped = FALSE

-----------------------------------------------------------------------------
\* A service starts, stops, fails or is marked, or a reload changes settings.
Change ==
  /\ health < MaxChanges
  /\ health' = health + 1
  /\ UNCHANGED <<board, mutex, healthClients, procs, pages, closing, stopped>>

\* PublishHealthResponse; the poll calls it only while pages are attached.
Begin(p) ==
  /\ p \in Publishers
  /\ pc[p] = "idle" /\ ~stopped
  /\ p = Poller => healthClients # {}
  /\ pc' = [pc EXCEPT ![p] = "read"]
  /\ UNCHANGED <<health, board, mutex, healthClients, message, recipients, pages, closing, stopped>>

\* handleHealthWebsocket: the connection is upgraded.  Stop closes the listener
\* too; a handler under way when it does goes on.
AttachHealth(c) ==
  /\ connection[c] = "new" /\ ~stopped
  /\ connection' = [connection EXCEPT ![c] = "open"]
  /\ pc' = [pc EXCEPT ![c] = "read"]
  /\ UNCHANGED <<health, board, mutex, healthClients, message, recipients, held, closing, stopped>>

\* resolveHealthMessage, before healthMu is taken.
Read(p) ==
  /\ pc[p] = "read"
  /\ message' = [message EXCEPT ![p] = health]
  /\ pc' = [pc EXCEPT ![p] = "lock"]
  /\ UNCHANGED <<health, board, mutex, healthClients, recipients, pages, closing, stopped>>

\* The health cannot be read: nothing is sent, and a page that was attaching
\* is disconnected.
ReadFails(p) ==
  /\ pc[p] = "read"
  /\ pc' = [pc EXCEPT ![p] = IF p \in Clients THEN "attached" ELSE "idle"]
  /\ connection' = [c \in Clients |-> IF c = p THEN "closed" ELSE connection[c]]
  /\ UNCHANGED <<health, board, mutex, healthClients, message, recipients, held, closing, stopped>>

Joined(p) == healthClients \union ({p} \intersect Clients)

\* Faulty variant: healthMu covers the recording and not the sending.
RecordUnlocked(p) ==
  /\ pc[p] = "lock" /\ mutex = None
  /\ healthClients' = Joined(p)
  /\ board' = message[p]
  /\ recipients' = [recipients EXCEPT ![p] =
       IF message[p] # board THEN Joined(p) ELSE {p} \intersect Clients]
  /\ pc' = [pc EXCEPT ![p] = "send"]
  /\ UNCHANGED <<health, mutex, message, pages, closing, stopped>>

\* Faulty variant: a page that attaches is sent only what is news to the others.
RecordNews(p) ==
  /\ pc[p] = "lock" /\ mutex = None
  /\ mutex' = p
  /\ healthClients' = Joined(p)
  /\ board' = message[p]
  /\ recipients' = [recipients EXCEPT ![p] = IF message[p] # board THEN Joined(p) ELSE {}]
  /\ pc' = [pc EXCEPT ![p] = "send"]
  /\ UNCHANGED <<health, message, pages, closing, stopped>>

\* Under healthMu and mu the page joins, the health is recorded, and the
\* recipients are chosen.
Record(p) ==
  /\ pc[p] = "lock" /\ mutex = None
  /\ mutex' = p
  /\ healthClients' = Joined(p)
  /\ board' = message[p]
  /\ recipients' = [recipients EXCEPT ![p] =
       IF message[p] # board THEN Joined(p) ELSE {p} \intersect Clients]
  /\ pc' = [pc EXCEPT ![p] = "send"]
  /\ UNCHANGED <<health, message, pages, closing, stopped>>

\* broadcast, one recipient at a time: a page that is gone, or does not take
\* the write in time, is removed and closed (removeHealthClient).
Send(p, c) ==
  /\ pc[p] = "send" /\ c \in recipients[p]
  /\ recipients' = [recipients EXCEPT ![p] = @ \ {c}]
  /\ \/ /\ connection[c] = "open"
        /\ held' = [held EXCEPT ![c] = message[p]]
        /\ UNCHANGED <<healthClients, connection>>
     \/ /\ healthClients' = healthClients \ {c}
        /\ connection' = [connection EXCEPT ![c] = "closed"]
        /\ UNCHANGED held
  /\ UNCHANGED <<health, board, mutex, pc, message, closing, stopped>>

\* publishHealth returns; an attached page is read until it closes.
Release(p) ==
  /\ pc[p] = "send" /\ recipients[p] = {}
  /\ mutex' = None
  /\ pc' = [pc EXCEPT ![p] = IF p \in Clients THEN "attached" ELSE "idle"]
  /\ UNCHANGED <<health, board, healthClients, message, recipients, pages, closing, stopped>>

\* The page is closed in the browser.
LeaveHealth(c) ==
  /\ connection[c] = "open"
  /\ connection' = [connection EXCEPT ![c] = "closed"]
  /\ UNCHANGED <<health, board, mutex, healthClients, procs, held, closing, stopped>>

\* readUntilClosed notices and removes the client.
Remove(c) ==
  /\ pc[c] = "attached" /\ connection[c] = "closed" /\ c \in healthClients
  /\ healthClients' = healthClients \ {c}
  /\ UNCHANGED <<health, board, mutex, procs, pages, closing, stopped>>

\* Stop takes the clients over under mu, and closes them outside it.
StopHealth ==
  /\ ~stopped
  /\ stopped' = TRUE
  /\ closing' = healthClients
  /\ healthClients' = {}
  /\ UNCHANGED <<health, board, mutex, procs, pages>>

CloseHealth(c) ==
  /\ c \in closing
  /\ closing' = closing \ {c}
  /\ connection' = [connection EXCEPT ![c] = "closed"]
  /\ UNCHANGED <<health, board, mutex, healthClients, procs, held, stopped>>

PublishHealth(p) == Read(p) \/ ReadFails(p) \/ Release(p) \/ \E c \in Clients : Send(p, c)

HealthNext ==
  \/ Change \/ StopHealth
  \/ \E p \in Procs : Begin(p) \/ PublishHealth(p) \/ Record(p)
  \/ \E c \in Clients : AttachHealth(c) \/ LeaveHealth(c) \/ Remove(c) \/ CloseHealth(c)

HealthSpec == HealthInit /\ [][HealthNext]_healthVars

\* A publish that began goes on, the poll's ticker ticks, and a mutex does not
\* starve a waiter (Go's starvation mode).  The reads do not fail for ever.
Fairness ==
  /\ \A p \in Procs : WF_healthVars(PublishHealth(p)) /\ SF_healthVars(Record(p)) /\ SF_healthVars(Read(p))
  /\ WF_healthVars(Begin(Poller))
  /\ \A c \in Clients : WF_healthVars(Remove(c)) /\ WF_healthVars(CloseHealth(c))

FairSpec == HealthSpec /\ Fairness

-----------------------------------------------------------------------------
(* Properties.                                                             *)

\* "The health every client holds is the recorded one", whenever no publish is
\* under way: publishing the recorded health again can be skipped.
HoldsRecorded ==
  (\A p \in Procs : pc[p] # "send") =>
    \A c \in healthClients : connection[c] = "open" => held[c] = board

\* Every page ends up with the stack's current health, although publishers read
\* it before they take healthMu and can record an old one over a newer one.
Converges ==
  \A c \in Clients : <>[](~stopped /\ c \in healthClients /\ connection[c] = "open" => held[c] = health)

(* Read in a test's comment, and not what the code does: see README.md.     *)

\* Once the server has stopped no page is left connected, so that each learns
\* that the stack is going away.
StopClosesPages == \A c \in Clients : (stopped /\ connection[c] = "open") ~> connection[c] = "closed"
=============================================================================
