------------------------------- MODULE HealthPage -------------------------------
(***************************************************************************)
(* The toolbar of a page (useServiceHealth, WorktreePicker,                *)
(* openReconnectingWebSocket) at the other end of the health stream of     *)
(* HealthFeed.  The stream is reopened after a loss.  The worktree picker  *)
(* asks for the same health with requests of its own, whose answers come   *)
(* in any order with the messages of the stream and replace what they      *)
(* brought; it also switches checkouts and stops other stacks.             *)
(***************************************************************************)
EXTENDS HealthFeed

CONSTANT
  Requests  \* the picker's operations that can be under way at a time

VARIABLES
  conn,       \* the client of the feed that the page's socket is, or None
  timer,      \* is a reconnect timer pending?
  unread,     \* has conn been sent health the page has not handled?
  shown,      \* the health the toolbar shows, or None while none is known
  available,  \* FALSE once the services were marked as unavailable
  loaded,     \* is the picker there with the worktrees loaded (isLoaded)?
  mine,       \* the operation the picker waits for, or None
  request,    \* request[r]: an operation, also of a picker that is gone
  source      \* "stream" or "answer", whichever the page applied last

socket == <<conn, timer, unread>>
toolbar == <<shown, available, source>>
picker == <<loaded, mine>>
pageState == <<socket, toolbar, picker, request>>
allVars == <<healthVars, pageState>>

Idle == [kind |-> "none", phase |-> "idle", health |-> None]
Op(kind, phase) == [kind |-> kind, phase |-> phase, health |-> None]

Blank ==
  /\ conn = None /\ timer = TRUE /\ unread = FALSE
  /\ shown = None /\ available = FALSE /\ source = "stream"
  /\ loaded = FALSE /\ mine = None
  /\ request = [r \in Requests |-> Idle]

PageInit == HealthInit /\ Blank

-----------------------------------------------------------------------------
(* The picker's mounting and its operations.                               *)

\* The picker mounts, in place of the one before, and asks for the worktrees.
Mount(r) ==
  /\ request[r] = Idle
  /\ request' = [request EXCEPT ![r] = Op("load", "get")]
  /\ loaded' = FALSE
  /\ mine' = r

\* updateHealth: what is shown is replaced.
updateHealth(version, from) ==
  /\ shown' = version
  /\ available' = TRUE
  /\ source' = from

\* WorktreeStatusPanel is opened.
OpenPicker(r) ==
  /\ shown # None /\ available
  /\ Mount(r)
  /\ UNCHANGED <<healthVars, socket, toolbar>>

\* The Refresh button.
Refresh(r) ==
  /\ loaded /\ mine = None /\ request[r] = Idle
  /\ request' = [request EXCEPT ![r] = Op("load", "get")]
  /\ mine' = r
  /\ UNCHANGED <<healthVars, socket, toolbar, loaded>>

\* apply and stopOwner send their requests.
Submit(r, kind) ==
  /\ loaded /\ mine = None /\ request[r] = Idle
  /\ request' = [request EXCEPT ![r] = Op(kind, "post")]
  /\ mine' = r
  /\ UNCHANGED <<healthVars, socket, toolbar, loaded>>

\* The switch failed, or the owner was stopped or not: the worktrees are asked for.
Posted(r) ==
  /\ request[r].phase = "post"
  /\ request' = [request EXCEPT ![r].phase = "get"]
  /\ UNCHANGED <<healthVars, socket, toolbar, picker>>

\* The switch succeeded: the page is reloaded, whose requests end with it.
Reload(r) ==
  /\ request[r] = Op("switch", "post")
  /\ conn' = None /\ timer' = TRUE /\ unread' = FALSE
  /\ shown' = None /\ available' = FALSE /\ source' = "stream"
  /\ loaded' = FALSE /\ mine' = None
  /\ request' = [q \in Requests |-> Idle]
  /\ IF conn # None /\ connection[conn] = "open" THEN LeaveHealth(conn) ELSE UNCHANGED healthVars

\* handleWorktrees reads the health, or fails.
Answer(r) ==
  /\ request[r].phase = "get"
  /\ \E version \in {health, None} :
       request' = [request EXCEPT ![r].phase = "got", ![r].health = version]
  /\ UNCHANGED <<healthVars, socket, toolbar, picker>>

\* Faulty variant: the picker goes on waiting when the request failed.
TakeAnswered(r) ==
  /\ request[r].phase = "got"
  /\ request' = [request EXCEPT ![r] = Idle]
  /\ IF request[r].health # None
     THEN updateHealth(request[r].health, "answer") /\ mine' = None /\ loaded' = TRUE
     ELSE UNCHANGED <<toolbar, picker>>
  /\ UNCHANGED <<healthVars, socket>>

\* The answer arrives, at the picker that asked if it is still there.
Take(r) ==
  /\ request[r].phase = "got"
  /\ request' = [request EXCEPT ![r] = Idle]
  /\ IF request[r].health # None THEN updateHealth(request[r].health, "answer")
                                 ELSE UNCHANGED toolbar
  /\ IF mine = r
     THEN /\ mine' = None
          /\ loaded' = IF request[r].kind = "switch" THEN loaded ELSE request[r].health # None
     ELSE UNCHANGED <<mine, loaded>>
  /\ UNCHANGED <<healthVars, socket>>

-----------------------------------------------------------------------------
(* The stream.                                                             *)

\* A connection that nothing refers to any more is used for the next one.
Retired(c) ==
  /\ connection[c] = "closed" /\ pc[c] = "attached"
  /\ c \notin healthClients \union closing
  /\ \A p \in Procs : c \notin recipients[p]

\* connect(), at once for a new page and after a delay for a lost connection.
Connect(c) ==
  /\ timer
  /\ connection[c] = "new" \/ Retired(c)
  /\ connection' = [connection EXCEPT ![c] = "new"]
  /\ pc' = [pc EXCEPT ![c] = "idle"]
  /\ timer' = FALSE
  /\ conn' = c /\ unread' = FALSE
  /\ UNCHANGED <<health, board, mutex, healthClients, message, recipients, held, closing, stopped>>
  /\ UNCHANGED <<toolbar, picker, request>>

Accept(c) == c = conn /\ AttachHealth(c) /\ UNCHANGED pageState

\* The feed sends to the page.
Deliver(p) ==
  /\ \E c \in Clients : Send(p, c)
  /\ unread' = (unread \/ (conn # None /\ conn \in recipients[p] \ recipients'[p] /\ connection'[conn] = "open"))
  /\ UNCHANGED <<conn, timer, toolbar, picker, request>>

\* handleMessage.
Receive ==
  /\ conn # None /\ unread
  /\ unread' = FALSE
  /\ updateHealth(held[conn], "stream")
  /\ UNCHANGED <<healthVars, conn, timer, picker, request>>

\* handleDisconnect: nothing is known about the stack; the repositories are
\* gone, and the picker with them.
handleDisconnect ==
  /\ available' = FALSE
  /\ source' = "stream"
  /\ loaded' = FALSE /\ mine' = None
  /\ UNCHANGED shown

\* The "close" event, for a connection that was not made or was lost.
Disconnect ==
  /\ conn # None
  /\ connection[conn] # "open"
  /\ conn' = None /\ unread' = FALSE
  /\ timer' = TRUE
  /\ handleDisconnect
  /\ UNCHANGED <<healthVars, request>>

-----------------------------------------------------------------------------
Feed ==
  /\ \/ Change \/ StopHealth
     \/ \E p \in Procs : Begin(p) \/ Read(p) \/ ReadFails(p) \/ Release(p) \/ Record(p)
     \/ \E c \in Clients : Remove(c) \/ CloseHealth(c)
     \/ conn # None /\ LeaveHealth(conn)   \* the connection breaks
  /\ UNCHANGED pageState

PageNext ==
  \/ Feed
  \/ \E p \in Procs : Deliver(p)
  \/ \E c \in Clients : Connect(c) \/ Accept(c)
  \/ Receive \/ Disconnect
  \/ \E r \in Requests :
       \/ OpenPicker(r) \/ Refresh(r)
       \/ \E kind \in {"switch", "stop"} : Submit(r, kind)
       \/ Posted(r) \/ Reload(r) \/ Answer(r) \/ Take(r)

Work(p) == Read(p) \/ ReadFails(p) \/ Release(p)

\* The feed's fairness; the browser delivers what has come and fires its timers.
PageFairness ==
  /\ \A p \in Procs :
       /\ WF_allVars(Work(p) /\ UNCHANGED pageState)
       /\ WF_allVars(Deliver(p))
       /\ SF_allVars(Record(p) /\ UNCHANGED pageState)
       /\ SF_allVars(Read(p) /\ UNCHANGED pageState)
  /\ WF_allVars(Begin(Poller) /\ UNCHANGED pageState)
  /\ \A c \in Clients :
       /\ WF_allVars((Remove(c) \/ CloseHealth(c)) /\ UNCHANGED pageState)
       /\ WF_allVars(Connect(c))
       /\ WF_allVars(Accept(c))
  /\ WF_allVars(Receive) /\ WF_allVars(Disconnect)
  /\ \A r \in Requests : WF_allVars(Posted(r)) /\ WF_allVars(Answer(r)) /\ WF_allVars(Take(r))

PageSpec == PageInit /\ [][PageNext]_allVars
FairPageSpec == PageSpec /\ PageFairness

-----------------------------------------------------------------------------
(* Properties.                                                             *)

Connected(c) == ~stopped /\ conn = c /\ c \in healthClients /\ connection[c] = "open"

\* A page that stays connected ends up showing the stack's current health,
\* unless the last thing it applied was the answer to a request of the picker.
ShowsCurrent ==
  \A c \in Clients :
    <>[]Connected(c) => <>[](source = "stream" => available /\ shown = health)

\* The picker never waits for ever: every operation it shows as busy ends.
PickerReturns == (mine # None) ~> (mine = None)

(* Stated in the documentation, and not what the code does: see README.md. *)

\* "While health is disconnected, services show as unavailable."
DisconnectedIsUnavailable == conn = None => ~available

\* An answer that was overtaken by the stream does not stay.
AnswersAreCurrent == \A c \in Clients : <>[]Connected(c) => <>[](shown = health)
=============================================================================
