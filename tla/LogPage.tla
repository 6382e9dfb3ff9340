-------------------------------- MODULE LogPage --------------------------------
(***************************************************************************)
(* The log minimap of a page (useServiceLogs, openReconnectingWebSocket)   *)
(* at the other end of the log stream of LogFeed.  The stream is reopened  *)
(* some time after a loss; what arrives is appended to the rows React      *)
(* rendered last, or put aside while the pointer holds the rows still.     *)
(* React renders, and runs the effects of a render, some time after the    *)
(* events that ask for them.                                               *)
(***************************************************************************)
EXTENDS LogFeed

VARIABLES
  conn,      \* the client of the feed that the page's socket is, or None
  taken,     \* number of conn's frames the page has handled
  timer,     \* is a reconnect timer pending?
  ended,     \* isClosed
  shown,     \* entries as rendered, which is entriesReference.current
  set,       \* the entries given to setEntries since that render, or None
  pending,   \* pendingEntriesReference.current, or None
  hovered,   \* is the pointer over the strip? (state of App)
  paused,    \* isPausedReference.current, the pause as rendered
  effect,    \* is the effect of a changed pause still to run?
  hurried,   \* did a line come before React had caught up?
  expected   \* what the page has been told, as a reference

ASSUME PageAssumption == None \notin Clients /\ None \notin Seq(Nat)

socket == <<conn, taken, timer, ended>>
react == <<shown, set, pending, hovered, paused, effect>>
observer == <<hurried, expected>>
pageVars == <<socket, react, observer>>
allVars == <<vars, pageVars>>

Opened(c) == page[c] # "new"

PageInit ==
  /\ Init
  /\ conn = None /\ taken = 0
  /\ timer = TRUE   \* stands for the first connect(), which has no delay
  /\ ended = FALSE
  /\ shown = <<>> /\ set = None /\ pending = None
  /\ hovered = FALSE /\ paused = FALSE /\ effect = FALSE
  /\ hurried = FALSE /\ expected = <<>>

-----------------------------------------------------------------------------
(* The stream.                                                             *)

\* connect(), now or when the timer fires; the client is one of the feed's.
Connect(c) ==
  /\ timer /\ ~ended /\ page[c] = "new"
  /\ timer' = FALSE
  /\ conn' = c /\ taken' = 0
  /\ UNCHANGED <<vars, ended, react, observer>>

\* The server's handler of the page's connection, and the "open" event.
Accept(c) ==
  /\ c = conn
  /\ Attach(c)
  /\ UNCHANGED <<conn, taken, timer, ended, react, observer>>

\* The "close" event: the connection could not be made, or was lost, with what
\* was still on its way; the next one is made after a delay.  devhost never ends this stream normally.
Disconnect ==
  /\ conn # None
  /\ ~Opened(conn) \/ page[conn] = "closed"
  /\ conn' = None
  /\ timer' = ~ended
  /\ UNCHANGED <<vars, taken, ended, react, observer>>

\* close(), when the page's devtools are unmounted.
Unmount ==
  /\ ~ended
  /\ ended' = TRUE
  /\ timer' = FALSE
  /\ IF conn # None /\ page[conn] = "open" THEN Leave(conn) ELSE UNCHANGED vars
  /\ UNCHANGED <<conn, taken, react, observer>>

\* The connection breaks.
Break == conn # None /\ Leave(conn) /\ UNCHANGED pageVars

-----------------------------------------------------------------------------
(* The rows.                                                               *)

\* applyIncomingEntries.
Apply(entries) ==
  IF paused THEN pending' = entries /\ UNCHANGED set
            ELSE set' = entries /\ UNCHANGED pending

\* Faulty variant: a line is added to the rows shown, also while others wait.
GrownFromShown(line) == Append(shown, line)

\* The rows a line is added to: those put aside, or the ones last rendered.
Grown(line) == Append(IF pending # None THEN pending ELSE shown, line)

\* handleMessage: a snapshot replaces the rows, a line is added to them.
Handle(frame) ==
  /\ Apply(Limited(IF frame.type = "snapshot" THEN frame.entries
                                              ELSE Grown(frame.entries[1])))
  /\ expected' = Limited(IF frame.type = "snapshot" THEN frame.entries
                                                    ELSE expected \o frame.entries)
  /\ hurried' = IF frame.type = "snapshot" THEN pending # None /\ ~paused
                                           ELSE hurried \/ set # None \/ (effect /\ ~paused)

\* The next message of the socket; one that comes after close() is ignored.
Receive ==
  /\ conn # None /\ taken < Len(frames[conn])
  /\ taken' = taken + 1
  /\ IF ended THEN UNCHANGED <<react, observer>>
     ELSE Handle(frames[conn][taken + 1]) /\ UNCHANGED <<shown, hovered, paused, effect>>
  /\ UNCHANGED <<vars, conn, timer, ended>>

\* The pointer enters the strip, which is there only with rows, or leaves it.
Hover ==
  /\ shown # <<>>
  /\ hovered' = ~hovered
  /\ UNCHANGED <<vars, socket, shown, set, pending, paused, effect, observer>>

\* The effect of a changed pause: what was put aside is shown when it is over.
ShowPending ==
  /\ effect
  /\ effect' = FALSE
  /\ IF paused \/ pending = None THEN UNCHANGED <<set, pending>>
     ELSE set' = pending /\ pending' = None
  /\ UNCHANGED <<vars, socket, shown, hovered, paused, observer>>

\* React renders what it was given; the effects of the last render have run.
Render ==
  /\ ~effect
  /\ set # None \/ hovered # paused
  /\ shown' = IF set # None THEN set ELSE shown
  /\ set' = None
  /\ paused' = hovered
  /\ effect' = (hovered # paused)
  /\ UNCHANGED <<vars, socket, pending, hovered, observer>>

-----------------------------------------------------------------------------
Server ==
  /\ \/ Stop
     \/ \E w \in Writers : Check(w) \/ Publish(w) \/ Published(w)
     \/ \E w \in Writers, c \in Clients : Write(w, c)
     \/ \E c \in Clients : SendSnapshot(c) \/ Close(c)
  /\ UNCHANGED pageVars

PageNext ==
  \/ Server
  \/ \E c \in Clients : Connect(c) \/ Accept(c)
  \/ Disconnect \/ Unmount \/ Break
  \/ Receive \/ Hover \/ ShowPending \/ Render

PageSpec == PageInit /\ [][PageNext]_allVars

-----------------------------------------------------------------------------
(* Properties.                                                             *)

Latest == IF set # None THEN set ELSE shown

\* As long as React catches up between lines, the rows hold, once it has, the
\* snapshot and every line after it, in the order they came, the oldest dropped
\* at the limit.  A later snapshot makes up for what was lost.
KeepsWhatCame ==
  (~ended /\ ~hurried /\ ~effect) =>
     IF pending # None THEN paused /\ pending = expected ELSE Latest = expected

(* Stated in the documentation, and not what the code does: see README.md.  *)

\* "The log minimap shows output from every service as it arrives."
ShowsEveryLine ==
  (~ended /\ set = None /\ ~effect /\ ~paused /\ ~hovered /\ pending = None) => shown = expected
=============================================================================
