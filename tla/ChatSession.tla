------------------------------ MODULE ChatSession ------------------------------
(***************************************************************************)
(* One chat session of the control server (devtools/chat_sessions.go,      *)
(* chat_send.go, chat_process.go): a Codex process whose frames change the *)
(* status that pages see, and the operations of the pages, which send,     *)
(* answer and close meanwhile.  HasActiveChatSessions keeps the stack      *)
(* running while the status is an active one.                              *)
(*                                                                         *)
(* Codex itself is external: it takes messages into turns, asks, finishes  *)
(* turns, rejects calls and exits whenever it likes.                       *)
(***************************************************************************)
EXTENDS Naturals, Sequences

CONSTANTS
  Asks,      \* native requests: approvals and questions
  MaxTurns,  \* turns in a behaviour
  MaxSends,  \* messages the pages send
  Strict,    \* may Codex reject a turn/start because a turn runs?
  None

ASSUME ChatSessionAssumption ==
  /\ MaxTurns \in Nat /\ MaxSends \in Nat /\ Strict \in BOOLEAN
  /\ None \notin Asks \union Nat

Turns == 1..MaxTurns
Statuses == {"idle", "running", "requires_action", "error", "closed"}
ActiveStatuses == {"running", "requires_action"}

VARIABLES
  status,     \* info.Status, from the moment the session is registered
  active,     \* active: a turn is thought to be under way
  turnID,     \* turnID
  pending,    \* pending: the asks nobody has answered
  retained,   \* is the replay journal intact (events.err = nil)?
  send,       \* the step of the message that holds s.operation
  wasActive,  \* its local of that name
  steers,     \* is its call a turn/steer rather than a turn/start?
  sends,      \* messages sent
  calls,      \* nextID: calls made; a message waits for the reply to the last
  closing,    \* has closeWith begun?
  stdin,      \* is the process's input open?
  process,    \* "up", "exited" with output left to read, or "done"
  monitored,  \* monitor has seen process.done
  \* The Codex process:
  inbox,      \* the calls it has not answered
  wire,       \* the frames it has written and devhost has not read
  turn,       \* its running turn
  turns,      \* turns it has started
  asked       \* the asks it has made

session == <<status, active, turnID, pending, retained>>
sender == <<send, wasActive, steers, sends, calls>>
codex == <<inbox, wire, turn, turns, asked>>
lifetime == <<closing, stdin, process, monitored>>
vars == <<session, sender, lifetime, codex>>

Frames ==
  [kind : {"accepted", "rejected"}, call : Nat]
    \union [kind : {"started", "completed", "failed"}, turn : Turns]
    \union [kind : {"asks", "resolved"}, ask : Asks]

TypeOK ==
  /\ status \in Statuses
  /\ active \in BOOLEAN
  /\ turnID \in Turns \union {None}
  /\ pending \subseteq Asks
  /\ retained \in BOOLEAN
  /\ send \in {"none", "checked", "call", "waiting", "accepted", "rejected", "failed"}
  /\ wasActive \in BOOLEAN /\ steers \in BOOLEAN
  /\ sends \in 0..MaxSends
  /\ closing \in BOOLEAN /\ stdin \in BOOLEAN
  /\ process \in {"up", "exited", "done"}
  /\ monitored \in BOOLEAN
  /\ calls \in Nat
  /\ inbox \in Seq([call : Nat, steers : BOOLEAN])
  /\ wire \in Seq(Frames)
  /\ turn \in Turns \union {None}
  /\ turns \in 0..MaxTurns
  /\ asked \subseteq Asks

Init ==
  /\ status = "idle" /\ active = FALSE /\ turnID = None
  /\ pending = {} /\ retained = TRUE
  /\ send = "none" /\ wasActive = FALSE /\ steers = FALSE /\ sends = 0 /\ calls = 0
  /\ closing = FALSE /\ stdin = TRUE /\ process = "up" /\ monitored = FALSE
  /\ inbox = <<>> /\ wire = <<>> /\ turn = None /\ turns = 0 /\ asked = {}

HasActiveChatSession == status \in ActiveStatuses

-----------------------------------------------------------------------------
(* send: the next message takes s.operation and looks at a snapshot *)
Check ==
  /\ send = "none" /\ sends < MaxSends
  /\ status # "closed"
  /\ send' = "checked" /\ sends' = sends + 1
  /\ UNCHANGED <<session, wasActive, steers, calls, lifetime, codex>>

\* Faulty variant: the session is marked as running whatever it waits for.
DispatchOverAsks ==
  /\ send = "checked"
  /\ wasActive' = active
  /\ steers' = (turnID # None)
  /\ status' = "running" /\ active' = TRUE
  /\ send' = "call"
  /\ UNCHANGED <<turnID, pending, retained, sends, calls, lifetime, codex>>

\* The session is marked before Codex hears of the message.
Dispatch ==
  /\ send = "checked"
  /\ wasActive' = active
  /\ steers' = (turnID # None)
  /\ status' = IF pending = {} THEN "running" ELSE status
  /\ active' = TRUE
  /\ send' = "call"
  /\ UNCHANGED <<turnID, pending, retained, sends, calls, lifetime, codex>>

\* exchange writes the call; a closed input or a dead process fails the write.
Call ==
  /\ send = "call"
  /\ calls' = calls + 1
  /\ \/ /\ stdin /\ process = "up"
        /\ inbox' = Append(inbox, [call |-> calls', steers |-> steers])
        /\ send' = "waiting"
     \/ /\ ~stdin \/ process # "up"
        /\ send' = "failed"
        /\ UNCHANGED inbox
  /\ UNCHANGED <<session, wasActive, steers, sends, lifetime,
                 wire, turn, turns, asked>>

\* Thirty seconds pass, and the message is reported as unconfirmed; or the
\* process ends first.
StopWaiting ==
  /\ send = "waiting"
  /\ \/ send' = "accepted"
     \/ process = "done" /\ send' = "failed"
  /\ UNCHANGED <<session, wasActive, steers, sends, calls, lifetime, codex>>

\* A steer that lost against the end of its turn is sent again as a new turn.
Retry ==
  /\ send = "rejected"
  /\ IF steers /\ ~active /\ turnID = None /\ status \in {"idle", "error"}
       THEN steers' = FALSE /\ send' = "call"
       ELSE send' = "failed" /\ UNCHANGED steers
  /\ UNCHANGED <<session, wasActive, sends, calls, lifetime, codex>>

\* Faulty variant: any failed message undoes the marking.
FailAlways ==
  /\ send = "failed"
  /\ send' = "none"
  /\ status' = IF status = "running" THEN "idle" ELSE status
  /\ active' = FALSE
  /\ UNCHANGED <<turnID, pending, retained, wasActive, steers, sends, calls, lifetime, codex>>

\* The marking is undone, unless a turn was under way before.
Fail ==
  /\ send = "failed"
  /\ send' = "none"
  /\ IF wasActive
       THEN UNCHANGED <<status, active>>
       ELSE /\ status' = IF status = "running" THEN "idle" ELSE status
            /\ active' = FALSE
  /\ UNCHANGED <<turnID, pending, retained, wasActive, steers, sends, calls, lifetime, codex>>

Answered ==
  /\ send = "accepted"
  /\ send' = "none"
  /\ UNCHANGED <<session, wasActive, steers, sends, calls, lifetime, codex>>

-----------------------------------------------------------------------------
(* execute "respond", and closing *)

\* Faulty variant: the last answer clears a failure.
RespondClears(a) ==
  /\ a \in pending
  /\ pending' = pending \ {a}
  /\ status' = IF pending' = {} THEN IF active THEN "running" ELSE "idle" ELSE status
  /\ UNCHANGED <<active, turnID, retained, sender, lifetime, codex>>

Respond(a) ==
  /\ a \in pending
  /\ pending' = pending \ {a}
  /\ status' = IF pending' = {} /\ status # "error"
                 THEN IF active THEN "running" ELSE "idle"
                 ELSE status
  /\ UNCHANGED <<active, turnID, retained, sender, lifetime, codex>>

\* closeWith marks the session under its lock, and does not take s.operation.
Close ==
  /\ status # "closed"
  /\ status' = "closed"
  /\ pending' = {}
  /\ closing' = TRUE
  /\ UNCHANGED <<active, turnID, retained, sender, stdin, process, monitored, codex>>

\* Then it cancels the process and closes its input, also when a message has
\* opened the session again.
CloseProcess ==
  /\ closing /\ stdin
  /\ stdin' = FALSE
  /\ UNCHANGED <<session, sender, closing, process, monitored, codex>>

-----------------------------------------------------------------------------
(* receive: what a frame of Codex does to the session *)

Resolved(f) == IF f.kind = "resolved" THEN {f.ask} ELSE {}

Asked(f) == IF f.kind = "asks" THEN {f.ask} ELSE {}

Ends(f) == f.kind \in {"completed", "failed"}

\* A failure outlasts the requests of its turn; anything else waits for them.
ReceivedStatus(f, open) ==
  LET reported == CASE f.kind = "started" -> "running"
                    [] Ends(f) -> "idle"
                    [] OTHER -> status
  IN IF f.kind = "failed" THEN "error"
     ELSE IF open # {} /\ reported # "error" THEN "requires_action"
     ELSE reported

Record(f) ==
  LET open == (pending \union Asked(f)) \ Resolved(f) IN
  /\ pending' = open
  /\ status' = ReceivedStatus(f, open)
  /\ turnID' = IF f.kind = "started" THEN f.turn ELSE IF Ends(f) THEN None ELSE turnID
  /\ active' = IF f.kind = "started" THEN TRUE ELSE IF Ends(f) THEN FALSE ELSE active

\* resolve hands a reply to the call that waits for it.
Settle(f) ==
  send' = IF send = "waiting" /\ f.kind \in {"accepted", "rejected"} /\ f.call = calls
            THEN f.kind
            ELSE send

\* The reader takes the next frame.  A session that is closed, or that can no
\* longer retain its frames, is not changed by it.
Receive ==
  /\ wire # <<>>
  /\ wire' = Tail(wire)
  /\ IF retained /\ status # "closed"
       THEN Record(Head(wire))
       ELSE UNCHANGED <<pending, status, turnID, active>>
  /\ Settle(Head(wire))
  /\ UNCHANGED <<retained, wasActive, steers, sends, calls, lifetime,
                 inbox, turn, turns, asked>>

\* The frame cannot be added to the journal, which ends the process.
ReceiveFails ==
  /\ wire # <<>> /\ retained
  /\ wire' = Tail(wire)
  /\ retained' = FALSE
  /\ status' = IF status = "closed" THEN status ELSE "error"
  /\ Settle(Head(wire))
  /\ UNCHANGED <<active, turnID, pending, wasActive, steers, sends, calls, lifetime,
                 inbox, turn, turns, asked>>

\* Its output has ended: the process group is killed and process.done closes.
Reap ==
  /\ process = "exited" /\ wire = <<>>
  /\ process' = "done" /\ stdin' = FALSE
  /\ UNCHANGED <<session, sender, closing, monitored, codex>>

\* monitor: an end that nobody asked for is an error.
Monitor ==
  /\ process = "done" /\ ~monitored
  /\ monitored' = TRUE
  /\ status' = IF status = "closed" THEN status ELSE "error"
  /\ UNCHANGED <<active, turnID, pending, retained, sender, closing, stdin, process, codex>>

-----------------------------------------------------------------------------
(* Codex *)
Writes(frames) == wire' = wire \o frames

Reply(kind) == [kind |-> kind, call |-> Head(inbox).call]

\* A new turn starts, or the message joins the one that runs.
Accept ==
  /\ inbox # <<>>
  /\ \/ /\ ~Head(inbox).steers /\ turn = None /\ turns < MaxTurns
        /\ turns' = turns + 1 /\ turn' = turns'
        /\ Writes(<<Reply("accepted"), [kind |-> "started", turn |-> turns']>>)
     \/ /\ turn # None
        /\ Writes(<<Reply("accepted")>>)
        /\ UNCHANGED <<turn, turns>>
  /\ inbox' = Tail(inbox)
  /\ UNCHANGED <<session, sender, lifetime, asked>>

Reject ==
  /\ inbox # <<>>
  /\ Head(inbox).steers \/ turn = None \/ Strict
  /\ inbox' = Tail(inbox)
  /\ Writes(<<Reply("rejected")>>)
  /\ UNCHANGED <<session, sender, lifetime, turn, turns, asked>>

EndTurn ==
  /\ process = "up" /\ turn # None
  /\ turn' = None
  /\ \E kind \in {"completed", "failed"} : Writes(<<[kind |-> kind, turn |-> turn]>>)
  /\ UNCHANGED <<session, sender, lifetime, inbox, turns, asked>>

Ask(a) ==
  /\ process = "up" /\ turn # None /\ a \notin asked
  /\ asked' = asked \union {a}
  /\ Writes(<<[kind |-> "asks", ask |-> a]>>)
  /\ UNCHANGED <<session, sender, lifetime, inbox, turn, turns>>

\* Codex withdraws a request, or confirms the answer.
Resolve(a) ==
  /\ process = "up" /\ a \in asked
  /\ wire = <<>>
  /\ Writes(<<[kind |-> "resolved", ask |-> a]>>)
  /\ UNCHANGED <<session, sender, lifetime, inbox, turn, turns, asked>>

\* It crashes, or it is told to stop.
Exit ==
  /\ process = "up"
  /\ process' = "exited" /\ turn' = None /\ inbox' = <<>>
  /\ UNCHANGED <<session, sender, closing, stdin, monitored, wire, turns, asked>>

Devhost ==
  \/ Check \/ Dispatch \/ Call \/ StopWaiting \/ Retry \/ Fail \/ Answered
  \/ Close \/ CloseProcess \/ Receive \/ ReceiveFails \/ Reap \/ Monitor
  \/ \E a \in Asks : Respond(a)

Codex == Accept \/ Reject \/ EndTurn \/ Exit \/ \E a \in Asks : Ask(a) \/ Resolve(a)

Next == Devhost \/ Codex

Spec == Init /\ [][Next]_vars

-----------------------------------------------------------------------------
(* Properties *)

\* While a turn that Codex has reported runs, the session keeps the stack up: no
\* message that fails, no answer and no request makes it look finished.
TurnKeepsStack ==
  /\ turnID # None
  /\ retained /\ stdin /\ process = "up" /\ status # "closed"
  => HasActiveChatSession

\* A request that waits for an answer shows, or a failure does, in every
\* interleaving of requests, answers, messages and ends of turns.
AsksAreShown ==
  /\ pending # {}
  /\ status # "closed"
  => status \in {"requires_action", "error"}

\* A failure stays until the next message or turn: neither the clean-up of the
\* failed turn's requests nor an answer to them erases it.
FailureStays ==
  [][status = "error" /\ status' \notin {"error", "closed"} => active']_vars

(* Read in comments and documentation, and not what the code does: see       *)
(* README.md.                                                               *)

\* A closed session is not opened again (receive's comment).
ClosedStaysClosed == [][status = "closed" => status' = "closed"]_vars

\* The page is told that an answer is awaited only while one is.
WaitsForAnAnswer == status = "requires_action" => pending # {}

\* Once the process is gone and no message is under way, no turn is in progress,
\* so the session does not keep the stack from stopping when it is idle.
DeadIsNotActive == monitored /\ send = "none" => ~HasActiveChatSession
=============================================================================
