------------------------------ MODULE ChatView ------------------------------
(* What the chat panel makes of one conversation: the frames of the agent     *)
(* (Codex or Claude Code), replayed in the order devhost recorded them, are   *)
(* folded into messages (projectCodexEvents, projectClaudeEvents), into how   *)
(* far each message came (readChatDeliveries, readSendState) and into whether *)
(* a reply is still awaited (useAgentChat).  The agent and devhost are the    *)
(* environment: an agent takes a message when it comes to it, in a turn of    *)
(* its own or in the one that runs, and an interrupt ends the turn.           *)
EXTENDS Naturals, Sequences

CONSTANTS Commands, MaxTurns, MaxItems, MaxBreaks, MaxFrames, Nothing

ASSUME ChatViewAssumption ==
  /\ Nothing \notin Commands \cup {"queued", "started", "completed", "cancelled", "failed"}
  /\ MaxTurns \in Nat /\ MaxItems \in Nat /\ MaxBreaks \in Nat /\ MaxFrames \in Nat

VARIABLES
  harness,
  native, retried,                       \* what the agent made of each message, and history
  turn, turns, items, saying, status,    \* the agent's turn and the session's status
  record,                                \* what devhost recorded of the conversation, folded, and the status it reported
  frames,                                \* what devhost sent, on its way to the page
  view,        \* the events the page has, folded, and the session's status as it knows it
  sent, way,   \* the page's record of each send (IChatSendRecord), and the message's way to devhost
  boundary, previous,                    \* replyBoundary, and the one a failed send puts back
  tracked, breaks

agent == <<native, retried, turn, turns, items, saying, status>>
stream == <<record, frames>>
panel == <<boundary, previous, tracked>>
viewVars == <<harness, agent, stream, view, sent, way, panel, breaks>>

Codex == harness = "codex"
NoBoundary == [isPending |-> FALSE, hasStarted |-> FALSE, before |-> {}]

ViewInit ==
  /\ harness \in {"codex", "claude-code"}
  /\ native = [c \in Commands |-> "none"]
  /\ retried = {} /\ turn = 0 /\ turns = 0 /\ items = 0 /\ saying = FALSE /\ status = "idle" /\ frames = <<>>
  /\ view = [status |-> "idle", messages |-> {}, interrupts |-> 0,
             states |-> [c \in Commands |-> Nothing]]
  /\ record = view
  /\ sent = [c \in Commands |-> [state |-> "idle", after |-> 0]]
  /\ way = [c \in Commands |-> "none"]
  /\ boundary = NoBoundary /\ previous = NoBoundary /\ tracked = Nothing /\ breaks = 0

-----------------------------------------------------------------------------
(* The folds: one event changes the messages and the deliveries.             *)

Order(state) == CASE state = "queued" -> 1 [] state = "started" -> 2 [] state = "completed" -> 3 [] OTHER -> 0
Advance(states, c, next) ==
  IF states[c] = Nothing \/ Order(states[c]) < Order(next) THEN [states EXCEPT ![c] = next] ELSE states
FinishStarted(states) ==
  [c \in Commands |-> IF states[c] = "started" THEN "completed" ELSE states[c]]
(* A message whose turn is stopped did run; one that waited did not.  The plausible mistake forgets it. *)
CancelledAlways(states, c) == [states EXCEPT ![c] = "cancelled"]
Cancelled(states, c) == [states EXCEPT ![c] = IF states[c] = "started" THEN "completed" ELSE "cancelled"]

States(states, e) ==
  CASE e.kind \in {"queued", "started", "completed"} -> Advance(states, e.of, e.kind)
    [] e.kind = "cancelled" -> Cancelled(states, e.of)
    [] e.kind = "refused"   -> [states EXCEPT ![e.of] = "failed"]
    [] e.kind = "ended"     -> FinishStarted(states)
    [] OTHER                -> states

(* Codex ends the messages of the turn that ended, Claude Code every message still running. *)
Ending(how) == CASE how = "completed" -> "complete" [] how = "interrupted" /\ Codex -> "cancelled" [] OTHER -> "error"
Ended(m, e) ==
  IF (IF Codex THEN m.turn = e.turn ELSE m.status = "running")
    THEN [m EXCEPT !.status = Ending(e.how)] ELSE m

Messages(messages, e) ==
  CASE e.kind = "item"     -> messages \cup {[id |-> e.id, turn |-> e.turn, isText |-> e.isText, status |-> "running"]}
    [] e.kind = "itemDone" -> {IF Codex /\ m.id = e.id THEN [m EXCEPT !.status = "complete"] ELSE m : m \in messages}
    [] e.kind = "ended"    -> {Ended(m, e) : m \in messages}
    [] OTHER               -> messages

Folded(v, e) ==
  [v EXCEPT !.messages = Messages(@, e), !.states = States(@, e),
            !.interrupts = IF Codex /\ e.kind = "ended" /\ e.how = "interrupted" THEN @ + 1 ELSE @]

(* readSendState: the agent's own word is newer than the socket's. *)
SendState(v, c) ==
  CASE v.states[c] # Nothing -> v.states[c]
    [] v.states[c] = Nothing /\ sent[c].state \in {"queued", "unconfirmed"} /\ v.interrupts > sent[c].after -> "cancelled"
    [] OTHER -> sent[c].state

(* isChatRequestSettled, of the conversation the page has open.  The plausible mistake: the turn's end decides. *)
SettledWhenIdle(v, c) == v.status = "idle"
Settled(v, c) ==
  IF v.states[c] = Nothing THEN v.status = "idle" ELSE v.states[c] \in {"completed", "cancelled", "failed"}

-----------------------------------------------------------------------------
(* The agent, and devhost's record of its frames. *)

Blank == [kind |-> "none", of |-> Nothing, turn |-> 0, id |-> 0, isText |-> FALSE, how |-> "none"]
Of(kind, c) == [Blank EXCEPT !.kind = kind, !.of = c]
Event(e) == <<[type |-> "event", event |-> e]>>
State(s) == <<[type |-> "state", status |-> s]>>
Result(c, state) == IF way[c] = "here" THEN <<[type |-> "result", of |-> c, state |-> state]>> ELSE <<>>

(* What the page makes of a frame of the conversation. *)
Viewed(v, f) == IF f.type = "event" THEN Folded(v, f.event) ELSE [v EXCEPT !.status = f.status]
(* devhost records a frame of the agent, if any, and sends it, then the status and the answer. *)
Broadcast(event, state, result) ==
  LET told == IF event = <<>> THEN record ELSE Viewed(record, event[1]) IN
  /\ record' = IF state = <<>> THEN told ELSE Viewed(told, state[1])
  /\ frames' = frames \o event \o state \o result

(* devhost takes the message: the session counts as running before the agent has answered. *)
Dispatch(c) ==
  /\ way[c] # "none" /\ native[c] = "none" /\ \A o \in Commands : native[o] \notin {"first", "next"}
  /\ native' = [native EXCEPT ![c] = IF status = "idle" THEN "first" ELSE "next"] /\ status' = "running"
  /\ Broadcast(<<>>, State("running"), <<>>)
  /\ UNCHANGED <<harness, retried, turn, turns, items, saying, view, sent, way, panel, breaks>>
(* The agent has the message.  A steer that its turn's end overtook starts a turn of its own. *)
Acknowledge(c) ==
  /\ native[c] \in {"first", "next"}
  /\ native' = [native EXCEPT ![c] = "queued"]
  /\ retried' = IF Codex /\ status = "idle" THEN retried \cup {c} ELSE retried
  /\ way' = [way EXCEPT ![c] = "none"]
  /\ Broadcast(IF Codex THEN <<>> ELSE Event(Of("queued", c)), <<>>, Result(c, "queued"))
  /\ UNCHANGED <<harness, turn, turns, items, saying, status, view, sent, panel, breaks>>
Refuse(c) ==
  LET idle == native[c] = "first" IN
  /\ native[c] \in {"first", "next"} /\ native' = [native EXCEPT ![c] = "dropped"]
  /\ way' = [way EXCEPT ![c] = "none"] /\ status' = IF idle THEN "idle" ELSE status
  /\ Broadcast(<<>>, IF idle THEN State("idle") ELSE <<>>, Result(c, "failed"))
  /\ UNCHANGED <<harness, retried, turn, turns, items, saying, view, sent, panel, breaks>>

(* The agent comes to the message, in the turn that runs or in a new one. *)
Pick(c) ==
  /\ native[c] = "queued" /\ (turn # 0 \/ turns < MaxTurns)
  /\ native' = [native EXCEPT ![c] = "running"]
  /\ turns' = IF turn = 0 THEN turns + 1 ELSE turns
  /\ turn' = IF turn = 0 THEN turns + 1 ELSE turn
  /\ status' = "running" /\ Broadcast(Event(Of("started", c)), State("running"), <<>>)
  /\ UNCHANGED <<harness, retried, items, saying, view, sent, way, panel, breaks>>
(* Claude Code drops a queued message with a frame of its own. *)
Discard(c) ==
  /\ ~Codex /\ native[c] = "queued" /\ native' = [native EXCEPT ![c] = "dropped"]
  /\ \E kind \in {"cancelled", "refused"} : Broadcast(Event(Of(kind, c)), <<>>, <<>>)
  /\ UNCHANGED <<harness, retried, turn, turns, items, saying, status, view, sent, way, panel, breaks>>
Say(isText) ==
  /\ turn # 0 /\ items < MaxItems /\ items' = items + 1 /\ saying' = TRUE
  /\ Broadcast(Event([Blank EXCEPT !.kind = "item", !.turn = turn, !.id = items + 1, !.isText = isText]), <<>>, <<>>)
  /\ UNCHANGED <<harness, native, retried, turn, turns, status, view, sent, way, panel, breaks>>
Said ==
  /\ saying /\ saying' = FALSE
  /\ Broadcast(Event([Blank EXCEPT !.kind = "itemDone", !.turn = turn, !.id = items]), <<>>, <<>>)
  /\ UNCHANGED <<harness, native, retried, turn, turns, items, status, view, sent, way, panel, breaks>>
(* Claude Code is done with a message of the turn, which did run: completed, or cancelled as the turn is stopped. *)
Stop(c) ==
  /\ ~Codex /\ native[c] = "running" /\ native' = [native EXCEPT ![c] = "ran"]
  /\ \E kind \in {"completed", "cancelled"} : Broadcast(Event(Of(kind, c)), <<>>, <<>>)
  /\ UNCHANGED <<harness, retried, turn, turns, items, saying, status, view, sent, way, panel, breaks>>
(* Codex ends a turn with nothing waiting, or drops what waits; with Claude Code it waits for the next turn. *)
End(how) ==
  /\ turn # 0 /\ (Codex /\ how = "completed" => \A c \in Commands : native[c] # "queued")
  /\ native' = [c \in Commands |-> IF native[c] = "running" THEN "ran"
                                   ELSE IF Codex /\ native[c] = "queued" THEN "dropped" ELSE native[c]]
  /\ turn' = 0 /\ saying' = FALSE /\ status' = "idle"
  /\ Broadcast(Event([Blank EXCEPT !.kind = "ended", !.turn = turn, !.how = how]), State("idle"), <<>>)
  /\ UNCHANGED <<harness, retried, turns, items, view, sent, way, panel, breaks>>

-----------------------------------------------------------------------------
(* The panel. *)

isPreparing == \E c \in Commands : sent[c].state = "sending"
(* useAgentChat's effect, after each change of what the page knows: `v` is the view, `busy` isPreparing. *)
HasReply(b, v) == \E m \in v.messages \ b.before : m.isText /\ \A o \in b.before : o.id # m.id
(* The plausible mistake: only a reply ends the waiting. *)
AwaitedReply(b, v, busy) ==
  CASE b.isPending /\ v.status = "running" /\ ~b.hasStarted -> [b EXCEPT !.hasStarted = TRUE]
    [] b.isPending /\ v.status # "running" /\ ~busy /\ HasReply(b, v) -> [b EXCEPT !.isPending = FALSE]
    [] OTHER -> b
Awaited(b, v, busy) ==
  CASE b.isPending /\ v.status = "running" /\ ~b.hasStarted -> [b EXCEPT !.hasStarted = TRUE]
    [] b.isPending /\ v.status # "running" /\ (b.hasStarted \/ (~busy /\ HasReply(b, v))) -> [b EXCEPT !.isPending = FALSE]
    [] OTHER -> b

(* onNew and the client's send over an open connection. *)
Send(c) ==
  /\ sent[c].state = "idle" /\ ~isPreparing
  /\ sent' = [sent EXCEPT ![c] = [state |-> "sending", after |-> view.interrupts]]
  /\ way' = [way EXCEPT ![c] = "here"] /\ previous' = boundary
  /\ boundary' = [isPending |-> TRUE, hasStarted |-> view.status = "running", before |-> view.messages]
  /\ UNCHANGED <<harness, agent, stream, view, tracked, breaks>>

(* What settles a send: a failure puts the previous boundary back, and a requested message is tracked from here on. *)
Settle(c, state) ==
  /\ sent' = [sent EXCEPT ![c].state = state]
  /\ boundary' = Awaited(IF state = "failed" THEN previous ELSE boundary, view, FALSE)
  /\ tracked' = IF state = "queued" THEN c ELSE tracked

Receive ==
  /\ frames # <<>> /\ frames' = Tail(frames)
  /\ LET f == Head(frames)
         v == Viewed(view, f) IN
     IF f.type = "result"
       THEN IF sent[f.of].state = "sending" THEN Settle(f.of, f.state) /\ UNCHANGED <<view>>
            ELSE UNCHANGED <<view, sent, boundary, tracked>>
       ELSE view' = v /\ boundary' = Awaited(boundary, v, isPreparing) /\ UNCHANGED <<sent, tracked>>
  /\ UNCHANGED <<harness, agent, record, way, previous, breaks>>

(* The connection is lost and made again: the snapshot brings every event at once, no answer of the old one comes, *)
(* and what was sent over it may or may not have arrived.                                                          *)
Reconnect ==
  /\ breaks < MaxBreaks /\ breaks' = breaks + 1 /\ frames' = <<>>
  /\ view' = record
  /\ sent' = [c \in Commands |-> IF sent[c].state = "sending" THEN [sent[c] EXCEPT !.state = "unconfirmed"] ELSE sent[c]]
  /\ \E lost \in SUBSET {c \in Commands : way[c] = "here" /\ native[c] = "none"} :
       way' = [c \in Commands |-> IF c \in lost THEN "none" ELSE IF way[c] = "here" THEN "adrift" ELSE way[c]]
  /\ tracked' = IF isPreparing THEN CHOOSE c \in Commands : sent[c].state = "sending" ELSE tracked
  /\ boundary' = Awaited(boundary, view', FALSE)
  /\ UNCHANGED <<harness, agent, record, previous>>

Interrupt ==
  /\ view.status = "running" /\ boundary' = [boundary EXCEPT !.isPending = FALSE] /\ boundary.isPending
  /\ UNCHANGED <<harness, agent, stream, view, sent, way, previous, tracked, breaks>>

ViewNext ==
  \/ Receive \/ Reconnect \/ Interrupt \/ \E c \in Commands : Send(c)
  \/ /\ Len(frames) < MaxFrames
     /\ \/ Said \/ \E isText \in BOOLEAN : Say(isText)
        \/ \E how \in {"completed", "interrupted", "failed"} : End(how)
        \/ \E c \in Commands : Dispatch(c) \/ Acknowledge(c) \/ Refuse(c) \/ Pick(c) \/ Discard(c) \/ Stop(c)
ViewSpec == ViewInit /\ [][ViewNext]_viewVars

Deliveries == {"queued", "started", "completed", "cancelled", "failed"}
AllMessages == [id : Nat, turn : Nat, isText : BOOLEAN, status : {"running", "complete", "cancelled", "error"}]
Views == [status : {"idle", "running"}, messages : SUBSET AllMessages, interrupts : Nat,
          states : [Commands -> Deliveries \cup {Nothing}]]
Facts == [kind : {"queued", "started", "completed", "cancelled", "refused", "ended", "item", "itemDone"}, of : Commands \cup {Nothing},
          turn : Nat, id : Nat, isText : BOOLEAN, how : {"none", "completed", "interrupted", "failed"}]
EventFrames == [type : {"event"}, event : Facts]
StateFrames == [type : {"state"}, status : {"idle", "running"}]
ResultFrames == [type : {"result"}, of : Commands, state : {"queued", "failed"}]
Frames == EventFrames \cup StateFrames \cup ResultFrames
Boundaries == [isPending : BOOLEAN, hasStarted : BOOLEAN, before : SUBSET AllMessages]

(* The types of the state. *)
ViewTypeOK ==
  /\ harness \in {"codex", "claude-code"}
  /\ native \in [Commands -> {"none", "first", "next", "queued", "running", "ran", "dropped"}]
  /\ retried \subseteq Commands /\ saying \in BOOLEAN /\ status \in {"idle", "running"}
  /\ turn \in 0..turns /\ turns \in 0..MaxTurns /\ items \in 0..MaxItems
  /\ frames \in Seq(Frames) /\ record \in Views /\ view \in Views
  /\ sent \in [Commands -> [state : {"idle", "sending", "queued", "failed", "unconfirmed"}, after : Nat]]
  /\ way \in [Commands -> {"none", "here", "adrift"}]
  /\ boundary \in Boundaries /\ previous \in Boundaries
  /\ tracked \in Commands \cup {Nothing} /\ breaks \in 0..MaxBreaks

-----------------------------------------------------------------------------
(* A message that is shown as cancelled or failed, and could be written again, *)
(* was not taken up by the agent: an interrupt cancels what waited, and the    *)
(* message whose turn it ended did run (readChatDeliveries, readSendState).    *)
CancelledDidNotRun ==
  \A c \in Commands :
    frames = <<>> /\ SendState(view, c) \in {"cancelled", "failed"} => native[c] \notin {"running", "ran"}

(* The request the page tracks, once devhost has answered that the agent has   *)
(* it, counts as settled only when the agent is done with it                   *)
(* (isChatRequestSettled).  A steer that its turn's end overtook is exempt: it *)
(* counts as settled between its answer and its own turn.                      *)
TrackedIsOver ==
  tracked # Nothing /\ sent[tracked].state = "queued" /\ Settled(view, tracked)
  => native[tracked] \in {"ran", "dropped"} \/ tracked \in retried

(* When the agent is idle and nothing that was sent is open, the panel awaits  *)
(* no reply, and so offers a new conversation again (useAgentChat).  Exempt is *)
(* what a lost connection can leave: a boundary since which the page has not   *)
(* seen the agent at work, nor any text.  The snapshot hid the turn, a failure *)
(* put the boundary back, or the message was never taken.                      *)
BusyEnds ==
  frames = <<>> /\ status = "idle" /\ (\A c \in Commands : way[c] # "here")
  => ~boundary.isPending \/ (breaks > 0 /\ ~boundary.hasStarted /\ ~HasReply(boundary, view))
=============================================================================
