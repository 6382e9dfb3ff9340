----------------------------- MODULE ChatClient -----------------------------
(* The chat client of a page (createAgentChatClient.ts) with the buttons that *)
(* call it: it loads the list of conversations and restores the saved one,    *)
(* starts, resumes, joins and closes conversations, keeps one stream attached *)
(* to one of them, and sends messages whose outcome it may never learn.  Every *)
(* await is a step of its own, so anything may happen in between; what runs   *)
(* in the same turn of the event loop after a promise settles is a "settled"  *)
(* promise or a send at "send" or "deliver", and goes before anything else.   *)
EXTENDS Naturals, Sequences

CONSTANTS
  Sessions,     \* conversations of the project, those not begun yet included
  Old,          \* the ones devhost runs when the page is loaded
  HarnessOf,    \* the agent each of them belongs to
  Selected,     \* the agent the settings name
  Codex,        \* the agent whose answer to a message is all that devhost knows of it
  Composed,     \* messages the person sends from the composer
  Requested,    \* messages another part of the page sends (requestedMessage)
  MaxFaults, MaxActs,                    \* bounds
  None

VARIABLES
  status, accepted,                      \* devhost: its sessions, and who took each message
  sessions, harness, session, saved,     \* the client's published state
  isConnecting, isConnected,
  catalog, shouldRestore,                \* refreshCatalog
  task, asker, replaced,                 \* sessionTask, answerDecision
  closing,                               \* closeSession
  stream, settled, frames,              \* the attached stream
  stage, wire, waited,                   \* each message, its way, and history
  acts, faults                           \* what the person did, and what failed, so far

server == <<status, accepted>>
list == <<catalog, shouldRestore>>
ask == <<asker, replaced>>
link == <<session, saved, stream, settled, frames, isConnecting, isConnected, stage, wire>>
vars == <<server, sessions, harness, list, task, ask, closing, link, waited, acts, faults>>

Sends == Composed \cup Requested
(* Who waits for a stream or an answer: a message, or what the client itself is at. *)
Waiters == Sends \cup {None, "task", "user", "restore"}
ASSUME ChatClientAssumption ==
  /\ Old \subseteq Sessions /\ None \notin Sessions \cup {"task", "user", "restore"}
  /\ Sends \cap {None, "task", "user", "restore"} = {}
  /\ MaxActs \in Nat /\ MaxFaults \in Nat
Harnesses == {HarnessOf[s] : s \in Sessions}
(* A conversation whose process has exited stays open, until somebody closes it. *)
Open(s) == status[s] \in {"live", "exited"}
Listing == [s \in Sessions |-> IF Open(s) THEN "live" ELSE IF status[s] = "closed" THEN "closed" ELSE "none"]
Idle == [at |-> "none", resume |-> None, harness |-> None, made |-> None]
NoStream == [phase |-> "none", waiter |-> None]
UnderWay == {"prepare", "list", "ask", "join", "wait", "send", "deliver", "pending"}
isPreparing == \E c \in Sends : stage[c] \in UnderWay
isCatalogLoading == catalog.at # "none"
Quiet == settled = None /\ \A c \in Sends : stage[c] \notin {"send", "deliver"}

Init ==
  /\ status = [s \in Sessions |-> IF s \in Old THEN "live" ELSE "new"]
  /\ accepted = [c \in Sends |-> None]
  /\ sessions = [s \in Sessions |-> "none"]
  /\ harness = Selected /\ session = None /\ saved \in Old \cup {None}
  /\ isConnecting = FALSE /\ isConnected = FALSE
  /\ catalog = [at |-> "asked", list |-> sessions, saved |-> saved]
  /\ shouldRestore = TRUE /\ acts = 0 /\ faults = 0
  /\ task = Idle /\ asker = [who |-> None, choices |-> {}] /\ replaced = FALSE
  /\ closing = [of |-> None, isDone |-> FALSE]
  /\ stream = NoStream /\ settled = None /\ frames = <<>>
  /\ stage = [c \in Sends |-> "idle"] /\ waited = {}
  /\ wire = [c \in Sends |-> [at |-> "none", to |-> None]]

(* abandonPendingSends: the outcome of what was sent is open. *)
AbandonedAsFailed(st) == [c \in Sends |-> IF st[c] = "pending" THEN "failed" ELSE st[c]]
Abandoned(st) == [c \in Sends |-> IF st[c] = "pending" THEN "unconfirmed" ELSE st[c]]
(* What was sent over a connection that is gone may still arrive. *)
Adrift == [c \in Sends |-> IF wire[c].at = "here" THEN [wire[c] EXCEPT !.at = "adrift"] ELSE wire[c]]
(* cancelConnection: whoever waits for the attached stream is told it was replaced. *)
NeverCancelled == None
Cancelled == IF stream.waiter = None THEN None ELSE [who |-> stream.waiter, isKept |-> FALSE]

(* attach: the stream of `s` replaces the one before it; `who` waits for its snapshot. *)
Attach(s, who, st) ==
  /\ session' = s /\ saved' = s
  /\ stream' = [phase |-> "dialing", waiter |-> who]
  /\ settled' = Cancelled /\ frames' = <<>>
  /\ isConnecting' = TRUE /\ isConnected' = FALSE
  /\ stage' = Abandoned(st) /\ wire' = Adrift

-----------------------------------------------------------------------------
(* Opening, joining and closing conversations. *)

(* newSession: one at a time, and whoever asks for another gets the one under way. *)
Begun(resume, h) ==
  IF task.at # "none" THEN task
  ELSE [Idle EXCEPT !.at = IF resume = None THEN "scan" ELSE "post", !.resume = resume, !.harness = h]

StartTask(resume, h) ==
  /\ task' = Begun(resume, h)
  /\ isConnecting' = (isConnecting \/ task.at = "none")
  /\ harness' = IF task.at = "none" THEN h ELSE harness

isBusy == isPreparing \/ isConnecting

(* The button waits for the list; the list's own entry needs an attached conversation to change from. *)
NewConversation ==
  /\ ~isBusy /\ (isCatalogLoading => session # None) /\ StartTask(None, harness)
  /\ UNCHANGED <<server, sessions, list, ask, closing, session, saved, stream, settled, frames, isConnected, stage, wire, waited>>

(* canStartSession: agents devhost did not start are put to the person. *)
Scan ==
  /\ task.at = "scan"
  /\ \/ task' = [task EXCEPT !.at = "post"] /\ UNCHANGED ask
     \/ /\ task' = [task EXCEPT !.at = "ask"]
        /\ asker' = [who |-> "task", choices |-> {}] /\ replaced' = (replaced \/ asker.who # None)
  /\ UNCHANGED <<server, sessions, harness, list, closing, link, waited>>

(* The request starts a process; a resumed conversation replaces the closed one. *)
Fresh(h) == {s \in Sessions : status[s] = "new" /\ HarnessOf[s] = h}
Post ==
  /\ task.at = "post"
  /\ \E s \in Fresh(task.harness) :
       /\ status' = [t \in Sessions |-> IF t = s THEN "live"
                     ELSE IF t = task.resume /\ status[t] = "closed" THEN "gone" ELSE status[t]]
       /\ task' = [task EXCEPT !.at = "posted", !.made = s]
  /\ UNCHANGED <<accepted, sessions, harness, list, ask, closing, link, waited>>
Refuse ==
  /\ task.at = "post" /\ task' = [task EXCEPT !.at = "failing"]
  /\ settled' = [who |-> "task", isKept |-> FALSE]
  /\ UNCHANGED <<server, sessions, harness, list, ask, closing, session, saved, stream, frames, isConnecting, isConnected, stage, wire, waited>>
PostFails == Refuse /\ Fresh(task.harness) # {}
NoneLeft == Refuse /\ Fresh(task.harness) = {}
Posted ==
  /\ task.at = "posted" /\ task' = [task EXCEPT !.at = "attach"]
  /\ sessions' = [s \in Sessions |-> IF s = task.made THEN "live" ELSE IF s = task.resume THEN "none" ELSE sessions[s]]
  /\ Attach(task.made, "task", stage)
  /\ UNCHANGED <<server, harness, list, ask, closing, waited>>

(* resumeSession, of a conversation that runs as far as the client knows. *)
Resume(s, who, st, done) ==
  /\ harness' = HarnessOf[s]
  /\ IF session # s \/ ~isConnected THEN Attach(s, who, st)
     ELSE stage' = done /\ UNCHANGED <<session, saved, stream, settled, frames, isConnecting, isConnected, wire>>
Select(s) ==
  /\ ~isBusy /\ sessions[s] # "none"
  /\ IF sessions[s] = "closed"
       THEN StartTask(s, HarnessOf[s]) /\ UNCHANGED <<session, saved, stream, settled, frames, isConnected, stage, wire>>
       ELSE Resume(s, "user", stage, stage) /\ UNCHANGED task
  /\ UNCHANGED <<server, sessions, list, ask, closing, waited>>
SetHarness(h) ==
  /\ ~isBusy /\ ~isCatalogLoading /\ h # harness /\ harness' = h
  /\ UNCHANGED <<server, sessions, list, task, ask, closing, link, waited>>

(* refreshCatalog, at mount and on the button, and the restoring of the saved conversation. *)
RefreshCatalog ==
  /\ ~isPreparing /\ ~isCatalogLoading
  /\ catalog' = [catalog EXCEPT !.at = "asked"]
  /\ UNCHANGED <<server, sessions, harness, shouldRestore, task, ask, closing, link, waited>>
AnswerCatalog ==
  /\ catalog.at = "asked" /\ catalog' = [catalog EXCEPT !.at = "read", !.list = Listing]
  /\ UNCHANGED <<server, sessions, harness, shouldRestore, task, ask, closing, link, waited>>
MayRestore(s) == s # None /\ catalog.list[s] = "live" /\ session = None /\ ~isConnecting
TakeCatalog ==
  /\ catalog.at = "read" /\ catalog' = [catalog EXCEPT !.at = "none"]
  /\ sessions' = catalog.list /\ shouldRestore' = FALSE
  /\ harness' \in {harness} \cup Harnesses      \* another one, when the selected agent is not available
  /\ IF shouldRestore /\ MayRestore(catalog.saved) THEN Attach(catalog.saved, "restore", stage)
     ELSE /\ saved' = IF shouldRestore /\ session = None /\ ~isConnecting THEN None ELSE saved
          /\ UNCHANGED <<session, stream, settled, frames, isConnecting, isConnected, stage, wire>>
  /\ UNCHANGED <<server, task, ask, closing, waited>>
CatalogFails ==
  /\ catalog.at = "asked" /\ catalog' = [catalog EXCEPT !.at = "none"]
  /\ UNCHANGED <<server, sessions, harness, shouldRestore, task, ask, closing, link, waited>>

(* closeSession: the conversation is read before the request and put away after it. *)
Close ==
  /\ session # None /\ ~isPreparing /\ closing.of = None
  /\ closing' = [of |-> session, isDone |-> FALSE]
  /\ UNCHANGED <<server, sessions, harness, list, task, ask, link, waited>>
(* The stream of a conversation that is closed ends with a normal closure. *)
Told(s, f) == IF session = s /\ stream.phase = "live" THEN Append(frames, f) ELSE frames
EndSession(s) ==
  /\ Open(s) /\ status' = [status EXCEPT ![s] = "closed"]
  /\ frames' = Told(s, [type |-> "end"])
  /\ UNCHANGED <<accepted, session, saved, stream, settled, isConnecting, isConnected, stage, wire, sessions, harness, list, task, ask, waited>>
CloseByOthers(s) == EndSession(s) /\ UNCHANGED closing
(* The agent's process exits: what it is sent from then on it refuses. *)
Exit(s) ==
  /\ status[s] = "live" /\ status' = [status EXCEPT ![s] = "exited"]
  /\ UNCHANGED <<accepted, sessions, harness, list, task, ask, closing, link, waited>>
CloseSession ==
  /\ closing.of # None /\ ~closing.isDone /\ closing' = [closing EXCEPT !.isDone = TRUE]
  /\ \/ EndSession(closing.of)
     \/ /\ ~Open(closing.of)
        /\ UNCHANGED <<server, sessions, harness, list, task, ask, link, waited>>
Closed ==
  /\ closing.of # None /\ closing.isDone /\ closing' = [of |-> None, isDone |-> FALSE]
  /\ session' = None /\ saved' = None /\ stream' = NoStream /\ settled' = Cancelled
  /\ frames' = <<>> /\ isConnecting' = FALSE /\ isConnected' = FALSE
  /\ stage' = Abandoned(stage) /\ wire' = Adrift /\ sessions' = [sessions EXCEPT ![closing.of] = "closed"]
  /\ UNCHANGED <<server, harness, list, task, ask, waited>>
CloseFails ==
  /\ closing.of # None /\ ~closing.isDone /\ closing' = [of |-> None, isDone |-> FALSE]
  /\ UNCHANGED <<server, sessions, harness, list, task, ask, link, waited>>

-----------------------------------------------------------------------------
(* Sending a message. *)
At(c, where) == stage' = [stage EXCEPT ![c] = where]
Staged(c, where) ==
  At(c, where) /\ UNCHANGED <<session, saved, stream, settled, frames, isConnecting, isConnected, wire>>

(* onNew: the page's context is prepared before the client is asked to send. *)
Compose(c) ==
  /\ c \in Composed /\ stage[c] = "idle" /\ ~isPreparing /\ ~isCatalogLoading /\ Staged(c, "prepare")
  /\ UNCHANGED <<server, sessions, harness, list, task, ask, closing, waited>>
Prepared(c) ==
  /\ stage[c] = "prepare" /\ (Staged(c, "send") \/ Staged(c, "failed"))
  /\ UNCHANGED <<server, sessions, harness, list, task, ask, closing, waited>>

(* sendMessage and joinRunningSession: a request goes to the conversation that runs already. *)
Request(c) ==
  /\ c \in Requested /\ stage[c] = "idle" /\ ~isPreparing /\ ~isCatalogLoading /\ ~isConnecting
  /\ Staged(c, "list")
  /\ UNCHANGED <<server, sessions, harness, list, task, ask, closing, waited>>
(* An exited process counts as running again once a message to it has failed. *)
Running == {s \in Sessions : status[s] = "live"}
Exited == {s \in Sessions : status[s] = "exited"}
Listed(c) ==
  /\ stage[c] = "list" /\ sessions' = Listing
  /\ \E idle \in SUBSET Exited :
       LET running == Running \cup idle IN
       \/ running = {} /\ Staged(c, "send") /\ UNCHANGED <<harness, ask>>
       \/ \E s \in running : running = {s} /\ Resume(s, c, [stage EXCEPT ![c] = "join"], [stage EXCEPT ![c] = "send"])
          /\ UNCHANGED ask
       \/ /\ \E s, t \in running : s # t
          /\ asker' = [who |-> c, choices |-> running] /\ replaced' = (replaced \/ asker.who # None)
          /\ Staged(c, "ask") /\ UNCHANGED harness
  /\ UNCHANGED <<server, list, task, closing, waited>>
ListFails(c) ==
  /\ stage[c] = "list" /\ Staged(c, "failed")
  /\ UNCHANGED <<server, sessions, harness, list, task, ask, closing, waited>>

(* decide: the answer goes to whoever asked last. *)
Decide ==
  /\ asker.who # None /\ asker' = [who |-> None, choices |-> {}]
  /\ \/ /\ asker.who = "task" /\ UNCHANGED <<harness, session, saved, stream, frames, isConnecting, isConnected, stage, wire>>
        /\ \/ task' = [task EXCEPT !.at = "post"] /\ UNCHANGED settled
           \/ task' = [task EXCEPT !.at = "failing"] /\ settled' = [who |-> "task", isKept |-> FALSE]
     \/ /\ asker.who \in Sends /\ UNCHANGED task
        /\ \/ Staged(asker.who, "failed") /\ UNCHANGED harness
           \/ \E s \in asker.choices : Resume(s, asker.who, [stage EXCEPT ![asker.who] = "join"], [stage EXCEPT ![asker.who] = "send"])
  /\ UNCHANGED <<server, sessions, list, replaced, closing, waited>>

(* send, up to the task it waits for; `waited` notes that a conversation was being started. *)
WantsNew == session = None \/ HarnessOf[session] # harness
SendAtOnce(c) ==
  /\ stage[c] = "send" /\ settled = None
  /\ waited' = IF task.at # "none" THEN waited \cup {c} ELSE waited
  /\ IF WantsNew THEN StartTask(None, harness) /\ At(c, "wait")
     ELSE At(c, "deliver") /\ UNCHANGED <<task, harness, isConnecting>>
  /\ UNCHANGED <<server, sessions, list, ask, closing, session, saved, stream, settled, frames, isConnected, wire>>
Send(c) ==
  /\ stage[c] = "send" /\ settled = None
  /\ waited' = IF task.at # "none" THEN waited \cup {c} ELSE waited
  /\ IF WantsNew THEN StartTask(None, harness) /\ At(c, "wait")
     ELSE At(c, IF task.at # "none" THEN "wait" ELSE "deliver") /\ UNCHANGED <<task, harness, isConnecting>>
  /\ UNCHANGED <<server, sessions, list, ask, closing, session, saved, stream, settled, frames, isConnected, wire>>
(* The rest of send: the message goes to the conversation that is attached by now. *)
Deliver(c) ==
  /\ stage[c] = "deliver" /\ settled = None
  /\ IF isConnected /\ stream.phase = "live"
       THEN At(c, "pending") /\ wire' = [wire EXCEPT ![c] = [at |-> "here", to |-> session]]
       ELSE At(c, "failed") /\ UNCHANGED wire
  /\ UNCHANGED <<server, sessions, harness, list, task, ask, closing, session, saved, stream, settled, frames, isConnecting, isConnected, waited>>
(* SEND_CONFIRMATION_TIMEOUT_MS *)
TimeOut(c) ==
  /\ stage[c] = "pending" /\ Staged(c, "unconfirmed")
  /\ UNCHANGED <<server, sessions, harness, list, task, ask, closing, waited>>

(* The promise of the attached stream, or of the task, is settled: its waiter goes on. *)
Settle ==
  /\ settled # None /\ settled' = None
  /\ IF settled.who = "task"
       THEN /\ task' = Idle /\ isConnecting' = (isConnecting /\ settled.isKept)
            /\ stage' = [c \in Sends |-> IF stage[c] # "wait" THEN stage[c] ELSE IF settled.isKept THEN "deliver" ELSE "failed"]
       ELSE /\ UNCHANGED <<task, isConnecting>>
            /\ IF settled.who \in Sends THEN At(settled.who, IF settled.isKept THEN "send" ELSE "failed") ELSE UNCHANGED stage
  /\ UNCHANGED <<server, sessions, harness, list, ask, closing, session, saved, stream, frames, isConnected, wire, waited>>

-----------------------------------------------------------------------------
(* The stream and devhost's end of it. *)

(* A connection that devhost refuses, or loses, is dialled again. *)
Dial ==
  /\ stream.phase = "dialing" /\ session # None
  /\ stream' = [stream EXCEPT !.phase = "live"]
  /\ \/ Open(session) /\ frames' = <<[type |-> "snapshot"]>>
     \/ status[session] = "closed" /\ frames' = <<[type |-> "end"]>>
  /\ UNCHANGED <<server, sessions, harness, list, task, ask, closing, session, saved, settled, isConnecting, isConnected, stage, wire, waited>>
Break ==
  /\ stream.phase = "live"
  /\ stream' = [stream EXCEPT !.phase = "dialing"] /\ frames' = <<>>
  /\ stage' = Abandoned(stage) /\ wire' = Adrift /\ isConnected' = FALSE /\ isConnecting' = TRUE
  /\ UNCHANGED <<server, sessions, harness, list, task, ask, closing, session, saved, settled, waited>>

(* devhost reads the message; its answer goes back if the connection is still there. *)
Answer(c, sent) ==
  /\ wire' = [wire EXCEPT ![c] = [at |-> "none", to |-> None]]
  /\ frames' = IF wire[c].at = "here" THEN Append(frames, [type |-> "result", of |-> c, sent |-> sent]) ELSE frames
  /\ UNCHANGED <<sessions, harness, list, task, ask, closing, session, saved, stream, settled, isConnecting, isConnected, stage, waited>>
Accept(c) == accepted' = [accepted EXCEPT ![c] = wire[c].to]

(* It is refused; or the agent takes it and says so; or the call times out, and nobody can say. *)
Take(c) ==
  /\ wire[c].at # "none"
  /\ \/ Answer(c, "failed") /\ UNCHANGED accepted
     \/ status[wire[c].to] = "live" /\ Answer(c, "delivered") /\ Accept(c)
     \/ status[wire[c].to] = "live" /\ Answer(c, "unconfirmed") /\ (Accept(c) \/ UNCHANGED accepted)
  /\ UNCHANGED status
(* The agent's process takes it and exits before it says so: devhost reports that as a failure *)
(* of Codex, and as unconfirmed for Claude Code.                                               *)
TakeAndExit(c) ==
  /\ wire[c].at # "none"
  /\ status[wire[c].to] = "live" /\ status' = [status EXCEPT ![wire[c].to] = "exited"]
  /\ Answer(c, IF HarnessOf[wire[c].to] = Codex THEN "failed" ELSE "unconfirmed") /\ Accept(c)
(* An interrupt, or an answer to the agent's request, that fails is told by an error frame. *)
CommandFails ==
  /\ isConnected /\ stream.phase = "live" /\ frames' = Append(frames, [type |-> "error"])
  /\ UNCHANGED <<server, sessions, harness, list, task, ask, closing, session, saved, stream, settled, isConnecting, isConnected, stage, wire, waited>>
Lose(c) ==
  /\ wire[c].at = "adrift" /\ wire' = [wire EXCEPT ![c] = [at |-> "none", to |-> None]]
  /\ UNCHANGED <<server, sessions, harness, list, task, ask, closing, session, saved, stream, settled, frames, isConnecting, isConnected, stage, waited>>

(* onMessage and onEnd: what comes over the attached stream, in its order. *)
Kept == IF stream.waiter = None THEN None ELSE [who |-> stream.waiter, isKept |-> TRUE]
Receive ==
  /\ frames # <<>> /\ frames' = Tail(frames)
  /\ LET f == Head(frames) IN
     \/ /\ f.type = "snapshot" /\ isConnecting' = FALSE /\ isConnected' = TRUE
        /\ settled' = Kept /\ stream' = [stream EXCEPT !.waiter = None] /\ UNCHANGED stage
     \/ /\ f.type = "result"
        /\ stage' = IF stage[f.of] = "pending" THEN [stage EXCEPT ![f.of] = f.sent] ELSE stage
        /\ UNCHANGED <<isConnecting, isConnected, settled, stream>>
     \/ /\ f.type = "error" /\ stage' = Abandoned(stage) /\ isConnecting' = FALSE
        /\ UNCHANGED <<isConnected, settled, stream>>
     \/ /\ f.type = "end" /\ stage' = Abandoned(stage) /\ isConnecting' = FALSE /\ isConnected' = FALSE
        /\ settled' = Cancelled /\ stream' = [phase |-> "ended", waiter |-> None]
  /\ UNCHANGED <<server, sessions, harness, list, task, ask, closing, session, saved, wire, waited>>

-----------------------------------------------------------------------------
Person ==
  \/ NewConversation \/ RefreshCatalog \/ Close
  \/ (\E s \in Sessions : Select(s)) \/ (\E h \in Harnesses : SetHarness(h)) \/ (\E c \in Composed : Compose(c))
Fault ==
  \/ PostFails \/ CatalogFails \/ CloseFails \/ Break \/ CommandFails
  \/ (\E s \in Sessions : CloseByOthers(s) \/ Exit(s)) \/ (\E c \in Sends : ListFails(c) \/ TakeAndExit(c))
Work ==
  \/ Scan \/ Post \/ NoneLeft \/ Posted \/ AnswerCatalog \/ TakeCatalog \/ CloseSession \/ Closed \/ Dial \/ Receive
  \/ (\E c \in Sends : Listed(c) \/ TimeOut(c) \/ Take(c) \/ Lose(c))
Choice == Decide \/ (\E c \in Sends : Prepared(c) \/ Request(c))
Microtask == Settle \/ \E c \in Sends : Send(c) \/ Deliver(c)
Next ==
  \/ Microtask /\ UNCHANGED <<acts, faults>>
  \/ Quiet /\ (Work \/ Choice) /\ UNCHANGED <<acts, faults>>
  \/ Quiet /\ Person /\ acts < MaxActs /\ acts' = acts + 1 /\ UNCHANGED faults
  \/ Quiet /\ Fault /\ faults < MaxFaults /\ faults' = faults + 1 /\ UNCHANGED acts

(* Requests are answered or fail, streams are dialled and read, and the timer runs out; *)
(* nothing is assumed of the person.                                                    *)
Progress == (Microtask \/ (Quiet /\ Work)) /\ UNCHANGED <<acts, faults>>
Spec == Init /\ [][Next]_vars /\ WF_vars(Progress)
-----------------------------------------------------------------------------
Known == Harnesses \cup {Selected}
Stages == UnderWay \cup {"idle", "failed", "unconfirmed", "delivered"}
Frames ==
  [type : {"snapshot", "end", "error"}]
  \cup [type : {"result"}, of : Sends, sent : {"delivered", "unconfirmed", "failed"}]

(* The types of the state. *)
TypeOK ==
  /\ status \in [Sessions -> {"new", "live", "exited", "closed", "gone"}]
  /\ accepted \in [Sends -> Sessions \cup {None}]
  /\ sessions \in [Sessions -> {"none", "live", "closed"}]
  /\ harness \in Known
  /\ session \in Sessions \cup {None} /\ saved \in Sessions \cup {None}
  /\ isConnecting \in BOOLEAN /\ isConnected \in BOOLEAN
  /\ catalog \in [at : {"none", "asked", "read"}, list : [Sessions -> {"none", "live", "closed"}],
                  saved : Sessions \cup {None}]
  /\ shouldRestore \in BOOLEAN
  /\ task \in [at : {"none", "scan", "ask", "post", "posted", "attach", "failing"},
               resume : Sessions \cup {None}, harness : Known \cup {None}, made : Sessions \cup {None}]
  /\ task.at = "posted" => task.made \in Sessions
  /\ asker \in [who : Waiters, choices : SUBSET Sessions] /\ replaced \in BOOLEAN
  /\ closing \in [of : Sessions \cup {None}, isDone : BOOLEAN]
  /\ stream \in [phase : {"none", "dialing", "live", "ended"}, waiter : Waiters]
  /\ settled \in [who : Waiters, isKept : BOOLEAN] \cup {None}
  /\ frames \in Seq(Frames)
  /\ stage \in [Sends -> Stages]
  /\ wire \in [Sends -> [at : {"none", "here", "adrift"}, to : Sessions \cup {None}]]
  /\ waited \subseteq Sends
  /\ acts \in 0..MaxActs /\ faults \in 0..MaxFaults

(* A send that was reported as failed, whose text goes back to the composer to be sent again, is  *)
(* under way no more and no running agent has taken it: what is uncertain is "unconfirmed".  It    *)
(* may have been taken by a Codex process that has ended since (see FailedWasNotTaken).            *)
Ended(s) == HarnessOf[s] = Codex /\ status[s] \in {"exited", "closed", "gone"}
FailedIsNotAtWork ==
  \A c \in Sends : stage[c] = "failed" => wire[c].at = "none" /\ (accepted[c] = None \/ Ended(accepted[c]))

(* IAgentChatClient.send promises that it "Resolves unless the message definitely failed; an       *)
(* unknown outcome resolves too, so nothing resends it.": nobody has taken what is reported so.    *)
(* It does not hold: TakeAndExit reports what a Codex process took before it exited as failed.     *)
FailedWasNotTaken == \A c \in Sends : stage[c] = "failed" => accepted[c] = None

(* A message sent while a new conversation is being started never goes to one that was there before. *)
NewTakesTheMessage == \A c \in waited : accepted[c] \notin Old

(* A message comes to an end, whatever is closed, replaced, refused or lost on the way, unless the *)
(* person is asked something, or one question took the place of another (see SendsAlwaysEnd).      *)
SendsEnd ==
  \A c \in Sends :
    stage[c] \in UnderWay \ {"prepare"} ~> stage[c] \notin UnderWay \/ asker.who # None \/ replaced

(* IAgentChatClient.send promises that it "Resolves unless the message definitely failed": a send   *)
(* comes to an end once no question is open.                                                       *)
SendsAlwaysEnd ==
  \A c \in Sends : stage[c] \in UnderWay \ {"prepare"} ~> stage[c] \notin UnderWay \/ asker.who # None
=============================================================================
