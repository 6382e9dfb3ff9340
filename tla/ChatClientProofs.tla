---------------------------- MODULE ChatClientProofs ----------------------------
(* What becomes of a page's sends. *)
EXTENDS ChatClient, TLAPS

USE ChatClientAssumption

(* The outcome of these is out of the client's hands, or known. *)
Sent == {"pending", "unconfirmed", "delivered", "failed"}

(* No running agent has taken it. *)
Over(c) == accepted[c] = None \/ Ended(accepted[c])

(* Only a message that was sent is under way, and none is taken before it arrives. *)
WayInv == \A c \in Sends :
  /\ wire[c].at # "none" => stage[c] \in {"pending", "unconfirmed"} /\ accepted[c] = None
  /\ stage[c] \notin Sent => accepted[c] = None /\ wire[c].at = "none"
  /\ stage[c] = "failed" => Over(c) /\ wire[c].at = "none"

(* An answer is about a message that arrived, a failure about one that no running agent has taken. *)
Answers(f, c) == f.type = "result" /\ f.of = c
AnswerInv == \A c \in Sends : \A i \in 1..Len(frames) : Answers(frames[i], c) =>
  stage[c] \in Sent /\ wire[c].at = "none" /\ (frames[i].sent = "failed" => Over(c))

(* A message waits at one place, and has not been sent. *)
WaiterInv ==
  /\ stream.waiter \in Sends => stage[stream.waiter] = "join"
  /\ settled # None /\ settled.who \in Sends => stage[settled.who] = "join" /\ stream.waiter # settled.who
  /\ asker.who \in Sends => stage[asker.who] = "ask"

(* What the task attaches is a conversation of its own. *)
NewInv ==
  /\ \A s \in Old : status[s] # "new"
  /\ task.at = "posted" => task.made \notin Old
  /\ stream.waiter = "task" => session \notin Old
  /\ settled # None /\ settled.who = "task" /\ settled.isKept => session \notin Old

(* A message that waits for the task goes where the task ends, or nowhere. *)
WaitedInv == \A c \in waited :
  /\ stage[c] \in Sent \cup {"wait", "deliver"}
  /\ stage[c] = "deliver" => session \notin Old
  /\ wire[c].at # "none" => wire[c].to \notin Old
  /\ accepted[c] \notin Old

IInv == WayInv /\ AnswerInv /\ WaiterInv /\ NewInv /\ WaitedInv

-----------------------------------------------------------------------------
(* Types. *)
TaskOK ==
  /\ task \in [at : {"none", "scan", "ask", "post", "posted", "attach", "failing"},
               resume : Sessions \cup {None}, harness : Known \cup {None}, made : Sessions \cup {None}]
  /\ task.at = "posted" => task.made \in Sessions
WhoOK(w) == w \in [who : Waiters, isKept : BOOLEAN] \cup {None}
ConnectionOK ==
  /\ session \in Sessions \cup {None} /\ saved \in Sessions \cup {None}
  /\ isConnecting \in BOOLEAN /\ isConnected \in BOOLEAN
  /\ stream \in [phase : {"none", "dialing", "live", "ended"}, waiter : Waiters]
  /\ WhoOK(settled) /\ frames \in Seq(Frames)
SendsOK ==
  /\ stage \in [Sends -> Stages]
  /\ wire \in [Sends -> [at : {"none", "here", "adrift"}, to : Sessions \cup {None}]]
LinkOK == ConnectionOK /\ SendsOK

(* A sequence with one more element, one element or none. *)
LEMMA Appended ==
  ASSUME NEW S, NEW s \in Seq(S), NEW e \in S
  PROVE  /\ Append(s, e) \in Seq(S) /\ Len(Append(s, e)) = Len(s) + 1
         /\ \A i \in 1..Len(s) : Append(s, e)[i] = s[i]
         /\ Append(s, e)[Len(s) + 1] = e
  OBVIOUS
LEMMA Single == ASSUME NEW S, NEW e \in S PROVE <<e>> \in Seq(S) /\ Len(<<e>>) = 1 /\ <<e>>[1] = e
  OBVIOUS
LEMMA TailOf ==
  ASSUME NEW S, NEW s \in Seq(S), s # <<>>
  PROVE  /\ Tail(s) \in Seq(S) /\ Len(s) \in Nat \ {0} /\ Len(Tail(s)) = Len(s) - 1
         /\ Head(s) = s[1] /\ s[1] \in S
         /\ \A i \in 1..Len(Tail(s)) : i + 1 \in 1..Len(s) /\ Tail(s)[i] = s[i + 1]
  OBVIOUS

(* Whoever is told that a stream was replaced, or that it is there, is a waiter. *)
LEMMA ToldType == TypeOK => WhoOK(Cancelled) /\ WhoOK(Kept)
  BY DEF TypeOK, WhoOK, Cancelled, Kept

(* What a lost connection leaves of the sends. *)
LEMMA AbandonedType ==
  ASSUME NEW st \in [Sends -> Stages] PROVE Abandoned(st) \in [Sends -> Stages]
  BY DEF Abandoned, Stages
LEMMA AdriftType == TypeOK => Adrift \in [Sends -> [at : {"none", "here", "adrift"}, to : Sessions \cup {None}]]
<1> SUFFICES ASSUME TypeOK, NEW c \in Sends
             PROVE  Adrift[c] \in [at : {"none", "here", "adrift"}, to : Sessions \cup {None}]
  BY DEF Adrift
<1>1. wire[c] \in [at : {"none", "here", "adrift"}, to : Sessions \cup {None}]
  BY DEF TypeOK
<1> QED
  BY <1>1 DEF Adrift

LEMMA AttachType ==
  ASSUME TypeOK, NEW s \in Sessions, NEW w \in Waiters, NEW st \in [Sends -> Stages], Attach(s, w, st)
  PROVE  LinkOK'
<1>1. settled' = Cancelled /\ stage' = Abandoned(st) /\ wire' = Adrift
  BY DEF Attach
<1>2. WhoOK(settled)' /\ SendsOK'
  BY <1>1, ToldType, AbandonedType, AdriftType DEF SendsOK, WhoOK
<1>3. /\ session' \in Sessions \cup {None} /\ saved' \in Sessions \cup {None}
      /\ isConnecting' \in BOOLEAN /\ isConnected' \in BOOLEAN
      /\ stream' \in [phase : {"none", "dialing", "live", "ended"}, waiter : Waiters]
  BY DEF Attach
<1>4. frames' \in Seq(Frames)
  BY DEF Attach
<1> QED
  BY <1>2, <1>3, <1>4 DEF LinkOK, ConnectionOK, WhoOK

LEMMA StagedType ==
  ASSUME TypeOK, NEW c \in Sends, NEW where \in Stages, Staged(c, where)
  PROVE  LinkOK'
  BY DEF Staged, At, TypeOK, LinkOK, ConnectionOK, SendsOK, WhoOK

LEMMA ResumeType ==
  ASSUME TypeOK, NEW s \in Sessions, NEW w \in Waiters, NEW st \in [Sends -> Stages],
         NEW done \in [Sends -> Stages], Resume(s, w, st, done)
  PROVE  LinkOK' /\ harness' \in Known
<1>1. harness' \in Known
  BY DEF Resume, Known, Harnesses
<1>2. CASE session # s \/ ~isConnected
  BY <1>1, <1>2, AttachType DEF Resume
<1>3. CASE ~(session # s \/ ~isConnected)
  BY <1>1, <1>3 DEF Resume, TypeOK, LinkOK, ConnectionOK, SendsOK, WhoOK
<1> QED
  BY <1>2, <1>3, <1>1

LEMMA StartTaskType ==
  ASSUME TypeOK, NEW r \in Sessions \cup {None}, NEW h \in Known, StartTask(r, h)
  PROVE  /\ TaskOK'
         /\ isConnecting' \in BOOLEAN /\ harness' \in Known
<1>1. isConnecting' = (isConnecting \/ task.at = "none")
  BY DEF StartTask
<1>2. isConnecting' \in BOOLEAN
  BY <1>1, Zenon
<1>3. harness' \in Known
  BY DEF StartTask, TypeOK
<1>4. task' = Begun(r, h)
  BY DEF StartTask
<1>5. task' = task \/ (task.at = "none" /\ \E a \in {"scan", "post"} :
        task' = [at |-> a, resume |-> r, harness |-> h, made |-> None])
  BY <1>4 DEF Begun, Idle
<1> QED
  BY <1>2, <1>3, <1>5 DEF TypeOK, TaskOK

(* The state starts with its types. *)
LEMMA InitType == Init => TypeOK
<1> SUFFICES ASSUME Init PROVE TypeOK
  OBVIOUS
<1>1. /\ status \in [Sessions -> {"new", "live", "exited", "closed", "gone"}]
      /\ accepted \in [Sends -> Sessions \cup {None}]
      /\ sessions \in [Sessions -> {"none", "live", "closed"}] /\ harness \in Known
  BY DEF Init, Known
<1>2. ConnectionOK
  <2>1. frames \in Seq(Frames)
    BY DEF Init
  <2>2. stream \in [phase : {"none", "dialing", "live", "ended"}, waiter : Waiters]
    BY DEF Init, NoStream, Waiters
  <2> QED
    BY <2>1, <2>2 DEF Init, ConnectionOK, WhoOK
<1>3. SendsOK
  BY DEF Init, SendsOK, Stages
<1>4. /\ catalog \in [at : {"none", "asked", "read"}, list : [Sessions -> {"none", "live", "closed"}],
                      saved : Sessions \cup {None}]
      /\ shouldRestore \in BOOLEAN /\ replaced \in BOOLEAN
  BY <1>1, <1>2 DEF Init, ConnectionOK
<1>5. /\ task \in [at : {"none", "scan", "ask", "post", "posted", "attach", "failing"},
                   resume : Sessions \cup {None}, harness : Known \cup {None}, made : Sessions \cup {None}]
      /\ task.at # "posted"
  BY DEF Init, Idle
<1>6. /\ asker \in [who : Waiters, choices : SUBSET Sessions]
      /\ closing \in [of : Sessions \cup {None}, isDone : BOOLEAN]
  BY DEF Init, Waiters
<1>7. waited \subseteq Sends /\ acts \in 0..MaxActs /\ faults \in 0..MaxFaults
  BY DEF Init
<1> QED
  BY <1>1, <1>2, <1>3, <1>4, <1>5, <1>6, <1>7 DEF TypeOK, ConnectionOK, SendsOK, WhoOK

(* Every action keeps the types; what counts the faults and the person's acts is left to Next. *)
Counts == acts' \in 0..MaxActs /\ faults' \in 0..MaxFaults
LEMMA LinkType == TypeOK <=> TypeOK /\ LinkOK
  BY DEF TypeOK, LinkOK, ConnectionOK, SendsOK, WhoOK

(* The buttons. *)
LEMMA PersonType == TypeOK /\ Person /\ Counts => TypeOK'
<1> SUFFICES ASSUME TypeOK, Person, Counts PROVE TypeOK'
  OBVIOUS
<1> USE DEF Counts
<1>1. CASE NewConversation
  <2>1. LinkOK' /\ harness' \in Known /\ TypeOK
    BY <1>1, StartTaskType, LinkType DEF NewConversation, LinkOK, ConnectionOK, SendsOK, WhoOK, TypeOK
  <2> QED
    BY <1>1, StartTaskType DEF NewConversation, TypeOK, TaskOK, server, list, ask
<1>2. CASE RefreshCatalog
  <2>1. catalog' = [at |-> "asked", list |-> catalog.list, saved |-> catalog.saved]
    BY <1>2 DEF RefreshCatalog, TypeOK
  <2>2. catalog' \in [at : {"none", "asked", "read"}, list : [Sessions -> {"none", "live", "closed"}],
                       saved : Sessions \cup {None}]
    BY <2>1 DEF TypeOK
  <2>3. UNCHANGED <<server, sessions, harness, shouldRestore, task, ask, closing, link, waited>>
    BY <1>2 DEF RefreshCatalog
  <2> QED
    BY <2>2, <2>3 DEF TypeOK, server, link, ask
<1>3. CASE Close
  BY <1>3 DEF Close, TypeOK, server, link, list, ask
<1>4. ASSUME NEW s \in Sessions, Select(s) PROVE TypeOK'
  <2>1. HarnessOf[s] \in Known
    BY DEF Known, Harnesses
  <2>2. CASE sessions[s] = "closed"
    <3>1. StartTask(s, HarnessOf[s])
      BY <1>4, <2>2 DEF Select
    <3> QED
      BY <1>4, <2>1, <2>2, <3>1, StartTaskType DEF Select, TypeOK, TaskOK, server, list, ask
  <2>3. CASE sessions[s] # "closed"
    <3>1. Resume(s, "user", stage, stage) /\ UNCHANGED task
      BY <1>4, <2>3 DEF Select
    <3>2. LinkOK' /\ harness' \in Known
      BY <3>1, ResumeType DEF TypeOK, Waiters
    <3> QED
      BY <1>4, <3>1, <3>2 DEF Select, TypeOK, LinkOK, ConnectionOK, SendsOK, WhoOK, server, list, ask
  <2> QED
    BY <2>2, <2>3
<1>5. ASSUME NEW h \in Harnesses, SetHarness(h) PROVE TypeOK'
  BY <1>5 DEF SetHarness, TypeOK, Known, server, link, list, ask
<1>6. ASSUME NEW c \in Composed, Compose(c) PROVE TypeOK'
  <2>1. LinkOK'
    BY <1>6, StagedType DEF Compose, Stages, UnderWay, Sends
  <2> QED
    BY <1>6, <2>1 DEF Compose, TypeOK, LinkOK, ConnectionOK, SendsOK, WhoOK, server, list, ask
<1> QED
  BY <1>1, <1>2, <1>3, <1>4, <1>5, <1>6 DEF Person

(* What the task does. *)
LEMMA TaskType == TypeOK /\ (Scan \/ Post \/ Refuse \/ Posted) /\ Counts => TypeOK'
<1> SUFFICES ASSUME TypeOK, Scan \/ Post \/ Refuse \/ Posted, Counts PROVE TypeOK'
  OBVIOUS
<1> USE DEF Counts
<1>1. CASE Scan
  <2>1. replaced' \in BOOLEAN
    BY <1>1 DEF Scan, TypeOK, ask
  <2>2. asker' \in [who : Waiters, choices : SUBSET Sessions]
    BY <1>1 DEF Scan, TypeOK, ask, Waiters
  <2>3. \E a \in {"post", "ask"} :
          task' = [at |-> a, resume |-> task.resume, harness |-> task.harness, made |-> task.made]
    BY <1>1 DEF Scan, TypeOK
  <2> QED
    BY <1>1, <2>1, <2>2, <2>3 DEF Scan, TypeOK, server, link, list
<1>2. CASE Post
  <2>1. PICK s \in Fresh(task.harness) :
          /\ status' = [t \in Sessions |-> IF t = s THEN "live"
                       ELSE IF t = task.resume /\ status[t] = "closed" THEN "gone" ELSE status[t]]
          /\ task' = [task EXCEPT !.at = "posted", !.made = s]
    BY <1>2 DEF Post
  <2>2. s \in Sessions
    BY DEF Fresh
  <2>3. status' \in [Sessions -> {"new", "live", "exited", "closed", "gone"}]
    BY <2>1 DEF TypeOK
  <2>4. task' = [at |-> "posted", resume |-> task.resume, harness |-> task.harness, made |-> s]
    BY <2>1 DEF TypeOK
  <2>5. TaskOK'
    BY <2>2, <2>4 DEF TypeOK, TaskOK
  <2>6. LinkOK' /\ UNCHANGED <<accepted, sessions, harness, list, ask, closing, waited>>
    BY <1>2, LinkType DEF Post, link, LinkOK, ConnectionOK, SendsOK, WhoOK
  <2> QED
    BY <2>3, <2>5, <2>6 DEF TypeOK, TaskOK, LinkOK, ConnectionOK, SendsOK, WhoOK, list, ask
<1>3. CASE Refuse
  <2>1. task' = [at |-> "failing", resume |-> task.resume, harness |-> task.harness, made |-> task.made]
    BY <1>3 DEF Refuse, TypeOK
  <2>2. WhoOK(settled)'
    BY <1>3 DEF Refuse, WhoOK, Waiters
  <2>3. TaskOK'
    BY <2>1 DEF TypeOK, TaskOK
  <2> QED
    BY <1>3, <2>2, <2>3 DEF Refuse, TypeOK, TaskOK, WhoOK, server, list, ask
<1>4. CASE Posted
  <2>1. task' = [at |-> "attach", resume |-> task.resume, harness |-> task.harness, made |-> task.made]
    BY <1>4 DEF Posted, TypeOK
  <2>2. LinkOK'
    BY <1>4, AttachType DEF Posted, TypeOK, Waiters
  <2>3. sessions' \in [Sessions -> {"none", "live", "closed"}]
    BY <1>4 DEF Posted, TypeOK
  <2>4. TaskOK'
    BY <2>1 DEF TypeOK, TaskOK
  <2>5. UNCHANGED <<server, harness, list, ask, closing, waited>>
    BY <1>4 DEF Posted
  <2> QED
    BY <2>2, <2>3, <2>4, <2>5 DEF TypeOK, TaskOK, LinkOK, ConnectionOK, SendsOK, WhoOK, server, list, ask
<1> QED
  BY <1>1, <1>2, <1>3, <1>4

(* The list of conversations, and the end of one. *)
LEMMA ListType == TypeOK /\ (AnswerCatalog \/ TakeCatalog \/ CatalogFails) /\ Counts => TypeOK'
<1> SUFFICES ASSUME TypeOK, AnswerCatalog \/ TakeCatalog \/ CatalogFails, Counts PROVE TypeOK'
  OBVIOUS
<1> USE DEF Counts
<1>1. \E a \in {"none", "asked", "read"}, l \in [Sessions -> {"none", "live", "closed"}] :
        catalog' = [at |-> a, list |-> l, saved |-> catalog.saved]
  <2>1. Listing \in [Sessions -> {"none", "live", "closed"}]
    BY DEF Listing
  <2>2. catalog = [at |-> catalog.at, list |-> catalog.list, saved |-> catalog.saved]
        /\ catalog.list \in [Sessions -> {"none", "live", "closed"}]
    BY DEF TypeOK
  <2>3. catalog' = [catalog EXCEPT !.at = "read", !.list = Listing] \/ catalog' = [catalog EXCEPT !.at = "none"]
    BY DEF AnswerCatalog, TakeCatalog, CatalogFails
  <2>4. \/ catalog' = [at |-> "read", list |-> Listing, saved |-> catalog.saved]
        \/ catalog' = [at |-> "none", list |-> catalog.list, saved |-> catalog.saved]
    BY <2>2, <2>3
  <2> QED
    BY <2>1, <2>2, <2>4
<1>2. catalog' \in [at : {"none", "asked", "read"}, list : [Sessions -> {"none", "live", "closed"}],
                    saved : Sessions \cup {None}]
  BY <1>1 DEF TypeOK
<1>3. CASE AnswerCatalog \/ CatalogFails
  BY <1>2, <1>3 DEF AnswerCatalog, CatalogFails, TypeOK, server, link, ask
<1>4. CASE TakeCatalog
  <2>1. sessions' \in [Sessions -> {"none", "live", "closed"}] /\ shouldRestore' \in BOOLEAN /\ harness' \in Known
    <3>1. sessions' = catalog.list /\ shouldRestore' = FALSE /\ harness' \in {harness} \cup Harnesses
      BY <1>4, Zenon DEF TakeCatalog
    <3>2. catalog.list \in [Sessions -> {"none", "live", "closed"}] /\ harness \in Known
      BY DEF TypeOK
    <3> QED
      BY <3>1, <3>2 DEF Known
  <2>2. CASE shouldRestore /\ MayRestore(catalog.saved)
    <3>1. Attach(catalog.saved, "restore", stage) /\ catalog.saved \in Sessions
      BY <1>4, <2>2 DEF TakeCatalog, MayRestore, TypeOK
    <3>2. LinkOK'
      BY <3>1, AttachType DEF TypeOK, Waiters
    <3>3. UNCHANGED <<server, task, ask, closing, waited>>
      BY <1>4 DEF TakeCatalog
    <3> QED
      BY <1>2, <2>1, <3>2, <3>3 DEF TypeOK, LinkOK, ConnectionOK, SendsOK, WhoOK, server, ask
  <2>3. CASE ~(shouldRestore /\ MayRestore(catalog.saved))
    BY <1>2, <1>4, <2>1, <2>3 DEF TakeCatalog, TypeOK, server, ask
  <2> QED
    BY <2>2, <2>3
<1> QED
  BY <1>3, <1>4

LEMMA CloseType ==
  TypeOK /\ (CloseSession \/ Closed \/ CloseFails \/ \E s \in Sessions : CloseByOthers(s) \/ Exit(s)) /\ Counts => TypeOK'
<1> SUFFICES ASSUME TypeOK, CloseSession \/ Closed \/ CloseFails \/ \E s \in Sessions : CloseByOthers(s) \/ Exit(s), Counts
             PROVE  TypeOK'
  OBVIOUS
<1> USE DEF Counts
<1>1. ASSUME NEW s \in Sessions, EndSession(s)
      PROVE  /\ status' \in [Sessions -> {"new", "live", "exited", "closed", "gone"}] /\ frames' \in Seq(Frames)
             /\ UNCHANGED <<accepted, session, saved, stream, settled, isConnecting, isConnected, stage, wire,
                           sessions, harness, list, task, ask, waited>>
  <2>1. [type |-> "end"] \in Frames
    BY DEF Frames
  <2>2. frames' \in Seq(Frames)
    BY <1>1, <2>1, Appended DEF EndSession, Told, TypeOK
  <2> QED
    BY <1>1, <2>2 DEF EndSession, TypeOK
<1>2. CASE CloseSession
  <2>1. closing' = [of |-> closing.of, isDone |-> TRUE] /\ closing.of \in Sessions
    BY <1>2 DEF CloseSession, TypeOK
  <2>2. closing' \in [of : Sessions \cup {None}, isDone : BOOLEAN]
    BY <2>1
  <2>3. CASE EndSession(closing.of)
    BY <1>1, <2>1, <2>2, <2>3 DEF TypeOK, list, ask
  <2>4. CASE ~EndSession(closing.of)
    BY <1>2, <2>2, <2>4 DEF CloseSession, TypeOK, server, link, list, ask
  <2> QED
    BY <2>3, <2>4
<1>3. CASE Closed
  <2>1. closing.of \in Sessions /\ sessions' = [sessions EXCEPT ![closing.of] = "closed"]
    BY <1>3 DEF Closed, TypeOK
  <2>2. sessions' \in [Sessions -> {"none", "live", "closed"}]
    BY <2>1 DEF TypeOK
  <2>3. WhoOK(settled)' /\ SendsOK'
    <3>1. settled' = Cancelled /\ stage' = Abandoned(stage) /\ wire' = Adrift
      BY <1>3 DEF Closed
    <3>2. stage' \in [Sends -> Stages]
      BY <3>1, AbandonedType DEF TypeOK
    <3> QED
      BY <3>1, <3>2, ToldType, AdriftType DEF WhoOK, SendsOK
  <2>4. stream' \in [phase : {"none", "dialing", "live", "ended"}, waiter : Waiters] /\ frames' \in Seq(Frames)
    <3>1. frames' = <<>>
      BY <1>3 DEF Closed
    <3> QED
      BY <1>3, <3>1 DEF Closed, NoStream, Waiters
  <2>5. closing' \in [of : Sessions \cup {None}, isDone : BOOLEAN]
    BY <1>3 DEF Closed
  <2>6. LinkOK'
    BY <1>3, <2>3, <2>4 DEF Closed, LinkOK, ConnectionOK, SendsOK, WhoOK
  <2> QED
    BY <1>3, <2>2, <2>5, <2>6 DEF Closed, TypeOK, LinkOK, ConnectionOK, SendsOK, WhoOK, server, list, ask
<1>4. CASE CloseFails
  BY <1>4 DEF CloseFails, TypeOK, server, link, list, ask
<1>5. ASSUME NEW s \in Sessions, CloseByOthers(s) PROVE TypeOK'
  BY <1>1, <1>5 DEF CloseByOthers, TypeOK, list, ask
<1>6. ASSUME NEW s \in Sessions, Exit(s) PROVE TypeOK'
  BY <1>6 DEF Exit, TypeOK, link, list, ask
<1> QED
  BY <1>2, <1>3, <1>4, <1>5, <1>6

(* What a message that asks for the running conversations finds. *)
LEMMA ListedRuns ==
  ASSUME NEW c, Listed(c)
  PROVE  \E running \in SUBSET Sessions :
           \/ Staged(c, "send") /\ UNCHANGED harness /\ ask' = ask
           \/ /\ \E s \in Sessions : Resume(s, c, [stage EXCEPT ![c] = "join"], [stage EXCEPT ![c] = "send"])
              /\ ask' = ask
           \/ /\ asker' = [who |-> c, choices |-> running] /\ replaced' = (replaced \/ asker.who # None)
              /\ Staged(c, "ask") /\ UNCHANGED harness
<1>1. PICK idle \in SUBSET Exited :
        \/ Staged(c, "send") /\ harness' = harness /\ ask' = ask
        \/ \E s \in Running \cup idle :
             Resume(s, c, [stage EXCEPT ![c] = "join"], [stage EXCEPT ![c] = "send"]) /\ ask' = ask
        \/ /\ asker' = [who |-> c, choices |-> Running \cup idle] /\ replaced' = (replaced \/ asker.who # None)
           /\ Staged(c, "ask") /\ harness' = harness
  BY Zenon DEF Listed
<1>2. Running \cup idle \in SUBSET Sessions
  BY DEF Running, Exited
<1> QED
  BY <1>1, <1>2

(* A message up to its sending. *)
LEMMA SendType ==
  ASSUME TypeOK, Counts, NEW c \in Sends,
         Prepared(c) \/ Request(c) \/ Listed(c) \/ ListFails(c) \/ Send(c) \/ Deliver(c) \/ TimeOut(c)
  PROVE  TypeOK'
<1> USE DEF Counts
<1>1. ASSUME NEW where \in Stages, Staged(c, where),
             UNCHANGED <<server, sessions, harness, list, task, ask, closing, waited>>
      PROVE  TypeOK'
  <2>1. LinkOK'
    BY <1>1, StagedType
  <2> QED
    BY <1>1, <2>1 DEF TypeOK, LinkOK, ConnectionOK, SendsOK, WhoOK, server, list, ask
<1>2. CASE Prepared(c) \/ Request(c) \/ ListFails(c) \/ TimeOut(c)
  BY <1>1, <1>2 DEF Prepared, Request, ListFails, TimeOut, Stages, UnderWay
<1>3. CASE Listed(c)
  <2>0. \E running \in SUBSET Sessions :
          \/ Staged(c, "send") /\ UNCHANGED harness /\ ask' = ask
          \/ /\ \E s \in Sessions : Resume(s, c, [stage EXCEPT ![c] = "join"], [stage EXCEPT ![c] = "send"])
             /\ ask' = ask
          \/ /\ asker' = [who |-> c, choices |-> running] /\ replaced' = (replaced \/ asker.who # None)
             /\ Staged(c, "ask") /\ UNCHANGED harness
    BY <1>3, ListedRuns DEF Listed
  <2>1. sessions' \in [Sessions -> {"none", "live", "closed"}]
    BY <1>3 DEF Listed, Listing
  <2>2. LinkOK' /\ harness' \in Known
    <3>1. \A w \in {"join", "send"} : [stage EXCEPT ![c] = w] \in [Sends -> Stages]
      BY DEF TypeOK, Stages, UnderWay
    <3>2. CASE Staged(c, "send") /\ UNCHANGED harness
      BY <3>2, StagedType DEF TypeOK, Stages, UnderWay
    <3>3. CASE Staged(c, "ask") /\ UNCHANGED harness
      BY <3>3, StagedType DEF TypeOK, Stages, UnderWay
    <3>4. ASSUME NEW s \in Sessions, Resume(s, c, [stage EXCEPT ![c] = "join"], [stage EXCEPT ![c] = "send"])
          PROVE  LinkOK' /\ harness' \in Known
      BY <3>1, <3>4, ResumeType DEF Waiters
    <3>5. \/ Staged(c, "send") /\ UNCHANGED harness
          \/ Staged(c, "ask") /\ UNCHANGED harness
          \/ \E s \in Sessions : Resume(s, c, [stage EXCEPT ![c] = "join"], [stage EXCEPT ![c] = "send"])
      BY <2>0, Zenon
    <3> QED
      BY <3>2, <3>3, <3>4, <3>5
  <2>3. asker' \in [who : Waiters, choices : SUBSET Sessions]
    <3>1. asker' = asker \/ \E running \in SUBSET Sessions : asker' = [who |-> c, choices |-> running]
      BY <2>0 DEF ask
    <3> QED
      BY <3>1 DEF TypeOK, Waiters
  <2>4. replaced' \in BOOLEAN
    <3>1. replaced' = replaced \/ replaced' = (replaced \/ asker.who # None)
      BY <2>0 DEF ask
    <3> QED
      BY <3>1 DEF TypeOK
  <2> QED
    BY <1>3, <2>1, <2>2, <2>3, <2>4 DEF Listed, TypeOK, LinkOK, ConnectionOK, SendsOK, WhoOK, server, list
<1>4. CASE Send(c)
  <2>1. stage' \in [Sends -> Stages] /\ waited' \subseteq Sends
    <3>1. \E w \in {"wait", "deliver"} : stage' = [stage EXCEPT ![c] = w]
      BY <1>4 DEF Send, At
    <3>2. waited' = waited \cup {c} \/ waited' = waited
      BY <1>4 DEF Send
    <3> QED
      BY <3>1, <3>2 DEF TypeOK, Stages, UnderWay
  <2>2. TaskOK' /\ isConnecting' \in BOOLEAN /\ harness' \in Known
    <3>1. CASE StartTask(None, harness)
      BY <3>1, StartTaskType DEF TypeOK
    <3>2. CASE UNCHANGED <<task, harness, isConnecting>>
      BY <3>2 DEF TypeOK, TaskOK
    <3> QED
      BY <1>4, <3>1, <3>2 DEF Send
  <2> QED
    BY <1>4, <2>1, <2>2 DEF Send, TypeOK, TaskOK, server, list, ask
<1>5. CASE Deliver(c)
  <2>1. stage' \in [Sends -> Stages]
    <3>1. \E w \in {"pending", "failed"} : stage' = [stage EXCEPT ![c] = w]
      BY <1>5 DEF Deliver, At
    <3> QED
      BY <3>1 DEF TypeOK, Stages, UnderWay
  <2>2. wire' = wire \/ wire' = [wire EXCEPT ![c] = [at |-> "here", to |-> session]]
    BY <1>5 DEF Deliver
  <2>3. SendsOK'
    <3> DEFINE Ways == [at : {"none", "here", "adrift"}, to : Sessions \cup {None}]
    <3>1. [at |-> "here", to |-> session] \in Ways /\ wire \in [Sends -> Ways]
      BY DEF TypeOK
    <3>2. wire' \in [Sends -> Ways]
      <4> HIDE DEF Ways
      <4> QED
        BY <2>2, <3>1
    <3> QED
      BY <2>1, <3>2 DEF SendsOK
  <2> QED
    BY <1>5, <2>3 DEF Deliver, TypeOK, SendsOK, server, list, ask
<1> QED
  BY <1>2, <1>3, <1>4, <1>5

(* An answer, and a promise that is settled. *)
LEMMA AnswerType == TypeOK /\ (Decide \/ Settle) /\ Counts => TypeOK'
<1> SUFFICES ASSUME TypeOK, Decide \/ Settle, Counts PROVE TypeOK'
  OBVIOUS
<1> USE DEF Counts
<1>1. CASE Decide
  <2>1. asker' \in [who : Waiters, choices : SUBSET Sessions]
    BY <1>1 DEF Decide, Waiters
  <2>2. CASE /\ asker.who = "task"
             /\ UNCHANGED <<harness, session, saved, stream, frames, isConnecting, isConnected, stage, wire>>
             /\ \/ task' = [task EXCEPT !.at = "post"] /\ UNCHANGED settled
                \/ task' = [task EXCEPT !.at = "failing"] /\ settled' = [who |-> "task", isKept |-> FALSE]
    <3>1. \E a \in {"post", "failing"} :
            task' = [at |-> a, resume |-> task.resume, harness |-> task.harness, made |-> task.made]
      BY <2>2 DEF TypeOK
    <3>2. TaskOK'
      BY <3>1 DEF TypeOK, TaskOK
    <3>3. WhoOK(settled)'
      <4>1. settled' = settled \/ settled' = [who |-> "task", isKept |-> FALSE]
        BY <2>2
      <4>2. settled \in [who : Waiters, isKept : BOOLEAN] \cup {None}
        BY DEF TypeOK
      <4>3. settled' \in [who : Waiters, isKept : BOOLEAN] \cup {None}
        <5>1. [who |-> "task", isKept |-> FALSE] \in [who : Waiters, isKept : BOOLEAN]
          BY DEF Waiters
        <5> QED
          BY <4>1, <4>2, <5>1
      <4> QED
        BY <4>3 DEF WhoOK
    <3> QED
      BY <1>1, <2>1, <2>2, <3>2, <3>3 DEF Decide, TypeOK, TaskOK, WhoOK, server, list
  <2>3. CASE /\ asker.who \in Sends /\ UNCHANGED task
             /\ \/ Staged(asker.who, "failed") /\ UNCHANGED harness
                \/ \E s \in asker.choices :
                     Resume(s, asker.who, [stage EXCEPT ![asker.who] = "join"], [stage EXCEPT ![asker.who] = "send"])
    <3>1. \A w \in {"join", "send"} : [stage EXCEPT ![asker.who] = w] \in [Sends -> Stages]
      BY <2>3 DEF TypeOK, Stages, UnderWay
    <3>2. CASE Staged(asker.who, "failed") /\ UNCHANGED harness
      <4>1. LinkOK'
        BY <2>3, <3>2, StagedType DEF Stages
      <4> QED
        BY <1>1, <2>1, <2>3, <3>2, <4>1 DEF Decide, TypeOK, LinkOK, ConnectionOK, SendsOK, WhoOK, server, list
    <3>3. ASSUME NEW s \in asker.choices,
                 Resume(s, asker.who, [stage EXCEPT ![asker.who] = "join"], [stage EXCEPT ![asker.who] = "send"])
          PROVE  TypeOK'
      <4>1. s \in Sessions
        BY DEF TypeOK
      <4>2. LinkOK' /\ harness' \in Known
        BY <2>3, <3>1, <3>3, <4>1, ResumeType DEF Waiters
      <4> QED
        BY <1>1, <2>1, <2>3, <4>2 DEF Decide, TypeOK, LinkOK, ConnectionOK, SendsOK, WhoOK, server, list
    <3> QED
      BY <2>3, <3>2, <3>3
  <2> QED
    BY <1>1, <2>2, <2>3 DEF Decide
<1>2. CASE Settle
  <2>1. CASE settled.who = "task"
    <3>1. TaskOK'
      BY <1>2, <2>1 DEF Settle, TaskOK, Idle
    <3>2. isConnecting' \in BOOLEAN
      <4>1. isConnecting' = (isConnecting /\ settled.isKept)
        BY <1>2, <2>1 DEF Settle
      <4> QED
        BY <4>1, Zenon
    <3>3. stage' \in [Sends -> Stages]
      BY <1>2, <2>1 DEF Settle, TypeOK, Stages, UnderWay
    <3> QED
      BY <1>2, <3>1, <3>2, <3>3 DEF Settle, TypeOK, TaskOK, server, list, ask
  <2>2. CASE settled.who # "task"
    <3>1. \/ stage' = stage
          \/ \E w \in {"send", "failed"} : settled.who \in Sends /\ stage' = [stage EXCEPT ![settled.who] = w]
      BY <1>2, <2>2 DEF Settle, At
    <3>2. stage \in [Sends -> Stages] /\ {"send", "failed"} \subseteq Stages
      BY DEF TypeOK, Stages, UnderWay
    <3>3. stage' \in [Sends -> Stages]
      BY <3>1, <3>2
    <3> QED
      BY <1>2, <2>2, <3>3 DEF Settle, TypeOK, server, list, ask
  <2> QED
    BY <2>1, <2>2
<1> QED
  BY <1>1, <1>2

(* The stream. *)
LEMMA StreamType ==
  TypeOK /\ (Dial \/ Break \/ CommandFails \/ Receive \/ \E c \in Sends : Take(c) \/ TakeAndExit(c) \/ Lose(c)) /\ Counts => TypeOK'
<1> SUFFICES ASSUME TypeOK, Dial \/ Break \/ CommandFails \/ Receive \/ \E c \in Sends : Take(c) \/ TakeAndExit(c) \/ Lose(c), Counts
             PROVE  TypeOK'
  OBVIOUS
<1> USE DEF Counts
<1>0. [type |-> "snapshot"] \in Frames /\ [type |-> "end"] \in Frames /\ [type |-> "error"] \in Frames
  BY DEF Frames
<1>1. CASE Dial
  <2>1. stream' = [phase |-> "live", waiter |-> stream.waiter]
    BY <1>1 DEF Dial, TypeOK
  <2>2. frames' \in Seq(Frames)
    <3>1. frames' = <<[type |-> "snapshot"]>> \/ frames' = <<[type |-> "end"]>>
      BY <1>1 DEF Dial
    <3>2. <<[type |-> "snapshot"]>> \in Seq(Frames) /\ <<[type |-> "end"]>> \in Seq(Frames)
      BY <1>0
    <3> QED
      BY <3>1, <3>2
  <2>3. stream' \in [phase : {"none", "dialing", "live", "ended"}, waiter : Waiters]
    BY <2>1 DEF TypeOK
  <2>4. UNCHANGED <<server, sessions, harness, list, task, ask, closing, session, saved, settled,
                  isConnecting, isConnected, stage, wire, waited>>
    BY <1>1 DEF Dial
  <2> QED
    BY <2>2, <2>3, <2>4 DEF TypeOK, server, list, ask
<1>2. CASE Break
  <2>1. stream' = [phase |-> "dialing", waiter |-> stream.waiter] /\ stage' = Abandoned(stage) /\ wire' = Adrift
    BY <1>2 DEF Break, TypeOK
  <2>2. stage' \in [Sends -> Stages]
    BY <2>1, AbandonedType DEF TypeOK
  <2>3. frames' \in Seq(Frames)
    BY <1>2 DEF Break
  <2>4. SendsOK'
    BY <2>1, <2>2, AdriftType DEF SendsOK
  <2>5. LinkOK'
    BY <1>2, <2>1, <2>3, <2>4 DEF Break, TypeOK, LinkOK, ConnectionOK, WhoOK
  <2> QED
    BY <1>2, <2>5 DEF Break, TypeOK, LinkOK, ConnectionOK, SendsOK, WhoOK, server, list, ask
<1>3. ASSUME NEW c \in Sends, Take(c) \/ TakeAndExit(c) PROVE TypeOK'
  <2>1. PICK sent \in {"delivered", "unconfirmed", "failed"} : Answer(c, sent) /\ (Accept(c) \/ UNCHANGED accepted)
    BY <1>3 DEF Take, TakeAndExit
  <2>2. [type |-> "result", of |-> c, sent |-> sent] \in Frames
    BY DEF Frames
  <2>3. frames' \in Seq(Frames)
    BY <2>1, <2>2, Appended DEF TypeOK, Answer
  <2>4. accepted' \in [Sends -> Sessions \cup {None}]
    BY <2>1 DEF TypeOK, Accept
  <2>5. wire' \in [Sends -> [at : {"none", "here", "adrift"}, to : Sessions \cup {None}]]
    BY <2>1 DEF Answer, TypeOK
  <2>6. status' \in [Sessions -> {"new", "live", "exited", "closed", "gone"}]
    BY <1>3 DEF Take, TakeAndExit, TypeOK
  <2> QED
    BY <2>1, <2>3, <2>4, <2>5, <2>6 DEF Answer, TypeOK, list, ask
<1>4. ASSUME NEW c \in Sends, Lose(c) PROVE TypeOK'
  <2>1. wire' \in [Sends -> [at : {"none", "here", "adrift"}, to : Sessions \cup {None}]]
    BY <1>4 DEF Lose, TypeOK
  <2> QED
    BY <1>4, <2>1 DEF Lose, TypeOK, server, list, ask
<1>5. CASE Receive
  <2>1. frames' = Tail(frames) /\ Head(frames) \in Frames /\ frames' \in Seq(Frames)
    BY <1>5, TailOf DEF Receive, TypeOK
  <2>2. CASE Head(frames).type = "snapshot"
    <3>1. settled' = Kept /\ stream' = [phase |-> stream.phase, waiter |-> None]
      BY <1>5, <2>2 DEF Receive, TypeOK
    <3>2. WhoOK(settled)' /\ stream' \in [phase : {"none", "dialing", "live", "ended"}, waiter : Waiters]
      BY <3>1, ToldType DEF TypeOK, Waiters, WhoOK
    <3>3. UNCHANGED <<server, sessions, harness, list, task, ask, closing, session, saved, wire, waited, stage>>
          /\ isConnecting' = FALSE /\ isConnected' = TRUE
      BY <1>5, <2>2 DEF Receive
    <3>4. LinkOK'
      BY <2>1, <3>2, <3>3 DEF TypeOK, LinkOK, ConnectionOK, SendsOK, WhoOK
    <3> QED
      BY <3>3, <3>4 DEF TypeOK, LinkOK, ConnectionOK, SendsOK, WhoOK, server, list, ask
  <2>3. CASE Head(frames).type = "result"
    <3>1. Head(frames).of \in Sends
      BY <2>1, <2>3 DEF Frames
    <3>2. stage' = stage \/ \E w \in {"delivered", "unconfirmed", "failed"} : stage' = [stage EXCEPT ![Head(frames).of] = w]
      BY <1>5, <2>1, <2>3 DEF Receive, Frames
    <3>3. stage' \in [Sends -> Stages]
      BY <3>1, <3>2 DEF TypeOK, Stages
    <3>4. UNCHANGED <<server, sessions, harness, list, task, ask, closing, session, saved, wire, waited,
                    isConnecting, isConnected, settled, stream>>
      BY <1>5, <2>3 DEF Receive
    <3> QED
      BY <2>1, <3>3, <3>4 DEF TypeOK, server, list, ask
  <2>4. CASE Head(frames).type = "end"
    <3>1. settled' = Cancelled /\ stream' = [phase |-> "ended", waiter |-> None] /\ stage' = Abandoned(stage)
      BY <1>5, <2>4 DEF Receive
    <3>2. WhoOK(settled)' /\ stream' \in [phase : {"none", "dialing", "live", "ended"}, waiter : Waiters]
      BY <3>1, ToldType DEF Waiters, WhoOK
    <3>3. stage' \in [Sends -> Stages]
      BY <3>1, AbandonedType DEF TypeOK
    <3>4. UNCHANGED <<server, sessions, harness, list, task, ask, closing, session, saved, wire, waited>>
          /\ isConnecting' = FALSE /\ isConnected' = FALSE
      BY <1>5, <2>4 DEF Receive
    <3>5. LinkOK'
      BY <2>1, <3>2, <3>3, <3>4 DEF TypeOK, LinkOK, ConnectionOK, SendsOK, WhoOK
    <3> QED
      BY <3>4, <3>5 DEF TypeOK, LinkOK, ConnectionOK, SendsOK, WhoOK, server, list, ask
  <2>5. CASE Head(frames).type = "error"
    <3>1. stage' = Abandoned(stage) /\ isConnecting' = FALSE
          /\ UNCHANGED <<server, sessions, harness, list, task, ask, closing, session, saved, wire, waited,
                        isConnected, settled, stream>>
      BY <1>5, <2>5 DEF Receive
    <3>2. stage' \in [Sends -> Stages]
      BY <3>1, AbandonedType DEF TypeOK
    <3>3. LinkOK'
      BY <2>1, <3>1, <3>2 DEF TypeOK, LinkOK, ConnectionOK, SendsOK, WhoOK
    <3> QED
      BY <3>1, <3>3 DEF TypeOK, LinkOK, ConnectionOK, SendsOK, WhoOK, server, list, ask
  <2> QED
    BY <1>5, <2>2, <2>3, <2>4, <2>5 DEF Receive
<1>6. CASE CommandFails
  <2>1. frames' \in Seq(Frames)
    BY <1>0, <1>6, Appended DEF CommandFails, TypeOK
  <2> QED
    BY <1>6, <2>1 DEF CommandFails, TypeOK, server, list, ask
<1> QED
  BY <1>1, <1>2, <1>3, <1>4, <1>5, <1>6

(* Every step keeps the types. *)
LEMMA NextType == TypeOK /\ [Next]_vars => TypeOK'
<1> SUFFICES ASSUME TypeOK, [Next]_vars PROVE TypeOK'
  OBVIOUS
<1>1. CASE Next
  <2>1. Counts /\ (Microtask \/ Work \/ Choice \/ Person \/ Fault)
    BY <1>1 DEF Next, TypeOK, Counts
  <2>2. CASE Microtask
    BY <2>1, <2>2, AnswerType, SendType DEF Microtask
  <2>3. CASE Work
    BY <2>1, <2>3, TaskType, ListType, CloseType, StreamType, SendType DEF Work, NoneLeft
  <2>4. CASE Choice
    BY <2>1, <2>4, AnswerType, SendType DEF Choice
  <2>5. CASE Person
    BY <2>1, <2>5, PersonType
  <2>6. CASE Fault
    BY <2>1, <2>6, TaskType, ListType, CloseType, StreamType, SendType DEF Fault, PostFails
  <2> QED
    BY <2>1, <2>2, <2>3, <2>4, <2>5, <2>6
<1>2. CASE UNCHANGED vars
  BY <1>2 DEF vars, server, list, ask, link, TypeOK
<1> QED
  BY <1>1, <1>2

(* The state has its types throughout. *)
THEOREM ClientTypeCorrect == Spec => []TypeOK
  BY InitType, NextType, PTL DEF Spec

-----------------------------------------------------------------------------
(* The invariant holds when the page is loaded. *)
LEMMA InitIInv == Init => IInv
<1> SUFFICES ASSUME Init PROVE IInv
  OBVIOUS
<1>1. WayInv /\ WaitedInv
  BY DEF Init, WayInv, WaitedInv, Sent
<1>2. AnswerInv
  BY DEF Init, AnswerInv
<1>3. WaiterInv /\ NewInv
  BY DEF Init, WaiterInv, NewInv, NoStream, Idle
<1> QED
  BY <1>1, <1>2, <1>3 DEF IInv

(* A message stays where it is, or is not sent, or its outcome is given up. *)
Moves(c) ==
  \/ stage'[c] = stage[c]
  \/ stage[c] \notin Sent /\ stage'[c] \notin Sent \ {"failed"}
  \/ stage[c] = "pending" /\ stage'[c] = "unconfirmed"

(* A step in which nothing is sent, taken or answered. *)
EndedStay == \A s \in Sessions : Ended(s) => Ended(s)'
LEMMA CalmStep ==
  ASSUME TypeOK, WayInv, AnswerInv, accepted' = accepted, status' = status \/ EndedStay, \A c \in Sends : Moves(c),
         \A c \in Sends : wire'[c].at # "none" => wire[c].at # "none",
         \A i \in 1..Len(frames') : frames'[i].type = "result" => \E j \in 1..Len(frames) : frames'[i] = frames[j]
  PROVE  WayInv' /\ AnswerInv'
<1>1. \A c \in Sends : accepted[c] = None \/ accepted[c] \in Sessions
  BY DEF TypeOK
<1>2. \A c \in Sends : Over(c) => Over(c)'
  BY <1>1 DEF Over, EndedStay, Ended
<1>3. WayInv'
  BY <1>2 DEF WayInv, Moves, Sent, Over
<1>4. AnswerInv'
  <2> SUFFICES ASSUME NEW c \in Sends, NEW i \in 1..Len(frames'), Answers(frames'[i], c)
               PROVE  stage'[c] \in Sent /\ wire'[c].at = "none" /\ (frames'[i].sent = "failed" => Over(c)')
    BY DEF AnswerInv
  <2>1. PICK j \in 1..Len(frames) : frames'[i] = frames[j]
    BY DEF Answers
  <2>2. stage[c] \in Sent /\ wire[c].at = "none" /\ (frames[j].sent = "failed" => Over(c))
    BY <2>1 DEF AnswerInv
  <2> QED
    BY <1>2, <2>1, <2>2 DEF Moves, Sent
<1> QED
  BY <1>3, <1>4

(* A step in which a message that waits for the task goes nowhere else. *)
LEMMA WaitedStep ==
  ASSUME WaitedInv, TypeOK, UNCHANGED <<accepted, waited>>,
         \A c \in Sends : Moves(c) /\ (stage'[c] # stage[c] => stage[c] # "wait"),
         \A c \in Sends : stage[c] # "deliver",
         \A c \in Sends : wire'[c].at # "none" => wire[c].at # "none" /\ wire'[c].to = wire[c].to
  PROVE  WaitedInv'
<1> SUFFICES ASSUME NEW c \in waited
             PROVE  /\ stage'[c] \in Sent \cup {"wait", "deliver"}
                    /\ stage'[c] = "deliver" => session' \notin Old
                    /\ wire'[c].at # "none" => wire'[c].to \notin Old
                    /\ accepted'[c] \notin Old
  BY DEF WaitedInv
<1>1. c \in Sends /\ stage[c] \in Sent \cup {"wait"}
  BY DEF WaitedInv, TypeOK
<1> QED
  BY <1>1 DEF WaitedInv, Moves, Sent

(* Giving up what was sent. *)
LEMMA GivenUp ==
  ASSUME TypeOK, NEW st \in [Sends -> Stages], stage' = Abandoned(st), wire' = Adrift
  PROVE  \A c \in Sends : /\ stage'[c] = IF st[c] = "pending" THEN "unconfirmed" ELSE st[c]
                          /\ wire'[c].at # "none" => wire[c].at # "none"
                          /\ wire'[c].to = wire[c].to
<1> SUFFICES ASSUME NEW c \in Sends
             PROVE  /\ stage'[c] = IF st[c] = "pending" THEN "unconfirmed" ELSE st[c]
                    /\ wire'[c].at # "none" => wire[c].at # "none"
                    /\ wire'[c].to = wire[c].to
  OBVIOUS
<1>1. wire[c] \in [at : {"none", "here", "adrift"}, to : Sessions \cup {None}]
  BY DEF TypeOK
<1> QED
  BY <1>1 DEF Abandoned, Adrift

(* Whoever waited for the stream is told that it was replaced. *)
LEMMA ToldWaiter ==
  ASSUME TypeOK, settled' = Cancelled \/ settled' = Kept
  PROVE  settled' # None => settled'.who = stream.waiter /\ (settled' = Cancelled => ~settled'.isKept)
  BY DEF Cancelled, Kept

(* A stream is attached. *)
LEMMA AttachStep ==
  ASSUME TypeOK, IInv, Quiet, UNCHANGED <<server, waited>>,
         NEW s \in Sessions, NEW w \in Waiters, NEW st, Attach(s, w, st),
         \/ w \notin Sends /\ st = stage
         \/ w \in Sends /\ stage[w] \in {"list", "ask"} /\ st = [stage EXCEPT ![w] = "join"],
         w = "task" => s \notin Old,
         task'.at = "posted" => task' = task,
         asker'.who \in Sends => asker' = asker /\ (asker.who # w \/ stage[w] = "list")
  PROVE  IInv'
<1> USE DEF IInv
<1>1. st \in [Sends -> Stages]
  <2>1. stage \in [Sends -> Stages] /\ "join" \in Stages
    BY DEF TypeOK, Stages, UnderWay
  <2> QED
    BY <2>1
<1>2. \A c \in Sends : /\ stage'[c] = IF st[c] = "pending" THEN "unconfirmed" ELSE st[c]
                       /\ wire'[c].at # "none" => wire[c].at # "none"
                       /\ wire'[c].to = wire[c].to
  BY <1>1, GivenUp DEF Attach
<1>3. \A c \in Sends : c # w => st[c] = stage[c]
  BY DEF TypeOK
<1>4. w \in Sends => st[w] = "join"
  BY DEF TypeOK
<1>5. \A c \in Sends : Moves(c) /\ (stage'[c] # stage[c] => stage[c] # "wait") /\ stage[c] # "deliver"
  BY <1>2, <1>3, <1>4 DEF Moves, Sent, Quiet
<1>6. frames' = <<>>
  BY DEF Attach
<1>7. WayInv' /\ AnswerInv'
  BY <1>2, <1>5, <1>6, CalmStep DEF server
<1>8. WaitedInv'
  BY <1>2, <1>5, WaitedStep DEF server
<1>9. stream'.waiter = w /\ session' = s
  BY DEF Attach
<1>10. settled' # None => settled'.who = stream.waiter /\ ~settled'.isKept
  BY ToldWaiter DEF Attach
<1>11. stream.waiter \in Sends => stream.waiter # w /\ stage'[stream.waiter] = "join"
  BY <1>2, <1>3 DEF WaiterInv
<1>12. w \in Sends => stage'[w] = "join"
  BY <1>2, <1>4
<1>13. asker'.who \in Sends => stage'[asker'.who] = "ask"
  BY <1>2, <1>3 DEF WaiterInv
<1>14. WaiterInv'
  BY <1>9, <1>10, <1>11, <1>12, <1>13 DEF WaiterInv
<1>15. NewInv'
  BY <1>9, <1>10 DEF NewInv, server
<1> QED
  BY <1>7, <1>8, <1>14, <1>15

(* A message goes on, and nothing else changes. *)
LEMMA StagedStep ==
  ASSUME TypeOK, IInv, Quiet, UNCHANGED <<server, waited, task>>,
         NEW c \in Sends, NEW where, Staged(c, where),
         stage[c] \in {"idle", "prepare", "list", "ask"}, where \notin Sent \ {"failed"},
         asker'.who \in Sends =>
           (asker' = asker /\ stage[c] # "ask") \/ (asker'.who = c /\ where = "ask")
  PROVE  IInv'
<1> USE DEF IInv
<1>1. stage' = [stage EXCEPT ![c] = where] /\ UNCHANGED <<session, stream, settled, frames, wire>>
  BY DEF Staged, At
<1>2. \A d \in Sends : d # c => stage'[d] = stage[d]
  BY <1>1 DEF TypeOK
<1>3. stage'[c] = where
  BY <1>1 DEF TypeOK
<1>4. \A d \in Sends : Moves(d) /\ (stage'[d] # stage[d] => stage[d] # "wait") /\ stage[d] # "deliver"
  BY <1>2, <1>3 DEF Moves, Sent, Quiet
<1>5. WayInv' /\ AnswerInv'
  BY <1>1, <1>4, CalmStep DEF server
<1>6. WaitedInv'
  BY <1>1, <1>4, WaitedStep DEF server
<1>7. WaiterInv'
  BY <1>1, <1>2, <1>3 DEF WaiterInv, Quiet
<1>8. NewInv'
  BY <1>1 DEF NewInv, server
<1> QED
  BY <1>5, <1>6, <1>7, <1>8

(* Nothing changes for the messages. *)
LEMMA StillStep ==
  ASSUME TypeOK, IInv, UNCHANGED <<accepted, session, stream, settled, stage, wire, waited>>, status' = status \/ EndedStay,
         \A i \in 1..Len(frames') : frames'[i].type = "result" => \E j \in 1..Len(frames) : frames'[i] = frames[j],
         \A s \in Old : status'[s] # "new",
         task'.at = "posted" => task'.made \notin Old,
         asker'.who \in Sends => asker' = asker
  PROVE  IInv'
<1> USE DEF IInv
<1>1. WayInv' /\ AnswerInv'
  BY CalmStep DEF Moves
<1>2. WaitedInv' /\ WaiterInv' /\ NewInv'
  BY DEF WaitedInv, WaiterInv, NewInv
<1> QED
  BY <1>1, <1>2

(* A conversation is opened, or the button of a running one pressed again. *)
LEMMA ResumeStep ==
  ASSUME TypeOK, IInv, Quiet, UNCHANGED <<server, waited, task>>,
         NEW s \in Sessions, NEW c \in Sends, stage[c] \in {"list", "ask"},
         Resume(s, c, [stage EXCEPT ![c] = "join"], [stage EXCEPT ![c] = "send"]),
         asker'.who \in Sends => asker' = asker /\ stage[c] = "list"
  PROVE  IInv'
<1>1. CASE session # s \/ ~isConnected
  <2>1. Attach(s, c, [stage EXCEPT ![c] = "join"])
    BY <1>1 DEF Resume
  <2>2. c \in Waiters /\ c # "task"
    BY DEF Waiters
  <2> QED
    BY <2>1, <2>2, AttachStep DEF IInv, NewInv
<1>2. CASE ~(session # s \/ ~isConnected)
  <2>1. Staged(c, "send")
    BY <1>2 DEF Resume, Staged, At
  <2> QED
    BY <2>1, StagedStep DEF Sent
<1> QED
  BY <1>1, <1>2

(* A task that is begun has started no conversation yet. *)
LEMMA BegunTask ==
  ASSUME TypeOK, IInv, NEW r, NEW h, StartTask(r, h)
  PROVE  task'.at = "posted" => task' = task /\ task'.made \notin Old
<1>1. task' = task \/ \E a \in {"scan", "post"} : task' = [at |-> a, resume |-> r, harness |-> h, made |-> None]
  BY DEF StartTask, Begun, Idle
<1> QED
  BY <1>1 DEF IInv, NewInv

(* The buttons. *)
LEMMA PersonStep == TypeOK /\ IInv /\ Quiet /\ Person => IInv'
<1> SUFFICES ASSUME TypeOK, IInv, Quiet, Person PROVE IInv'
  OBVIOUS
<1>1. CASE NewConversation
  <2>1. task'.at = "posted" => task'.made \notin Old
    BY <1>1, BegunTask DEF NewConversation
  <2> QED
    BY <1>1, <2>1, StillStep DEF NewConversation, IInv, NewInv, server, ask
<1>2. CASE RefreshCatalog
  BY <1>2, StillStep DEF RefreshCatalog, IInv, NewInv, server, link, ask
<1>3. CASE Close
  BY <1>3, StillStep DEF Close, IInv, NewInv, server, link, ask
<1>4. ASSUME NEW s \in Sessions, Select(s) PROVE IInv'
  <2>1. CASE sessions[s] = "closed"
    <3>1. task'.at = "posted" => task'.made \notin Old
      BY <1>4, <2>1, BegunTask DEF Select
    <3> QED
      BY <1>4, <2>1, <3>1, StillStep DEF Select, IInv, NewInv, server, ask
  <2>2. CASE sessions[s] # "closed"
    <3>1. Resume(s, "user", stage, stage) /\ UNCHANGED <<task, server, ask, waited>>
      BY <1>4, <2>2 DEF Select
    <3>2. CASE session # s \/ ~isConnected
      <4>1. Attach(s, "user", stage)
        BY <3>1, <3>2 DEF Resume
      <4>2. "user" \in Waiters /\ "user" \notin Sends
        BY DEF Waiters
      <4> QED
        BY <3>1, <4>1, <4>2, AttachStep DEF ask
    <3>3. CASE ~(session # s \/ ~isConnected)
      BY <3>1, <3>3, StillStep DEF Resume, IInv, NewInv, server, ask
    <3> QED
      BY <3>2, <3>3
  <2> QED
    BY <2>1, <2>2
<1>5. ASSUME NEW h \in Harnesses, SetHarness(h) PROVE IInv'
  BY <1>5, StillStep DEF SetHarness, IInv, NewInv, server, link, ask
<1>6. ASSUME NEW c \in Composed, Compose(c) PROVE IInv'
  BY <1>6, StagedStep DEF Compose, Sends, Sent, ask, IInv, WaiterInv
<1> QED
  BY <1>1, <1>2, <1>3, <1>4, <1>5, <1>6 DEF Person

(* What the task does. *)
LEMMA TaskStep == TypeOK /\ IInv /\ Quiet /\ (Scan \/ Post \/ Refuse \/ Posted) => IInv'
<1> SUFFICES ASSUME TypeOK, IInv, Quiet, Scan \/ Post \/ Refuse \/ Posted PROVE IInv'
  OBVIOUS
<1>1. CASE Scan
  <2>1. task'.at # "posted"
    BY <1>1 DEF Scan, TypeOK
  <2>2. asker'.who \in Sends => asker' = asker
    BY <1>1 DEF Scan, ask
  <2> QED
    BY <1>1, <2>1, <2>2, StillStep DEF Scan, IInv, NewInv, server, link
<1>2. CASE Post
  <2>1. PICK s \in Fresh(task.harness) :
          /\ status' = [t \in Sessions |-> IF t = s THEN "live"
                       ELSE IF t = task.resume /\ status[t] = "closed" THEN "gone" ELSE status[t]]
          /\ task' = [task EXCEPT !.at = "posted", !.made = s]
    BY <1>2 DEF Post
  <2>2. s \notin Old /\ task'.made = s
    BY <2>1 DEF Fresh, IInv, NewInv, TypeOK
  <2>3. \A t \in Old : status'[t] # "new"
    BY <2>1 DEF IInv, NewInv
  <2>4. EndedStay
    BY <2>1 DEF EndedStay, Ended, Fresh
  <2> QED
    BY <1>2, <2>2, <2>3, <2>4, StillStep DEF Post, link, ask
<1>3. CASE Refuse
  <2>1. settled' = [who |-> "task", isKept |-> FALSE] /\ task'.at # "posted"
    BY <1>3 DEF Refuse, TypeOK
  <2>2. UNCHANGED <<server, asker, session, stream, frames, stage, wire, waited>>
    BY <1>3 DEF Refuse, ask
  <2>3. WayInv' /\ AnswerInv'
    BY <2>2, CalmStep DEF IInv, Moves, server
  <2> QED
    BY <2>1, <2>2, <2>3 DEF IInv, WaitedInv, WaiterInv, NewInv, server
<1>4. CASE Posted
  <2>1. task.made \in Sessions /\ task.made \notin Old /\ task'.at # "posted"
    BY <1>4 DEF Posted, TypeOK, IInv, NewInv
  <2>2. "task" \in Waiters /\ "task" \notin Sends
    BY DEF Waiters
  <2> QED
    BY <1>4, <2>1, <2>2, AttachStep DEF Posted, ask
<1> QED
  BY <1>1, <1>2, <1>3, <1>4

(* The list of conversations. *)
LEMMA ListStep == TypeOK /\ IInv /\ Quiet /\ (AnswerCatalog \/ TakeCatalog \/ CatalogFails) => IInv'
<1> SUFFICES ASSUME TypeOK, IInv, Quiet, AnswerCatalog \/ TakeCatalog \/ CatalogFails PROVE IInv'
  OBVIOUS
<1>1. CASE AnswerCatalog \/ CatalogFails
  BY <1>1, StillStep DEF AnswerCatalog, CatalogFails, IInv, NewInv, server, link, ask
<1>2. CASE TakeCatalog
  <2>1. CASE shouldRestore /\ MayRestore(catalog.saved)
    <3>1. Attach(catalog.saved, "restore", stage) /\ catalog.saved \in Sessions
      BY <1>2, <2>1 DEF TakeCatalog, MayRestore, TypeOK
    <3>2. "restore" \in Waiters /\ "restore" \notin Sends
      BY DEF Waiters
    <3> QED
      BY <1>2, <3>1, <3>2, AttachStep DEF TakeCatalog, ask
  <2>2. CASE ~(shouldRestore /\ MayRestore(catalog.saved))
    BY <1>2, <2>2, StillStep DEF TakeCatalog, IInv, NewInv, server, ask
  <2> QED
    BY <2>1, <2>2
<1> QED
  BY <1>1, <1>2

(* Other frames than answers are added. *)
LEMMA NoAnswer ==
  ASSUME TypeOK, NEW kind \in {"end", "error"}, frames' = frames \/ frames' = Append(frames, [type |-> kind])
  PROVE  \A i \in 1..Len(frames') : frames'[i].type = "result" => \E j \in 1..Len(frames) : frames'[i] = frames[j]
<1>1. CASE frames' = frames
  BY <1>1
<1>2. CASE frames' = Append(frames, [type |-> kind])
  <2>1. [type |-> kind] \in Frames /\ frames \in Seq(Frames) /\ Len(frames) \in Nat
    BY DEF Frames, TypeOK
  <2>2. /\ Len(frames') = Len(frames) + 1 /\ frames'[Len(frames) + 1] = [type |-> kind]
        /\ \A i \in 1..Len(frames) : frames'[i] = frames[i]
    BY <1>2, <2>1, Appended
  <2>3. \A i \in 1..Len(frames') : i \in 1..Len(frames) \/ i = Len(frames) + 1
    BY <2>1, <2>2
  <2> QED
    BY <2>2, <2>3
<1> QED
  BY <1>1, <1>2

(* The end of a conversation. *)
LEMMA CloseStep ==
  TypeOK /\ IInv /\ Quiet /\ (CloseSession \/ Closed \/ CloseFails \/ \E s \in Sessions : CloseByOthers(s) \/ Exit(s)) => IInv'
<1> SUFFICES ASSUME TypeOK, IInv, Quiet, CloseSession \/ Closed \/ CloseFails \/ \E s \in Sessions : CloseByOthers(s) \/ Exit(s)
             PROVE  IInv'
  OBVIOUS
<1>1. ASSUME NEW s \in Sessions, EndSession(s) PROVE IInv'
  <2>1. frames' = frames \/ frames' = Append(frames, [type |-> "end"])
    BY <1>1 DEF EndSession, Told
  <2>3. \A i \in 1..Len(frames') : frames'[i].type = "result" => \E j \in 1..Len(frames) : frames'[i] = frames[j]
    BY <2>1, NoAnswer
  <2>5. EndedStay
    BY <1>1 DEF EndSession, EndedStay, Ended, TypeOK
  <2>4. \A t \in Old : status'[t] # "new"
    BY <1>1 DEF EndSession, IInv, NewInv, TypeOK
  <2> QED
    BY <1>1, <2>3, <2>4, <2>5, StillStep DEF EndSession, IInv, NewInv, ask
<1>2. CASE CloseSession
  <2>1. CASE EndSession(closing.of)
    BY <1>1, <1>2, <2>1 DEF CloseSession, TypeOK
  <2>2. CASE ~EndSession(closing.of)
    BY <1>2, <2>2, StillStep DEF CloseSession, IInv, NewInv, server, link, ask
  <2> QED
    BY <2>1, <2>2
<1>3. CASE Closed
  <2>1. /\ session' = None /\ stream' = NoStream /\ settled' = Cancelled /\ frames' = <<>>
        /\ stage' = Abandoned(stage) /\ wire' = Adrift /\ UNCHANGED <<server, task, asker, waited>>
    BY <1>3 DEF Closed, ask
  <2>2. \A c \in Sends : /\ stage'[c] = IF stage[c] = "pending" THEN "unconfirmed" ELSE stage[c]
                         /\ wire'[c].at # "none" => wire[c].at # "none"
                         /\ wire'[c].to = wire[c].to
    BY <2>1, GivenUp DEF TypeOK
  <2>3. \A c \in Sends : Moves(c) /\ (stage'[c] # stage[c] => stage[c] # "wait") /\ stage[c] # "deliver"
    BY <2>2 DEF Moves, Quiet
  <2>4. WayInv' /\ AnswerInv'
    BY <2>1, <2>2, <2>3, CalmStep DEF IInv, server
  <2>5. WaitedInv'
    BY <2>1, <2>2, <2>3, WaitedStep DEF IInv, server
  <2>6. settled' # None => settled'.who = stream.waiter /\ ~settled'.isKept
    BY <2>1, ToldWaiter
  <2>7. stream'.waiter = None
    BY <2>1 DEF NoStream
  <2>8. WaiterInv'
    BY <2>1, <2>2, <2>6, <2>7 DEF IInv, WaiterInv
  <2>9. NewInv'
    BY <2>1, <2>6, <2>7 DEF IInv, NewInv, server
  <2> QED
    BY <2>4, <2>5, <2>8, <2>9 DEF IInv
<1>4. CASE CloseFails
  BY <1>4, StillStep DEF CloseFails, IInv, NewInv, server, link, ask
<1>5. ASSUME NEW s \in Sessions, CloseByOthers(s) PROVE IInv'
  BY <1>1, <1>5 DEF CloseByOthers
<1>6. ASSUME NEW s \in Sessions, Exit(s) PROVE IInv'
  <2>1. EndedStay /\ \A t \in Old : status'[t] # "new"
    BY <1>6 DEF Exit, EndedStay, Ended, TypeOK, IInv, NewInv
  <2> QED
    BY <1>6, <2>1, StillStep DEF Exit, IInv, NewInv, link, ask
<1> QED
  BY <1>2, <1>3, <1>4, <1>5, <1>6

(* A message before it is sent, and one that is not answered in time. *)
LEMMA PrepareStep ==
  ASSUME TypeOK, IInv, Quiet, NEW c \in Sends,
         Prepared(c) \/ Request(c) \/ Listed(c) \/ ListFails(c) \/ TimeOut(c)
  PROVE  IInv'
<1>1. asker.who \in Sends => stage[asker.who] = "ask"
  BY DEF IInv, WaiterInv
<1>2. CASE Prepared(c) \/ Request(c) \/ ListFails(c)
  <2>1. PICK where \in {"send", "failed", "list"} : Staged(c, where)
    BY <1>2 DEF Prepared, Request, ListFails
  <2>2. stage[c] \in {"idle", "prepare", "list"} /\ UNCHANGED <<server, waited, task, asker>>
    BY <1>2 DEF Prepared, Request, ListFails, ask
  <2> QED
    BY <2>1, <2>2, StagedStep DEF Sent
<1>3. CASE Listed(c)
  <2>1. stage[c] = "list" /\ UNCHANGED <<server, waited, task>>
    BY <1>3 DEF Listed
  <2>2. CASE Staged(c, "send") /\ UNCHANGED ask
    BY <2>1, <2>2, StagedStep DEF Sent, ask
  <2>3. CASE Staged(c, "ask") /\ asker'.who = c
    BY <2>1, <2>3, StagedStep DEF Sent
  <2>4. ASSUME NEW s \in Sessions, UNCHANGED ask,
               Resume(s, c, [stage EXCEPT ![c] = "join"], [stage EXCEPT ![c] = "send"])
        PROVE  IInv'
    BY <2>1, <2>4, ResumeStep DEF ask
  <2>5. \/ Staged(c, "send") /\ UNCHANGED ask
        \/ Staged(c, "ask") /\ asker'.who = c
        \/ /\ UNCHANGED ask
           /\ \E s \in Sessions : Resume(s, c, [stage EXCEPT ![c] = "join"], [stage EXCEPT ![c] = "send"])
    <3>1. \A running : asker' = [who |-> c, choices |-> running] => asker'.who = c
      OBVIOUS
    <3> QED
      BY <1>3, <3>1, ListedRuns
  <2> QED
    BY <2>2, <2>3, <2>4, <2>5
<1>4. CASE TimeOut(c)
  <2>1. /\ stage' = [stage EXCEPT ![c] = "unconfirmed"] /\ stage[c] = "pending"
        /\ UNCHANGED <<server, waited, task, asker, session, stream, settled, frames, wire>>
    BY <1>4 DEF TimeOut, Staged, At, ask
  <2>2. \A d \in Sends : Moves(d) /\ (stage'[d] # stage[d] => stage[d] = "pending")
    BY <2>1 DEF Moves, TypeOK
  <2>3. WayInv' /\ AnswerInv'
    BY <2>1, <2>2, CalmStep DEF IInv, server
  <2>4. WaitedInv'
    BY <2>1, <2>2, WaitedStep DEF IInv, server, Quiet
  <2>5. WaiterInv' /\ NewInv'
    BY <2>1, <2>2 DEF IInv, WaiterInv, NewInv, server
  <2> QED
    BY <2>3, <2>4, <2>5 DEF IInv
<1> QED
  BY <1>2, <1>3, <1>4

(* The sending: a message waits for the task that runs, or for the one it begins. *)
LEMMA SendStep == ASSUME TypeOK, IInv, NEW c \in Sends, Send(c) PROVE IInv'
<1>1. UNCHANGED <<server, sessions, asker, session, stream, settled, frames, wire>> /\ stage[c] = "send"
  BY DEF Send, ask
<1>2. PICK where \in {"wait", "deliver"} :
        stage' = [stage EXCEPT ![c] = where] /\ (where = "deliver" => waited' = waited)
  BY DEF Send, At
<1>3. waited' = waited \/ (waited' = waited \cup {c} /\ where = "wait")
  <2>1. CASE task.at = "none"
    BY <2>1 DEF Send
  <2>2. CASE task.at # "none"
    <3>1. stage' = [stage EXCEPT ![c] = "wait"] /\ waited' = waited \cup {c}
      BY <2>2 DEF Send, At
    <3>2. where = "wait"
      BY <1>2, <3>1 DEF TypeOK
    <3> QED
      BY <3>1, <3>2
  <2> QED
    BY <2>1, <2>2
<1>4. stage'[c] = where /\ \A d \in Sends : d # c => stage'[d] = stage[d]
  BY <1>2 DEF TypeOK
<1>5. c \notin waited
  BY <1>1 DEF IInv, WaitedInv, Sent
<1>6. \A d \in Sends : Moves(d)
  BY <1>1, <1>4 DEF Moves, Sent
<1>7. WayInv' /\ AnswerInv'
  BY <1>1, <1>6, CalmStep DEF IInv, server
<1>8. WaitedInv'
  <2> SUFFICES ASSUME NEW d \in waited'
               PROVE  /\ stage'[d] \in Sent \cup {"wait", "deliver"}
                      /\ stage'[d] = "deliver" => session' \notin Old
                      /\ wire'[d].at # "none" => wire'[d].to \notin Old
                      /\ accepted'[d] \notin Old
    BY DEF WaitedInv
  <2>1. CASE d = c
    <3>1. accepted[c] = None /\ wire[c].at = "none"
      BY <1>1 DEF IInv, WayInv, Sent
    <3> QED
      BY <1>1, <1>3, <1>4, <1>5, <2>1, <3>1 DEF server
  <2>2. CASE d # c
    BY <1>1, <1>3, <1>4, <2>2 DEF IInv, WaitedInv, server, TypeOK
  <2> QED
    BY <2>1, <2>2
<1>9. WaiterInv'
  BY <1>1, <1>4 DEF IInv, WaiterInv
<1>10. NewInv'
  <2>1. task' = task \/ StartTask(None, harness)
    BY DEF Send
  <2>2. task'.at = "posted" => task'.made \notin Old
    BY <2>1, BegunTask DEF IInv, NewInv
  <2> QED
    BY <1>1, <2>2 DEF IInv, NewInv, server
<1> QED
  BY <1>7, <1>8, <1>9, <1>10 DEF IInv

LEMMA DeliverStep == ASSUME TypeOK, IInv, NEW c \in Sends, Deliver(c) PROVE IInv'
<1>1. UNCHANGED <<server, task, asker, session, stream, settled, frames, waited>> /\ stage[c] = "deliver"
  BY DEF Deliver, ask
<1>2. \/ stage' = [stage EXCEPT ![c] = "pending"] /\ wire' = [wire EXCEPT ![c] = [at |-> "here", to |-> session]]
      \/ stage' = [stage EXCEPT ![c] = "failed"] /\ wire' = wire
  BY DEF Deliver, At
<1>3. accepted[c] = None /\ wire[c].at = "none"
  BY <1>1 DEF IInv, WayInv, Sent
<1>4. \A d \in Sends : d # c => stage'[d] = stage[d] /\ wire'[d] = wire[d]
  BY <1>2 DEF TypeOK
<1>5. \/ stage'[c] = "pending" /\ wire'[c] = [at |-> "here", to |-> session]
      \/ stage'[c] = "failed" /\ wire'[c] = wire[c]
  BY <1>2 DEF TypeOK
<1>6. WayInv'
  BY <1>1, <1>3, <1>4, <1>5 DEF IInv, WayInv, Sent, server, Over, Ended
<1>7. AnswerInv'
  <2>1. \A i \in 1..Len(frames) : ~Answers(frames[i], c)
    BY <1>1 DEF IInv, AnswerInv, Sent
  <2>2. AnswerInv /\ UNCHANGED <<status, accepted>>
    BY <1>1 DEF IInv, server
  <2> QED
    BY <1>1, <1>4, <2>1, <2>2 DEF AnswerInv, Over, Ended
<1>8. WaitedInv'
  <2> SUFFICES ASSUME NEW d \in waited
               PROVE  /\ stage'[d] \in Sent \cup {"wait", "deliver"}
                      /\ stage'[d] = "deliver" => session \notin Old
                      /\ wire'[d].at # "none" => wire'[d].to \notin Old
                      /\ accepted[d] \notin Old
    BY <1>1 DEF WaitedInv, server
  <2>1. d \in Sends
    BY DEF TypeOK
  <2> QED
    BY <1>1, <1>4, <1>5, <2>1 DEF IInv, WaitedInv, Sent
<1>9. WaiterInv' /\ NewInv'
  BY <1>1, <1>4 DEF IInv, WaiterInv, NewInv, server
<1> QED
  BY <1>6, <1>7, <1>8, <1>9 DEF IInv

(* The person's answer. *)
LEMMA DecideStep == TypeOK /\ IInv /\ Quiet /\ Decide => IInv'
<1> SUFFICES ASSUME TypeOK, IInv, Quiet, Decide PROVE IInv'
  OBVIOUS
<1>1. UNCHANGED <<server, waited>> /\ asker'.who \notin Sends /\ asker'.who = None
  BY DEF Decide
<1>2. CASE /\ asker.who = "task" /\ UNCHANGED <<session, stream, frames, stage, wire>>
           /\ task'.at # "posted" /\ (settled' = settled \/ settled' = [who |-> "task", isKept |-> FALSE])
  <2>1. WayInv' /\ AnswerInv'
    BY <1>1, <1>2, CalmStep DEF IInv, Moves, server
  <2> QED
    BY <1>1, <1>2, <2>1 DEF IInv, WaitedInv, WaiterInv, NewInv, server
<1>3. CASE asker.who \in Sends /\ UNCHANGED task /\ Staged(asker.who, "failed")
  <2>1. stage[asker.who] = "ask"
    BY <1>3 DEF IInv, WaiterInv
  <2> QED
    BY <1>1, <1>3, <2>1, StagedStep DEF Sent
<1>4. ASSUME asker.who \in Sends, UNCHANGED task, NEW s \in asker.choices,
             Resume(s, asker.who, [stage EXCEPT ![asker.who] = "join"], [stage EXCEPT ![asker.who] = "send"])
      PROVE  IInv'
  <2>1. stage[asker.who] = "ask" /\ s \in Sessions
    BY <1>4 DEF IInv, WaiterInv, TypeOK
  <2> QED
    BY <1>1, <1>4, <2>1, ResumeStep
<1>5. CASE asker.who = "task"
  <2>1. \E a \in {"post", "failing"} : task' = [task EXCEPT !.at = a]
    BY <1>5 DEF Decide
  <2>2. task'.at # "posted"
    BY <2>1 DEF TypeOK
  <2> QED
    BY <1>2, <1>5, <2>2 DEF Decide
<1>6. CASE asker.who # "task"
  BY <1>3, <1>4, <1>6 DEF Decide
<1> QED
  BY <1>5, <1>6

(* A promise is settled. *)
LEMMA SettleStep == TypeOK /\ IInv /\ Settle => IInv'
<1> SUFFICES ASSUME TypeOK, IInv, Settle PROVE IInv'
  OBVIOUS
<1>1. UNCHANGED <<server, asker, session, stream, frames, wire, waited>> /\ settled # None /\ settled' = None
  BY DEF Settle, ask
<1>2. CASE settled.who = "task"
  <2>1. task' = Idle
        /\ stage' = [c \in Sends |-> IF stage[c] # "wait" THEN stage[c] ELSE IF settled.isKept THEN "deliver" ELSE "failed"]
    BY <1>2 DEF Settle
  <2>2. \A c \in Sends : Moves(c)
    BY <2>1 DEF Moves, Sent
  <2>3. WayInv' /\ AnswerInv'
    BY <1>1, <2>2, CalmStep DEF IInv, server
  <2>4. WaitedInv'
    <3> SUFFICES ASSUME NEW c \in waited
                 PROVE  /\ stage'[c] \in Sent \cup {"wait", "deliver"}
                        /\ stage'[c] = "deliver" => session \notin Old
                        /\ wire[c].at # "none" => wire[c].to \notin Old
                        /\ accepted[c] \notin Old
      BY <1>1 DEF WaitedInv, server
    <3>1. c \in Sends
      BY DEF TypeOK
    <3> QED
      BY <1>1, <1>2, <2>1, <3>1 DEF IInv, WaitedInv, NewInv, Sent
  <2>5. WaiterInv' /\ NewInv'
    BY <1>1, <2>1 DEF IInv, WaiterInv, NewInv, server, Idle
  <2> QED
    BY <2>3, <2>4, <2>5 DEF IInv
<1>3. CASE settled.who \in Sends /\ settled.who # "task"
  <2>1. PICK where \in {"send", "failed"} : stage' = [stage EXCEPT ![settled.who] = where] /\ task' = task
    BY <1>3 DEF Settle, At
  <2>2. stage[settled.who] = "join" /\ stream.waiter # settled.who
    BY <1>1, <1>3 DEF IInv, WaiterInv
  <2>3. stage'[settled.who] = where /\ \A c \in Sends : c # settled.who => stage'[c] = stage[c]
    BY <1>3, <2>1 DEF TypeOK
  <2>4. \A c \in Sends : Moves(c)
    BY <2>2, <2>3 DEF Moves, Sent
  <2>5. WayInv' /\ AnswerInv'
    BY <1>1, <2>4, CalmStep DEF IInv, server
  <2>6. settled.who \notin waited
    BY <2>2 DEF IInv, WaitedInv, Sent
  <2>7. WaitedInv'
    BY <1>1, <2>3, <2>6 DEF IInv, WaitedInv, server, TypeOK
  <2>8. WaiterInv' /\ NewInv'
    BY <1>1, <2>1, <2>2, <2>3 DEF IInv, WaiterInv, NewInv, server
  <2> QED
    BY <2>5, <2>7, <2>8 DEF IInv
<1>4. CASE settled.who \notin Sends /\ settled.who # "task"
  <2>1. UNCHANGED <<task, stage>>
    BY <1>4 DEF Settle
  <2>2. WayInv' /\ AnswerInv'
    BY <1>1, <2>1, CalmStep DEF IInv, Moves, server
  <2> QED
    BY <1>1, <2>1, <2>2 DEF IInv, WaitedInv, WaiterInv, NewInv, server
<1> QED
  BY <1>2, <1>3, <1>4

(* The connection. *)
LEMMA ConnectionStep == TypeOK /\ IInv /\ Quiet /\ (Dial \/ Break \/ CommandFails) => IInv'
<1> SUFFICES ASSUME TypeOK, IInv, Quiet, Dial \/ Break \/ CommandFails PROVE IInv'
  OBVIOUS
<1>1. CASE Dial
  <2>1. /\ UNCHANGED <<server, task, asker, session, settled, stage, wire, waited>>
        /\ stream'.waiter = stream.waiter
    BY <1>1 DEF Dial, ask, TypeOK
  <2>2. \E f \in {[type |-> "snapshot"], [type |-> "end"]} : frames' = <<f>> /\ f.type # "result"
    BY <1>1 DEF Dial
  <2>3. \A i \in 1..Len(frames') : frames'[i].type # "result"
    BY <2>2, Single
  <2>4. WayInv' /\ AnswerInv'
    BY <2>1, <2>3, CalmStep DEF IInv, Moves, server
  <2> QED
    BY <2>1, <2>4 DEF IInv, WaitedInv, WaiterInv, NewInv, server
<1>2. CASE Break
  <2>1. /\ UNCHANGED <<server, task, asker, session, settled, waited>> /\ stream'.waiter = stream.waiter
        /\ stage' = Abandoned(stage) /\ wire' = Adrift /\ frames' = <<>>
    BY <1>2 DEF Break, ask, TypeOK
  <2>2. \A c \in Sends : /\ stage'[c] = IF stage[c] = "pending" THEN "unconfirmed" ELSE stage[c]
                         /\ wire'[c].at # "none" => wire[c].at # "none"
                         /\ wire'[c].to = wire[c].to
    BY <2>1, GivenUp DEF TypeOK
  <2>3. \A c \in Sends : Moves(c) /\ (stage'[c] # stage[c] => stage[c] # "wait") /\ stage[c] # "deliver"
    BY <2>2 DEF Moves, Quiet
  <2>4. WayInv' /\ AnswerInv'
    BY <2>1, <2>2, <2>3, CalmStep DEF IInv, server
  <2>5. WaitedInv'
    BY <2>1, <2>2, <2>3, WaitedStep DEF IInv, server
  <2>6. WaiterInv' /\ NewInv'
    BY <2>1, <2>2 DEF IInv, WaiterInv, NewInv, server
  <2> QED
    BY <2>4, <2>5, <2>6 DEF IInv
<1>3. CASE CommandFails
  <2>1. UNCHANGED <<server, task, asker, session, stream, settled, stage, wire, waited>>
    BY <1>3 DEF CommandFails, ask
  <2>2. frames' = Append(frames, [type |-> "error"]) /\ [type |-> "error"].type # "result"
    BY <1>3 DEF CommandFails
  <2>3. \A i \in 1..Len(frames') : frames'[i].type = "result" => \E j \in 1..Len(frames) : frames'[i] = frames[j]
    BY <2>2, NoAnswer
  <2> QED
    BY <2>1, <2>3, StillStep DEF IInv, NewInv, server
<1> QED
  BY <1>1, <1>2, <1>3

(* A message arrives, or is lost. *)
LEMMA ArriveStep == ASSUME TypeOK, IInv, Quiet, NEW c \in Sends, Take(c) \/ TakeAndExit(c) \/ Lose(c) PROVE IInv'
<1>1. /\ UNCHANGED <<task, asker, session, stream, settled, stage, waited>>
      /\ wire' = [wire EXCEPT ![c] = [at |-> "none", to |-> None]] /\ wire[c].at # "none"
  BY DEF Take, TakeAndExit, Answer, Lose, ask
<1>2. wire'[c].at = "none" /\ \A d \in Sends : d # c => wire'[d] = wire[d]
  BY <1>1 DEF TypeOK
<1>3. stage[c] \in {"pending", "unconfirmed"} /\ accepted[c] = None
  BY <1>1 DEF IInv, WayInv
<1>4. CASE Lose(c)
  <2>1. UNCHANGED <<status, accepted, frames>>
    BY <1>4 DEF Lose, server
  <2>2. WayInv' /\ AnswerInv'
    BY <1>1, <1>2, <2>1, CalmStep DEF IInv, Moves
  <2>3. WaitedInv'
    BY <1>1, <1>2, <2>1, WaitedStep DEF IInv, Moves, Quiet
  <2> QED
    BY <1>1, <2>1, <2>2, <2>3 DEF IInv, WaiterInv, NewInv
<1>5. CASE Take(c) \/ TakeAndExit(c)
  <2>0. accepted' = accepted \/ accepted' = [accepted EXCEPT ![c] = wire[c].to]
    BY <1>5, Zenon DEF Take, TakeAndExit, Accept
  <2>1. status' = status \/ (status[wire[c].to] = "live" /\ status' = [status EXCEPT ![wire[c].to] = "exited"])
    BY <1>5, Zenon DEF Take, TakeAndExit
  <2>2. \A d \in Sends : accepted'[d] = accepted[d] \/ (d = c /\ accepted'[d] = wire[c].to)
    BY <2>0 DEF TypeOK
  <2>3. status' = status \/ EndedStay
    BY <2>1 DEF EndedStay, Ended, TypeOK
  <2>4. \A d \in Sends : d # c => (Over(d) => Over(d)')
    <3> SUFFICES ASSUME NEW d \in Sends, d # c, Over(d) PROVE Over(d)'
      OBVIOUS
    <3>1. accepted'[d] = accepted[d] /\ accepted[d] \in Sessions \cup {None}
      BY <2>2 DEF TypeOK
    <3> QED
      BY <2>3, <3>1 DEF Over, EndedStay, Ended
  <2>5. WayInv'
    <3> SUFFICES ASSUME NEW d \in Sends
                 PROVE  /\ wire'[d].at # "none" => stage'[d] \in {"pending", "unconfirmed"} /\ accepted'[d] = None
                        /\ stage'[d] \notin Sent => accepted'[d] = None /\ wire'[d].at = "none"
                        /\ stage'[d] = "failed" => Over(d)' /\ wire'[d].at = "none"
      BY DEF WayInv
    <3>1. CASE d = c
      BY <1>1, <1>2, <1>3, <3>1 DEF Sent
    <3>2. CASE d # c
      BY <1>1, <1>2, <2>2, <2>4, <3>2 DEF IInv, WayInv
    <3> QED
      BY <3>1, <3>2
  <2>6. \A i \in 1..Len(frames) : ~Answers(frames[i], c)
    BY <1>1 DEF IInv, AnswerInv
  <2>7. PICK sent \in {"delivered", "unconfirmed", "failed"} :
          /\ frames' = IF wire[c].at = "here" THEN Append(frames, [type |-> "result", of |-> c, sent |-> sent]) ELSE frames
          /\ sent = "failed" => Over(c)'
    <3>1. CASE Take(c)
      <4>1. CASE Answer(c, "failed") /\ UNCHANGED accepted
        BY <1>3, <4>1 DEF Answer, Over
      <4>2. CASE Answer(c, "delivered") \/ Answer(c, "unconfirmed")
        BY <4>2 DEF Answer
      <4> QED
        BY <3>1, <4>1, <4>2 DEF Take
    <3>2. CASE TakeAndExit(c)
      <4>1. status' = [status EXCEPT ![wire[c].to] = "exited"] /\ status[wire[c].to] = "live"
        BY <3>2 DEF TakeAndExit
      <4>2. accepted'[c] = wire[c].to
        BY <3>2 DEF TakeAndExit, Accept, TypeOK
      <4>3. CASE HarnessOf[wire[c].to] = Codex
        <5>1. wire[c].to \in Sessions \cup {None}
          BY DEF TypeOK
        <5>2. CASE wire[c].to = None
          BY <3>2, <4>2, <4>3, <5>2 DEF TakeAndExit, Answer, Over
        <5>3. CASE wire[c].to \in Sessions
          <6>1. status'[wire[c].to] = "exited"
            BY <4>1, <5>3 DEF TypeOK
          <6> QED
            BY <3>2, <4>2, <4>3, <6>1 DEF TakeAndExit, Answer, Over, Ended
        <5> QED
          BY <5>1, <5>2, <5>3
      <4>4. CASE HarnessOf[wire[c].to] # Codex
        BY <3>2, <4>4 DEF TakeAndExit, Answer
      <4> QED
        BY <4>3, <4>4
    <3> QED
      BY <1>5, <3>1, <3>2
  <2>8. \A i \in 1..Len(frames') : \/ i \in 1..Len(frames) /\ frames'[i] = frames[i]
                                  \/ frames'[i] = [type |-> "result", of |-> c, sent |-> sent]
    <3>1. [type |-> "result", of |-> c, sent |-> sent] \in Frames
      BY DEF Frames
    <3>2. frames \in Seq(Frames) /\ Len(frames) \in Nat
      BY DEF TypeOK
    <3> QED
      BY <2>7, <3>1, <3>2, Appended
  <2>9. AnswerInv'
    <3> SUFFICES ASSUME NEW d \in Sends, NEW i \in 1..Len(frames'), Answers(frames'[i], d)
                 PROVE  stage'[d] \in Sent /\ wire'[d].at = "none" /\ (frames'[i].sent = "failed" => Over(d)')
      BY DEF AnswerInv, Answers
    <3>1. CASE i \in 1..Len(frames) /\ frames'[i] = frames[i]
      <4>1. d # c /\ stage[d] \in Sent /\ wire[d].at = "none" /\ (frames[i].sent = "failed" => Over(d))
        BY <2>6, <3>1 DEF IInv, AnswerInv
      <4> QED
        BY <1>1, <1>2, <2>4, <3>1, <4>1
    <3>2. CASE frames'[i] = [type |-> "result", of |-> c, sent |-> sent]
      <4>1. frames'[i].sent = sent /\ d = c
        BY <3>2 DEF Answers
      <4> QED
        BY <1>1, <1>2, <1>3, <2>7, <4>1 DEF Sent
    <3> QED
      BY <2>8, <3>1, <3>2
  <2>10. WaitedInv'
    <3> SUFFICES ASSUME NEW d \in waited
                 PROVE  /\ stage[d] \in Sent \cup {"wait", "deliver"}
                        /\ stage[d] = "deliver" => session \notin Old
                        /\ wire'[d].at # "none" => wire'[d].to \notin Old
                        /\ accepted'[d] \notin Old
      BY <1>1 DEF WaitedInv
    <3>1. d \in Sends
      BY DEF TypeOK
    <3> QED
      BY <1>1, <1>2, <2>2, <3>1 DEF IInv, WaitedInv
  <2>11. NewInv'
    <3>1. \A s \in Old : status'[s] # "new"
      BY <2>1 DEF IInv, NewInv, TypeOK
    <3> QED
      BY <1>1, <3>1 DEF IInv, NewInv
  <2> QED
    BY <1>1, <2>5, <2>9, <2>10, <2>11 DEF IInv, WaiterInv
<1> QED
  BY <1>4, <1>5

(* What comes over the stream. *)
LEMMA ReceiveStep == TypeOK /\ IInv /\ Quiet /\ Receive => IInv'
<1> SUFFICES ASSUME TypeOK, IInv, Quiet, Receive PROVE IInv'
  OBVIOUS
<1>1. /\ UNCHANGED <<server, task, asker, session, wire, waited>>
      /\ frames' = Tail(frames) /\ frames # <<>>
  BY DEF Receive, ask
<1>0. UNCHANGED <<status, accepted>> /\ NewInv
  BY <1>1 DEF server, IInv
<1>2. Head(frames) = frames[1] /\ 1 \in 1..Len(frames) /\ Head(frames) \in Frames
  BY <1>1, TailOf DEF TypeOK
<1>3. \A i \in 1..Len(frames') : \E j \in 1..Len(frames) : frames'[i] = frames[j]
  BY <1>1, TailOf DEF TypeOK
<1>4. CASE Head(frames).type = "snapshot"
  <2>1. settled' = Kept /\ stream'.waiter = None /\ stage' = stage
    BY <1>4 DEF Receive, TypeOK
  <2>2. settled' # None => settled'.who = stream.waiter
    BY <2>1, ToldWaiter
  <2>3. WayInv' /\ AnswerInv'
    BY <1>1, <1>3, <2>1, CalmStep DEF IInv, Moves, server
  <2>4. WaitedInv'
    BY <1>1, <2>1 DEF IInv, WaitedInv, server
  <2>5. WaiterInv'
    BY <1>1, <2>1, <2>2 DEF IInv, WaiterInv
  <2>6. NewInv'
    BY <1>0, <1>1, <2>1, <2>2 DEF NewInv
  <2> QED
    BY <2>3, <2>4, <2>5, <2>6 DEF IInv
<1>5. CASE Head(frames).type = "result"
  <2>1. Head(frames).of \in Sends /\ Head(frames).sent \in {"delivered", "unconfirmed", "failed"}
    BY <1>2, <1>5 DEF Frames
  <2>2. UNCHANGED <<settled, stream>>
    BY <1>5 DEF Receive
  <2>3. CASE stage' = stage
    <3>1. WayInv' /\ AnswerInv'
      BY <1>1, <1>3, <2>3, CalmStep DEF IInv, Moves, server
    <3> QED
      BY <1>1, <2>2, <2>3, <3>1 DEF IInv, WaitedInv, WaiterInv, NewInv, server
  <2>4. CASE stage' # stage
    <3> DEFINE c == Head(frames).of
    <3>1. /\ stage[c] = "pending"
          /\ stage' = [stage EXCEPT ![c] = Head(frames).sent]
      BY <1>5, <2>4 DEF Receive
    <3>2. /\ stage'[c] = Head(frames).sent
          /\ \A d \in Sends : d # c => stage'[d] = stage[d]
      BY <2>1, <3>1 DEF TypeOK
    <3>3. WayInv'
      <4>1. (Head(frames).sent = "failed" => Over(c)) /\ wire[c].at = "none"
        BY <1>2, <1>5, <2>1 DEF IInv, AnswerInv, Answers
      <4>2. \A d \in Sends : Over(d)' <=> Over(d)
        BY <1>0 DEF Over, Ended
      <4> QED
        BY <1>0, <1>1, <2>1, <3>1, <3>2, <4>1, <4>2 DEF IInv, WayInv, Sent
    <3>4. AnswerInv'
      <4> SUFFICES ASSUME NEW d \in Sends, NEW i \in 1..Len(frames'), Answers(frames'[i], d)
                   PROVE  stage'[d] \in Sent /\ wire'[d].at = "none" /\ (frames'[i].sent = "failed" => Over(d)')
        BY DEF AnswerInv, Answers
      <4>1. PICK j \in 1..Len(frames) : frames'[i] = frames[j]
        BY <1>3
      <4>2. stage[d] \in Sent /\ wire[d].at = "none" /\ (frames[j].sent = "failed" => Over(d))
        BY <4>1 DEF IInv, AnswerInv
      <4>3. stage'[d] \in Sent
        BY <2>1, <3>2, <4>2 DEF Sent
      <4>4. Over(d) => Over(d)'
        BY <1>0 DEF Over, Ended
      <4> QED
        BY <1>1, <4>1, <4>2, <4>3, <4>4
    <3>5. WaitedInv'
      <4>0. WaitedInv /\ stage[c] = "pending" /\ stage'[c] \in Sent /\ \A d \in Sends : d # c => stage'[d] = stage[d]
        BY <2>1, <3>1, <3>2 DEF IInv, Sent
      <4> SUFFICES ASSUME NEW d \in waited
                   PROVE  /\ stage'[d] \in Sent \cup {"wait", "deliver"}
                          /\ stage'[d] = "deliver" => session \notin Old
                          /\ wire[d].at # "none" => wire[d].to \notin Old
                          /\ accepted[d] \notin Old
        BY <1>1 DEF WaitedInv, server
      <4>1. d \in Sends
        BY DEF TypeOK
      <4> QED
        BY <4>0, <4>1 DEF WaitedInv, Sent
    <3>6. WaiterInv' /\ NewInv'
      BY <1>1, <2>1, <2>2, <3>1, <3>2 DEF IInv, WaiterInv, NewInv, server
    <3> QED
      BY <3>3, <3>4, <3>5, <3>6 DEF IInv
  <2> QED
    BY <2>3, <2>4
<1>6. CASE Head(frames).type = "end"
  <2>1. settled' = Cancelled /\ stream'.waiter = None /\ stage' = Abandoned(stage)
    BY <1>6 DEF Receive
  <2>2. settled' # None => settled'.who = stream.waiter /\ ~settled'.isKept
    BY <2>1, ToldWaiter
  <2>3. \A c \in Sends : stage'[c] = IF stage[c] = "pending" THEN "unconfirmed" ELSE stage[c]
    BY <2>1 DEF Abandoned
  <2>4. \A c \in Sends : Moves(c) /\ (stage'[c] # stage[c] => stage[c] # "wait") /\ stage[c] # "deliver"
    BY <2>3 DEF Moves, Quiet
  <2>5. WayInv' /\ AnswerInv'
    BY <1>1, <1>3, <2>4, CalmStep DEF IInv, server
  <2>6. WaitedInv'
    BY <1>1, <2>4, WaitedStep DEF IInv, server
  <2>7. WaiterInv'
    BY <1>1, <2>1, <2>2, <2>3 DEF IInv, WaiterInv
  <2>8. NewInv'
    BY <1>0, <1>1, <2>1, <2>2 DEF NewInv
  <2> QED
    BY <2>5, <2>6, <2>7, <2>8 DEF IInv
<1>7. CASE Head(frames).type = "error"
  <2>1. stage' = Abandoned(stage) /\ UNCHANGED <<settled, stream>>
    BY <1>7 DEF Receive
  <2>2. \A c \in Sends : stage'[c] = IF stage[c] = "pending" THEN "unconfirmed" ELSE stage[c]
    BY <2>1 DEF Abandoned
  <2>3. \A c \in Sends : Moves(c) /\ (stage'[c] # stage[c] => stage[c] # "wait") /\ stage[c] # "deliver"
    BY <2>2 DEF Moves, Quiet
  <2>4. WayInv' /\ AnswerInv'
    BY <1>1, <1>3, <2>3, CalmStep DEF IInv, server
  <2>5. WaitedInv'
    BY <1>1, <2>3, WaitedStep DEF IInv, server
  <2>6. WaiterInv' /\ NewInv'
    BY <1>0, <1>1, <2>1, <2>2 DEF IInv, WaiterInv, NewInv
  <2> QED
    BY <2>4, <2>5, <2>6 DEF IInv
<1> QED
  BY <1>2, <1>4, <1>5, <1>6, <1>7 DEF Frames

(* Every step keeps the invariant. *)
LEMMA NextIInv == TypeOK /\ IInv /\ [Next]_vars => IInv'
<1> SUFFICES ASSUME TypeOK, IInv, [Next]_vars PROVE IInv'
  OBVIOUS
<1>1. CASE Microtask
  BY <1>1, SettleStep, SendStep, DeliverStep DEF Microtask
<1>2. CASE Quiet /\ Work
  BY <1>2, TaskStep, ListStep, CloseStep, ConnectionStep, ReceiveStep, PrepareStep, ArriveStep DEF Work, NoneLeft
<1>3. CASE Quiet /\ Choice
  BY <1>3, DecideStep, PrepareStep DEF Choice
<1>4. CASE Quiet /\ Person
  BY <1>4, PersonStep
<1>5. CASE Quiet /\ Fault
  BY <1>5, TaskStep, ListStep, CloseStep, ConnectionStep, PrepareStep, ArriveStep DEF Fault, PostFails
<1>6. CASE UNCHANGED vars
  BY <1>6, StillStep DEF vars, server, ask, link, IInv, NewInv
<1> QED
  BY <1>1, <1>2, <1>3, <1>4, <1>5, <1>6 DEF Next

LEMMA Invariant == Spec => []IInv
  BY InitType, InitIInv, NextType, NextIInv, PTL DEF Spec

(* A message reported as failed is under way no more, and no running agent has taken it. *)
THEOREM FailuresAreFinal == Spec => []FailedIsNotAtWork
<1>1. IInv => FailedIsNotAtWork
  BY DEF IInv, WayInv, FailedIsNotAtWork, Over
<1> QED
  BY <1>1, Invariant, PTL

(* A message sent while a new conversation begins is taken by that one, or by none. *)
THEOREM WaitedMessagesGoToTheNew == Spec => []NewTakesTheMessage
<1>1. IInv => NewTakesTheMessage
  BY DEF IInv, WaitedInv, NewTakesTheMessage
<1> QED
  BY <1>1, Invariant, PTL
=============================================================================
