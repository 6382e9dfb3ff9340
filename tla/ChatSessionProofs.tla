---------------------------- MODULE ChatSessionProofs ----------------------------
(* What the status of a chat session tells, for any number of messages, turns and *)
(* requests, and any order of what Codex writes.                                   *)
EXTENDS ChatSession, TLAPS

USE ChatSessionAssumption

Item == [call : Nat, steers : BOOLEAN]
Started(i) == wire[i].kind = "started"
EndsAt(i) == Ends(wire[i])

(* Nothing waits for an answer in a closed session. *)
PendingInv == status = "closed" => pending = {}

(* A process that is gone runs no turn and hears nothing. *)
GoneInv == process # "up" => turn = None /\ inbox = <<>>
DoneInv == process = "done" => wire = <<>>

(* Turns begin and end in turn on the wire. *)
TurnInv ==
  /\ \A i, j \in 1..Len(wire) : i < j /\ EndsAt(i) /\ EndsAt(j) => \E k \in i..j : Started(k)
  /\ turn # None => \A i \in 1..Len(wire) : EndsAt(i) => \E k \in i..Len(wire) : Started(k)
  /\ turn = None /\ process = "up" => \A i \in 1..Len(wire) : Started(i) => \E k \in i..Len(wire) : EndsAt(k)

(* A failed session has no turn, so a turn it hears of begins first. *)
Between ==
  /\ \A j \in 1..Len(wire) : EndsAt(j) => \E k \in 1..j : Started(k)
  /\ turn # None => \E k \in 1..Len(wire) : Started(k)
FailedInv == status = "error" /\ retained => Between

(* Calls are answered once each, in their order; the last is the waiting one. *)
CallInv ==
  /\ \A i \in 1..Len(inbox) : inbox[i].call <= calls
  /\ \A i, j \in 1..Len(inbox) : i < j => inbox[i].call < inbox[j].call
  /\ \A i \in 1..Len(wire) : wire[i].kind \in {"accepted", "rejected"} => wire[i].call <= calls
  /\ send = "waiting" => \A i \in 1..Len(inbox) : inbox[i].call = calls => inbox[i].steers = steers

(* From here on the session's status is of no more interest. *)
Gone == ~retained \/ ~stdin \/ process # "up" \/ (status = "closed" /\ send # "checked")

(* A session that knows of a turn is active, and so is its status. *)
ActiveInv == ~Gone /\ turnID # None => active /\ (status = "closed" \/ HasActiveChatSession)

(* A message that found no turn cannot fail while one runs. *)
Over(i) == /\ \A j \in 1..i : Started(j) => \E k \in j..i : EndsAt(k)
           /\ turnID # None => \E k \in 1..i : EndsAt(k)
FreshInv == ~Gone /\ ~wasActive =>
  /\ send \in {"call", "waiting", "rejected"} => ~steers
  /\ send \in {"call", "waiting"} /\ turn = None => Over(Len(wire))
  /\ send = "waiting" => \A i \in 1..Len(wire) :
       wire[i].kind = "rejected" /\ wire[i].call = calls =>
         inbox = <<>> /\ Over(i) /\ \A j \in i..Len(wire) : ~Started(j)
  /\ send \in {"rejected", "failed"} =>
       inbox = <<>> /\ turnID = None /\ \A j \in 1..Len(wire) : ~Started(j)

-----------------------------------------------------------------------------
(* A sequence without its head. *)
LEMMA TailOf ==
  ASSUME NEW S, NEW s \in Seq(S), s # <<>>
  PROVE  /\ Tail(s) \in Seq(S) /\ Len(s) \in Nat \ {0} /\ Len(Tail(s)) = Len(s) - 1 /\ Head(s) = s[1] /\ s[1] \in S
         /\ \A i \in 1..(Len(s) - 1) : Tail(s)[i] = s[i + 1]
  OBVIOUS

(* One more element. *)
LEMMA OneMore ==
  ASSUME NEW S, NEW s \in Seq(S), NEW a \in S
  PROVE  /\ s \o <<a>> \in Seq(S) /\ Len(s) \in Nat /\ Len(s \o <<a>>) = Len(s) + 1
         /\ (s \o <<a>>)[Len(s) + 1] = a /\ \A i \in 1..Len(s) : (s \o <<a>>)[i] = s[i]
  OBVIOUS

(* Two more elements. *)
LEMMA TwoMore ==
  ASSUME NEW S, NEW s \in Seq(S), NEW a \in S, NEW b \in S
  PROVE  /\ s \o <<a, b>> \in Seq(S) /\ Len(s) \in Nat /\ Len(s \o <<a, b>>) = Len(s) + 2
         /\ (s \o <<a, b>>)[Len(s) + 1] = a /\ (s \o <<a, b>>)[Len(s) + 2] = b
         /\ \A i \in 1..Len(s) : (s \o <<a, b>>)[i] = s[i]
  OBVIOUS

(* Only a session that is not gone can become one that is not gone. *)
LEMMA GoneStays == TypeOK /\ PendingInv /\ Gone /\ [Next]_vars => Gone'
<1> SUFFICES ASSUME TypeOK, PendingInv, Gone, [Next]_vars PROVE Gone'
  OBVIOUS
<1> QED
  BY DEF TypeOK, PendingInv, Gone, Next, Devhost, Codex, Check, Dispatch, Call, StopWaiting, Retry, Fail, Answered,
     Close, CloseProcess, Receive, ReceiveFails, Reap, Monitor, Respond, Accept, Reject, EndTurn, Exit, Ask, Resolve,
     Settle, vars, session, sender, lifetime, codex

-----------------------------------------------------------------------------
(* The session starts with its types. *)
LEMMA InitType == Init => TypeOK
<1> SUFFICES ASSUME Init PROVE TypeOK
  OBVIOUS
<1>1. inbox \in Seq(Item) /\ wire \in Seq(Frames)
  BY DEF Init
<1>2. /\ status \in Statuses /\ turnID \in Turns \union {None} /\ turn \in Turns \union {None}
      /\ pending \subseteq Asks /\ asked \subseteq Asks
  BY DEF Init, Statuses
<1>3. sends \in 0..MaxSends /\ turns \in 0..MaxTurns /\ calls \in Nat
  BY DEF Init
<1>4. /\ send \in {"none", "checked", "call", "waiting", "accepted", "rejected", "failed"}
      /\ process \in {"up", "exited", "done"}
  BY DEF Init
<1>5. /\ active \in BOOLEAN /\ retained \in BOOLEAN /\ wasActive \in BOOLEAN /\ steers \in BOOLEAN
      /\ closing \in BOOLEAN /\ stdin \in BOOLEAN /\ monitored \in BOOLEAN
  BY DEF Init
<1> QED
  BY <1>1, <1>2, <1>3, <1>4, <1>5 DEF TypeOK, Item

(* A frame about a call, a turn or a request is one that Codex writes. *)
LEMMA FrameTypes ==
  /\ \A kind \in {"accepted", "rejected"}, n \in Nat : [kind |-> kind, call |-> n] \in Frames
  /\ \A kind \in {"started", "completed", "failed"}, n \in Turns : [kind |-> kind, turn |-> n] \in Frames
  /\ \A kind \in {"asks", "resolved"}, a \in Asks : [kind |-> kind, ask |-> a] \in Frames
  BY DEF Frames

(* What a frame is, and what it is about. *)
LEMMA FrameKinds ==
  ASSUME NEW f \in Frames
  PROVE  /\ f.kind \in {"accepted", "rejected", "started", "completed", "failed", "asks", "resolved"}
         /\ f.kind = "started" => f.turn \in Turns
         /\ Asked(f) \subseteq Asks
  BY DEF Frames, Asked

(* What a frame makes of the session is of its types. *)
LEMMA RecordTyped ==
  ASSUME TypeOK, NEW f \in Frames, Record(f)
  PROVE  /\ pending' \subseteq Asks /\ status' \in Statuses /\ turnID' \in Turns \union {None} /\ active' \in BOOLEAN
<1>1. pending' \subseteq Asks
  BY FrameKinds DEF TypeOK, Record
<1>2. status' \in Statuses
  <2>1. PICK open : status' = ReceivedStatus(f, open)
    BY DEF Record
  <2> QED
    BY <2>1 DEF TypeOK, ReceivedStatus, Statuses
<1>3. turnID' \in Turns \union {None}
  BY FrameKinds DEF TypeOK, Record
<1>4. active' \in BOOLEAN
  BY DEF TypeOK, Record
<1> QED
  BY <1>1, <1>2, <1>3, <1>4

(* Every step keeps the types. *)
LEMMA NextType == TypeOK /\ [Next]_vars => TypeOK'
<1> SUFFICES ASSUME TypeOK, [Next]_vars PROVE TypeOK'
  OBVIOUS
<1> USE DEF TypeOK
<1>0. inbox \in Seq(Item)
  BY DEF Item
<1>1. CASE Check
  BY <1>1 DEF Check, session, lifetime, codex
<1>2. CASE Dispatch
  BY <1>2 DEF Dispatch, session, lifetime, codex, Statuses
<1>13. CASE CloseProcess
  BY <1>13 DEF CloseProcess, session, sender, codex
<1>15. CASE StopWaiting \/ Answered
  BY <1>15 DEF StopWaiting, Answered, session, lifetime, codex
<1>16. CASE Retry
  BY <1>16 DEF Retry, session, lifetime, codex
<1>17. CASE Fail
  <2>1. status' \in Statuses /\ active' \in BOOLEAN
    BY <1>17 DEF Fail, Statuses
  <2> QED
    BY <1>17, <2>1 DEF Fail, lifetime, codex
<1>18. CASE Close
  BY <1>18 DEF Close, sender, codex, Statuses
<1>3. CASE Call
  <2>1. PICK item \in Item : inbox' = inbox \/ inbox' = Append(inbox, item)
    BY <1>3 DEF Call, Item
  <2>3. inbox' \in Seq(Item)
    BY <1>0, <2>1
  <2> QED
    BY <1>3, <2>3 DEF Call, session, lifetime, Item
<1>4. ASSUME NEW a \in Asks, Respond(a) PROVE TypeOK'
  BY <1>4 DEF Respond, sender, lifetime, codex, Statuses
<1>5. CASE Receive
  <2>1. Head(wire) \in Frames /\ wire' \in Seq(Frames)
    BY <1>5, TailOf DEF Receive
  <2>2. send' \in {"none", "checked", "call", "waiting", "accepted", "rejected", "failed"}
    BY <1>5 DEF Receive, Settle
  <2>3. /\ pending' \subseteq Asks /\ status' \in Statuses /\ turnID' \in Turns \union {None} /\ active' \in BOOLEAN
    BY <1>5, <2>1, RecordTyped DEF Receive
  <2> QED
    BY <1>5, <2>1, <2>2, <2>3 DEF Receive, lifetime
<1>6. CASE ReceiveFails
  <2>1. Head(wire) \in Frames /\ wire' \in Seq(Frames)
    BY <1>6, TailOf DEF ReceiveFails
  <2>2. send' \in {"none", "checked", "call", "waiting", "accepted", "rejected", "failed"}
    BY <1>6 DEF ReceiveFails, Settle
  <2>3. status' \in Statuses
    BY <1>6 DEF ReceiveFails, Statuses
  <2> QED
    BY <1>6, <2>1, <2>2, <2>3 DEF ReceiveFails, lifetime
<1>7. CASE Reap
  BY <1>7 DEF Reap, session, sender, codex
<1>19. CASE Monitor
  BY <1>19 DEF Monitor, sender, codex, Statuses
<1>8. CASE Accept \/ Reject
  <2>1. Head(inbox).call \in Nat /\ inbox' \in Seq([call : Nat, steers : BOOLEAN])
    <3>1. inbox # <<>> /\ inbox' = Tail(inbox)
      BY <1>8 DEF Accept, Reject
    <3>2. Head(inbox) \in Item /\ inbox' \in Seq(Item)
      BY <1>0, <3>1, TailOf
    <3> QED
      BY <3>2 DEF Item
  <2>2. Reply("accepted") \in Frames /\ Reply("rejected") \in Frames
    BY <2>1, FrameTypes DEF Reply
  <2>3. CASE Reject
    BY <2>1, <2>2, <2>3, OneMore DEF Reject, Writes, session, sender, lifetime
  <2>4. CASE Accept
    <3>1. turn' \in Turns \union {None} /\ turns' \in 0..MaxTurns
      BY <2>4 DEF Accept, Turns
    <3>2. wire' \in Seq(Frames)
      <4>1. CASE wire' = wire \o <<Reply("accepted")>>
        BY <2>2, <4>1, OneMore
      <4>2. CASE turns < MaxTurns /\ wire' = wire \o <<Reply("accepted"), [kind |-> "started", turn |-> turns + 1]>>
        <5>1. [kind |-> "started", turn |-> turns + 1] \in Frames
          BY <4>2, FrameTypes DEF Turns
        <5> QED
          BY <2>2, <4>2, <5>1, TwoMore
      <4> QED
        BY <2>4, <4>1, <4>2 DEF Accept, Writes
    <3> QED
      BY <2>1, <2>4, <3>1, <3>2 DEF Accept, session, sender, lifetime
  <2> QED
    BY <1>8, <2>3, <2>4
<1>9. CASE EndTurn
  <2>1. wire' \in Seq(Frames)
    BY <1>9, FrameTypes, OneMore DEF EndTurn, Writes
  <2> QED
    BY <1>9, <2>1 DEF EndTurn, session, sender, lifetime
<1>10. ASSUME NEW a \in Asks, Ask(a) PROVE TypeOK'
  <2>1. [kind |-> "asks", ask |-> a] \in Frames
    BY FrameTypes
  <2>2. wire' \in Seq(Frames)
    BY <1>10, <2>1, OneMore DEF Ask, Writes
  <2> QED
    BY <1>10, <2>2 DEF Ask, session, sender, lifetime
<1>14. ASSUME NEW a \in Asks, Resolve(a) PROVE TypeOK'
  <2>1. [kind |-> "resolved", ask |-> a] \in Frames
    BY FrameTypes
  <2>2. wire' \in Seq(Frames)
    BY <1>14, <2>1, OneMore DEF Resolve, Writes
  <2> QED
    BY <1>14, <2>2 DEF Resolve, session, sender, lifetime
<1>11. CASE Exit
  BY <1>11 DEF Exit, session, sender
<1>12. CASE UNCHANGED vars
  BY <1>12 DEF vars, session, sender, lifetime, codex
<1> QED
  BY <1>1, <1>2, <1>3, <1>4, <1>5, <1>6, <1>7, <1>8, <1>9, <1>10, <1>11, <1>12, <1>13, <1>14, <1>15, <1>16, <1>17, <1>18, <1>19
     DEF Next, Devhost, Codex

-----------------------------------------------------------------------------
(* A closed session asks nothing, and a process that is gone does nothing. *)
LEMMA NextGone == TypeOK /\ PendingInv /\ GoneInv /\ DoneInv /\ [Next]_vars => PendingInv' /\ GoneInv' /\ DoneInv'
<1> SUFFICES ASSUME TypeOK, PendingInv, GoneInv, DoneInv, [Next]_vars PROVE PendingInv' /\ GoneInv' /\ DoneInv'
  OBVIOUS
<1> USE DEF TypeOK, PendingInv, GoneInv, DoneInv
<1>1. PendingInv'
  <2>1. CASE Receive
    <3>1. CASE retained /\ status # "closed"
      <4>1. PICK open : pending' = open /\ status' = ReceivedStatus(Head(wire), open)
        BY <2>1, <3>1 DEF Receive, Record
      <4>2. ReceivedStatus(Head(wire), open) # "closed"
        BY <3>1 DEF ReceivedStatus, Statuses
      <4> QED
        BY <4>1, <4>2
    <3> QED
      BY <2>1, <3>1 DEF Receive
  <2>2. CASE ~Receive
    BY <2>2 DEF Next, Devhost, Codex, Check, Dispatch, Call, StopWaiting, Retry, Fail, Answered,
       Close, CloseProcess, ReceiveFails, Reap, Monitor, Respond, Accept, Reject, EndTurn, Exit, Ask, Resolve,
       vars, session, sender, lifetime, codex
  <2> QED
    BY <2>1, <2>2
<1>2. GoneInv'
  BY DEF Next, Devhost, Codex, Check, Dispatch, Call, StopWaiting, Retry, Fail, Answered,
     Close, CloseProcess, Receive, ReceiveFails, Reap, Monitor, Respond, Accept, Reject, EndTurn, Exit, Ask, Resolve,
     vars, session, sender, lifetime, codex
<1>3. DoneInv'
  BY DEF Next, Devhost, Codex, Check, Dispatch, Call, StopWaiting, Retry, Fail, Answered,
     Close, CloseProcess, Receive, ReceiveFails, Reap, Monitor, Respond, Accept, Reject, EndTurn, Exit, Ask, Resolve,
     vars, session, sender, lifetime, codex
<1> QED
  BY <1>1, <1>2, <1>3

(* What Codex and devhost do to the wire: the first frame is taken, one or two are *)
(* added, or it stays as it is.                                                    *)
Taken == /\ wire # <<>> /\ Len(wire') = Len(wire) - 1
         /\ \A i \in 1..(Len(wire) - 1) : wire'[i] = wire[i + 1]
Added(n) == /\ Len(wire') = Len(wire) + n
            /\ \A i \in 1..Len(wire) : wire'[i] = wire[i]

(* Which step does which. *)
LEMMA WireSteps ==
  ASSUME TypeOK, [Next]_vars
  PROVE  /\ Receive \/ ReceiveFails => Taken /\ Head(wire) = wire[1] /\ wire[1] \in Frames
         /\ Reject => Added(1) /\ wire'[Len(wire) + 1] = Reply("rejected")
         /\ EndTurn => Added(1) /\ Ends(wire'[Len(wire) + 1])
         /\ Accept => /\ wire'[Len(wire) + 1] = Reply("accepted")
                      /\ \/ Added(1) /\ turn # None /\ turn' = turn
                         \/ /\ Added(2) /\ wire'[Len(wire) + 2].kind = "started"
                            /\ turn = None /\ turn' # None
         /\ \A a \in Asks : Ask(a) \/ Resolve(a) =>
              Added(1) /\ wire'[Len(wire) + 1].kind \in {"asks", "resolved"}
         /\ \/ Receive \/ ReceiveFails \/ Reject \/ EndTurn \/ Accept \/ (\E a \in Asks : Ask(a) \/ Resolve(a))
            \/ wire' = wire
<1> USE DEF TypeOK
<1>1. Receive \/ ReceiveFails => Taken /\ Head(wire) = wire[1] /\ wire[1] \in Frames
  BY TailOf DEF Receive, ReceiveFails, Taken
<1>2. ASSUME inbox # <<>> PROVE Head(inbox).call \in Nat
  <2>1. inbox \in Seq(Item)
    BY DEF Item
  <2>2. Head(inbox) \in Item
    BY <1>2, <2>1, TailOf
  <2> QED
    BY <2>2 DEF Item
<1>3. Reject => Added(1) /\ wire'[Len(wire) + 1] = Reply("rejected")
  <2> SUFFICES ASSUME Reject PROVE Added(1) /\ wire'[Len(wire) + 1] = Reply("rejected")
    OBVIOUS
  <2>1. PICK f \in Frames : f = Reply("rejected")
    BY <1>2, FrameTypes DEF Reject, Reply
  <2> QED
    BY <2>1, OneMore DEF Reject, Writes, Added
<1>4. EndTurn => Added(1) /\ Ends(wire'[Len(wire) + 1])
  <2> SUFFICES ASSUME EndTurn PROVE Added(1) /\ Ends(wire'[Len(wire) + 1])
    OBVIOUS
  <2>1. PICK f \in Frames : wire' = wire \o <<f>> /\ Ends(f)
    BY FrameTypes DEF EndTurn, Writes, Ends
  <2> QED
    BY <2>1, OneMore DEF Added
<1>5. Accept => /\ wire'[Len(wire) + 1] = Reply("accepted")
                /\ \/ Added(1) /\ turn # None /\ turn' = turn
                   \/ Added(2) /\ wire'[Len(wire) + 2].kind = "started" /\ turn = None /\ turn' # None
  <2> SUFFICES ASSUME Accept PROVE /\ wire'[Len(wire) + 1] = Reply("accepted")
                                   /\ \/ Added(1) /\ turn # None /\ turn' = turn
                                      \/ Added(2) /\ wire'[Len(wire) + 2].kind = "started" /\ turn = None /\ turn' # None
    OBVIOUS
  <2>1. PICK f \in Frames : f = Reply("accepted")
    BY <1>2, FrameTypes DEF Accept, Reply
  <2>2. CASE turn # None /\ turn' = turn /\ wire' = wire \o <<f>>
    BY <2>1, <2>2, OneMore DEF Added
  <2>3. CASE turn = None /\ turns < MaxTurns /\ turn' = turns + 1 /\ wire' = wire \o <<f, [kind |-> "started", turn |-> turns + 1]>>
    <3>1. PICK g \in Frames : g = [kind |-> "started", turn |-> turns + 1]
      BY <2>3, FrameTypes DEF Turns
    <3>2. g.kind = "started" /\ turn' # None
      BY <2>3, <3>1
    <3> QED
      BY <2>1, <2>3, <3>1, <3>2, TwoMore DEF Added
  <2> QED
    BY <2>1, <2>2, <2>3 DEF Accept, Writes
<1>6. ASSUME NEW a \in Asks, Ask(a) \/ Resolve(a)
      PROVE  Added(1) /\ wire'[Len(wire) + 1].kind \in {"asks", "resolved"}
  <2>1. PICK f \in Frames : wire' = wire \o <<f>> /\ f.kind \in {"asks", "resolved"}
    <3>1. [kind |-> "asks", ask |-> a] \in Frames /\ [kind |-> "resolved", ask |-> a] \in Frames
      BY FrameTypes
    <3> QED
      BY <1>6, <3>1 DEF Ask, Resolve, Writes
  <2> QED
    BY <2>1, OneMore DEF Added
<1>7. \/ Receive \/ ReceiveFails \/ Reject \/ EndTurn \/ Accept \/ (\E a \in Asks : Ask(a) \/ Resolve(a))
      \/ wire' = wire
  BY DEF Next, Devhost, Codex, Check, Dispatch, Call, StopWaiting, Retry, Fail, Answered,
     Close, CloseProcess, Reap, Monitor, Respond, Exit, vars, session, sender, lifetime, codex
<1> QED
  BY <1>1, <1>3, <1>4, <1>5, <1>6, <1>7

(* The kinds of frames that do not concern turns. *)
LEMMA OtherKinds ==
  ASSUME NEW f, f.kind \notin {"started", "completed", "failed"} PROVE f.kind # "started" /\ ~Ends(f)
  BY DEF Ends

(* A turn's start is not its end. *)
LEMMA StartIsNoEnd == ASSUME NEW f, f.kind = "started" PROVE ~Ends(f)
  BY DEF Ends

(* What leaves the turns on the wire as they are. *)
Aside == Added(1) /\ Len(wire) \in Nat /\ wire'[Len(wire) + 1].kind # "started" /\ ~Ends(wire'[Len(wire) + 1])

(* Each kind of step for what concerns turns. *)
LEMMA TurnSteps ==
  ASSUME TypeOK, GoneInv, [Next]_vars
  PROVE  \/ Taken /\ UNCHANGED <<turn, process>> /\ (Receive \/ ReceiveFails)
         \/ Aside /\ UNCHANGED <<turn, process>>
         \/ EndTurn /\ Added(1) /\ Ends(wire'[Len(wire) + 1]) /\ turn # None /\ turn' = None /\ process = "up"
         \/ Accept /\ Added(2) /\ wire'[Len(wire) + 1].kind = "accepted" /\ wire'[Len(wire) + 2].kind = "started"
            /\ turn = None /\ turn' # None
         \/ wire' = wire /\ (UNCHANGED <<turn, process>> \/ (turn' = None /\ process' # "up"))
<1>0. Len(wire) \in Nat
  BY DEF TypeOK
<1>1. CASE Receive \/ ReceiveFails
  BY <1>1, WireSteps DEF Receive, ReceiveFails, lifetime
<1>2. CASE Reject
  <2>1. wire'[Len(wire) + 1].kind = "rejected" /\ Added(1)
    BY <1>2, WireSteps DEF Reply
  <2> QED
    BY <1>0, <1>2, <2>1, OtherKinds DEF Reject, lifetime, Aside
<1>3. CASE EndTurn
  BY <1>3, WireSteps DEF EndTurn
<1>4. CASE Accept
  <2>1. wire'[Len(wire) + 1].kind = "accepted"
    BY <1>4, WireSteps DEF Reply
  <2>2. CASE Added(1) /\ turn' = turn
    BY <1>0, <1>4, <2>1, <2>2, OtherKinds DEF Accept, lifetime, Aside
  <2> QED
    BY <1>4, <2>1, <2>2, WireSteps DEF Accept
<1>5. ASSUME NEW a \in Asks, Ask(a) \/ Resolve(a) PROVE Aside /\ UNCHANGED <<turn, process>>
  <2>1. Added(1) /\ wire'[Len(wire) + 1].kind \in {"asks", "resolved"}
    BY <1>5, WireSteps
  <2>2. UNCHANGED <<turn, process>>
    BY <1>5 DEF Ask, Resolve, lifetime
  <2> QED
    BY <1>0, <2>1, <2>2, OtherKinds DEF Aside
<1>6. CASE wire' = wire /\ ~(Receive \/ ReceiveFails \/ Reject \/ EndTurn \/ Accept \/ (\E a \in Asks : Ask(a) \/ Resolve(a)))
  BY <1>6 DEF GoneInv, Next, Devhost, Codex, Check, Dispatch, Call, StopWaiting, Retry, Fail, Answered,
     Close, CloseProcess, Reap, Monitor, Respond, Exit, vars, session, sender, lifetime, codex
<1> QED
  BY <1>1, <1>2, <1>3, <1>4, <1>5, <1>6, WireSteps

(* Every step keeps the turns on the wire in turn. *)
LEMMA NextTurn == TypeOK /\ GoneInv /\ TurnInv /\ [Next]_vars => TurnInv'
<1> SUFFICES ASSUME TypeOK, GoneInv, TurnInv, [Next]_vars PROVE TurnInv'
  OBVIOUS
<1>0. Len(wire) \in Nat
  BY DEF TypeOK
<1>1. CASE Taken /\ UNCHANGED <<turn, process>>
  <2>1. \A k \in 2..Len(wire) : k - 1 \in 1..Len(wire') /\ wire'[k - 1] = wire[k]
    BY <1>0, <1>1 DEF Taken
  <2>2. \A i \in 1..Len(wire') : i + 1 \in 2..Len(wire) /\ wire'[i] = wire[i + 1]
    BY <1>0, <1>1 DEF Taken
  <2>3. ASSUME NEW i \in 1..Len(wire'), NEW j \in 1..Len(wire'), i < j, Ends(wire'[i]), Ends(wire'[j])
        PROVE  \E k \in i..j : wire'[k].kind = "started"
    <3>0. /\ i + 1 \in 1..Len(wire) /\ j + 1 \in 1..Len(wire) /\ i + 1 < j + 1
          /\ Ends(wire[i + 1]) /\ Ends(wire[j + 1])
      BY <1>0, <2>2, <2>3
    <3>1. PICK k \in (i + 1)..(j + 1) : wire[k].kind = "started"
      BY <3>0 DEF TurnInv, EndsAt, Started
    <3>2. k - 1 \in i..j /\ wire'[k - 1].kind = "started"
      BY <1>0, <2>1, <2>2, <3>1
    <3> QED
      BY <3>2
  <2>4. ASSUME turn # None, NEW i \in 1..Len(wire'), Ends(wire'[i])
        PROVE  \E k \in i..Len(wire') : wire'[k].kind = "started"
    <3>1. PICK k \in (i + 1)..Len(wire) : wire[k].kind = "started"
      BY <1>0, <2>2, <2>4 DEF TurnInv, EndsAt, Started
    <3>2. k - 1 \in i..Len(wire') /\ wire'[k - 1].kind = "started"
      BY <1>0, <1>1, <2>1, <2>2, <3>1 DEF Taken
    <3> QED
      BY <3>2
  <2>5. ASSUME turn = None, process = "up", NEW i \in 1..Len(wire'), wire'[i].kind = "started"
        PROVE  \E k \in i..Len(wire') : Ends(wire'[k])
    <3>1. PICK k \in (i + 1)..Len(wire) : Ends(wire[k])
      BY <1>0, <2>2, <2>5 DEF TurnInv, EndsAt, Started
    <3>2. k - 1 \in i..Len(wire') /\ Ends(wire'[k - 1])
      BY <1>0, <1>1, <2>1, <2>2, <3>1 DEF Taken
    <3> QED
      BY <3>2
  <2> QED
    BY <1>1, <2>3, <2>4, <2>5 DEF TurnInv, EndsAt, Started
<1>2. CASE Aside /\ UNCHANGED <<turn, process>>
  <2>1. \A i \in 1..Len(wire') : i \in 1..Len(wire) \/ i = Len(wire) + 1
    BY <1>0, <1>2 DEF Aside, Added
  <2>2. \A i \in 1..Len(wire') : wire'[i].kind = "started" \/ Ends(wire'[i]) => i \in 1..Len(wire)
    BY <1>2, <2>1 DEF Aside
  <2>3. Len(wire') = Len(wire) + 1 /\ \A i \in 1..Len(wire) : wire'[i] = wire[i]
    BY <1>2 DEF Aside, Added
  <2> QED
    BY <1>0, <1>2, <2>2, <2>3 DEF TurnInv, EndsAt, Started
<1>3. CASE Added(1) /\ Ends(wire'[Len(wire) + 1]) /\ turn # None /\ turn' = None /\ process = "up"
  <2>1. /\ Len(wire') = Len(wire) + 1 /\ wire'[Len(wire) + 1].kind # "started"
        /\ \A i \in 1..Len(wire) : wire'[i] = wire[i]
    BY <1>3, StartIsNoEnd DEF Added
  <2>2. ASSUME NEW i \in 1..Len(wire'), NEW j \in 1..Len(wire'), i < j, Ends(wire'[i]), Ends(wire'[j])
        PROVE  \E k \in i..j : wire'[k].kind = "started"
    <3>1. CASE j = Len(wire) + 1
      <4>1. PICK k \in i..Len(wire) : wire[k].kind = "started"
        BY <1>0, <1>3, <2>1, <2>2, <3>1 DEF TurnInv, EndsAt, Started
      <4> QED
        BY <1>0, <2>1, <3>1, <4>1
    <3>2. CASE j # Len(wire) + 1
      <4>1. j \in 1..Len(wire) /\ i \in 1..Len(wire)
        BY <1>0, <2>1, <2>2, <3>2
      <4>2. PICK k \in i..j : wire[k].kind = "started"
        BY <2>1, <2>2, <4>1 DEF TurnInv, EndsAt, Started
      <4> QED
        BY <1>0, <2>1, <4>1, <4>2
    <3> QED
      BY <3>1, <3>2
  <2>3. ASSUME NEW i \in 1..Len(wire'), wire'[i].kind = "started" PROVE \E k \in i..Len(wire') : Ends(wire'[k])
    <3>1. Len(wire) + 1 \in i..Len(wire')
      BY <1>0, <2>1
    <3> QED
      BY <1>3, <3>1
  <2> QED
    BY <1>3, <2>2, <2>3 DEF TurnInv, EndsAt, Started
<1>4. CASE Added(2) /\ wire'[Len(wire) + 1].kind = "accepted" /\ wire'[Len(wire) + 2].kind = "started"
           /\ turn = None /\ turn' # None
  <2>1. /\ Len(wire') = Len(wire) + 2 /\ ~Ends(wire'[Len(wire) + 1]) /\ ~Ends(wire'[Len(wire) + 2])
        /\ \A i \in 1..Len(wire) : wire'[i] = wire[i]
    BY <1>4, StartIsNoEnd, OtherKinds DEF Added
  <2>2. \A i \in 1..Len(wire') : Ends(wire'[i]) => i \in 1..Len(wire)
    BY <1>0, <2>1
  <2>3. ASSUME NEW i \in 1..Len(wire'), NEW j \in 1..Len(wire'), i < j, Ends(wire'[i]), Ends(wire'[j])
        PROVE  \E k \in i..j : wire'[k].kind = "started"
    <3>1. i \in 1..Len(wire) /\ j \in 1..Len(wire)
      BY <2>2, <2>3
    <3>2. PICK k \in i..j : wire[k].kind = "started"
      BY <2>1, <2>3, <3>1 DEF TurnInv, EndsAt, Started
    <3> QED
      BY <1>0, <2>1, <3>1, <3>2
  <2>4. \A i \in 1..Len(wire') : Len(wire) + 2 \in i..Len(wire')
    BY <1>0, <2>1
  <2> QED
    BY <1>4, <2>3, <2>4 DEF TurnInv, EndsAt, Started
<1>5. CASE wire' = wire /\ (UNCHANGED <<turn, process>> \/ (turn' = None /\ process' # "up"))
  BY <1>5 DEF TurnInv, EndsAt, Started
<1> QED
  BY <1>1, <1>2, <1>3, <1>4, <1>5, TurnSteps

(* Every step keeps a failed session between turns. *)
LEMMA NextFailed ==
  TypeOK /\ PendingInv /\ GoneInv /\ DoneInv /\ TurnInv /\ FailedInv /\ [Next]_vars => FailedInv'
<1> SUFFICES ASSUME TypeOK, PendingInv, GoneInv, DoneInv, TurnInv, FailedInv, [Next]_vars, status' = "error", retained'
             PROVE  Between'
  BY DEF FailedInv
<1>0. Len(wire) \in Nat /\ retained
  <2>1. retained' = retained \/ retained' = FALSE
    BY DEF Next, Devhost, Codex, Check, Dispatch, Call, StopWaiting, Retry, Fail, Answered,
       Close, CloseProcess, Receive, ReceiveFails, Reap, Monitor, Respond, Accept, Reject, EndTurn, Exit, Ask, Resolve,
       vars, session, sender, lifetime, codex
  <2>2. retained' # FALSE
    OBVIOUS
  <2>3. retained' = retained
    BY <2>1, <2>2
  <2>4. retained
    BY <2>3
  <2> QED
    BY <2>4 DEF TypeOK
<1>1. CASE Receive
  <2>0. Taken /\ Head(wire) = wire[1] /\ wire[1] \in Frames /\ turn' = turn
    BY <1>1, WireSteps DEF Receive
  <2>1. \A k \in 2..Len(wire) : k - 1 \in 1..Len(wire') /\ wire'[k - 1] = wire[k]
    BY <1>0, <2>0 DEF Taken
  <2>2. \A i \in 1..Len(wire') : i + 1 \in 2..Len(wire) /\ wire'[i] = wire[i + 1]
    BY <1>0, <2>0 DEF Taken
  <2>3. Len(wire) \in Nat \ {0} /\ Len(wire') = Len(wire) - 1
    BY <1>0, <2>0 DEF Taken, TypeOK
  <2>4. Record(wire[1])
    BY <1>0, <1>1, <2>0 DEF Receive, PendingInv
  <2>5. wire[1].kind # "started" /\ (wire[1].kind = "failed" \/ (status = "error" /\ ~Ends(wire[1])))
    <3>1. PICK open : status' = ReceivedStatus(wire[1], open)
      BY <2>4 DEF Record
    <3> QED
      BY <3>1 DEF ReceivedStatus, Ends
  <2>6. CASE status = "error" /\ ~Ends(wire[1])
    <3>1. Between
      BY <1>0, <2>6 DEF FailedInv
    <3>2. ASSUME NEW j \in 1..Len(wire'), Ends(wire'[j]) PROVE \E k \in 1..j : wire'[k].kind = "started"
      <4>1. PICK k \in 1..(j + 1) : wire[k].kind = "started"
        BY <1>0, <2>2, <3>1, <3>2 DEF Between, EndsAt, Started
      <4>2. k - 1 \in 1..j /\ wire'[k - 1].kind = "started"
        BY <1>0, <2>1, <2>2, <2>5, <4>1
      <4> QED
        BY <4>2
    <3>3. ASSUME turn # None PROVE \E k \in 1..Len(wire') : wire'[k].kind = "started"
      <4>1. PICK k \in 1..Len(wire) : wire[k].kind = "started"
        BY <3>1, <3>3 DEF Between, Started
      <4>2. k - 1 \in 1..Len(wire') /\ wire'[k - 1].kind = "started"
        BY <1>0, <2>1, <2>3, <2>5, <4>1
      <4> QED
        BY <4>2
    <3> QED
      BY <2>0, <3>2, <3>3 DEF Between, EndsAt, Started
  <2>7. CASE wire[1].kind = "failed"
    <3>0. Ends(wire[1]) /\ 1 \in 1..Len(wire)
      BY <2>3, <2>7 DEF Ends
    <3>2. ASSUME NEW j \in 1..Len(wire'), Ends(wire'[j]) PROVE \E k \in 1..j : wire'[k].kind = "started"
      <4>0. j + 1 \in 1..Len(wire) /\ 1 < j + 1 /\ Ends(wire[j + 1])
        BY <1>0, <2>2, <3>2
      <4>1. PICK k \in 1..(j + 1) : wire[k].kind = "started"
        BY <3>0, <4>0 DEF TurnInv, EndsAt, Started
      <4>2. k - 1 \in 1..j /\ wire'[k - 1].kind = "started"
        BY <1>0, <2>1, <2>2, <2>5, <4>1
      <4> QED
        BY <4>2
    <3>3. ASSUME turn # None PROVE \E k \in 1..Len(wire') : wire'[k].kind = "started"
      <4>1. PICK k \in 1..Len(wire) : wire[k].kind = "started"
        BY <3>0, <3>3 DEF TurnInv, EndsAt, Started
      <4>2. k - 1 \in 1..Len(wire') /\ wire'[k - 1].kind = "started"
        BY <1>0, <2>1, <2>3, <2>5, <4>1
      <4> QED
        BY <4>2
    <3> QED
      BY <2>0, <3>2, <3>3 DEF Between, EndsAt, Started
  <2> QED
    BY <2>5, <2>6, <2>7
<1>2. CASE Monitor
  <2>1. wire' = <<>> /\ turn' = None
    BY <1>2 DEF Monitor, DoneInv, GoneInv, codex
  <2>2. Len(wire') = 0
    BY <2>1
  <2> QED
    BY <2>1, <2>2 DEF Between
<1>3. CASE ~Receive /\ ~ReceiveFails /\ ~Monitor
  <2>0. status = "error"
    BY <1>3 DEF Next, Devhost, Codex, Check, Dispatch, Call, StopWaiting, Retry, Fail, Answered,
     Close, CloseProcess, Reap, Respond, Accept, Reject, EndTurn, Exit, Ask, Resolve,
     vars, session, sender, lifetime, codex
  <2>1. Between
    BY <1>0, <2>0 DEF FailedInv
  <2>2. CASE Aside /\ turn' = turn
    <3>1. /\ Len(wire') = Len(wire) + 1 /\ ~Ends(wire'[Len(wire) + 1])
          /\ \A i \in 1..Len(wire) : wire'[i] = wire[i]
      BY <2>2 DEF Aside, Added
    <3>2. \A i \in 1..Len(wire') : Ends(wire'[i]) => i \in 1..Len(wire)
      BY <1>0, <3>1
    <3> QED
      BY <1>0, <2>1, <2>2, <3>1, <3>2 DEF Between, EndsAt, Started
  <2>3. CASE Added(1) /\ turn # None /\ turn' = None
    <3>1. Len(wire') = Len(wire) + 1 /\ \A i \in 1..Len(wire) : wire'[i] = wire[i]
      BY <2>3 DEF Added
    <3>2. PICK m \in 1..Len(wire) : wire[m].kind = "started"
      BY <2>1, <2>3 DEF Between, Started
    <3>3. \A j \in 1..Len(wire') : j \in 1..Len(wire) \/ m \in 1..j
      BY <1>0, <3>1, <3>2
    <3> QED
      BY <1>0, <2>1, <2>3, <3>1, <3>2, <3>3 DEF Between, EndsAt, Started
  <2>4. CASE Added(2) /\ wire'[Len(wire) + 1].kind = "accepted" /\ wire'[Len(wire) + 2].kind = "started"
    <3>1. /\ Len(wire') = Len(wire) + 2 /\ ~Ends(wire'[Len(wire) + 1]) /\ ~Ends(wire'[Len(wire) + 2])
          /\ \A i \in 1..Len(wire) : wire'[i] = wire[i]
      BY <2>4, StartIsNoEnd, OtherKinds DEF Added
    <3>2. \A i \in 1..Len(wire') : Ends(wire'[i]) => i \in 1..Len(wire)
      BY <1>0, <3>1
    <3>3. Len(wire) + 2 \in 1..Len(wire')
      BY <1>0, <3>1
    <3> QED
      BY <1>0, <2>1, <2>4, <3>1, <3>2, <3>3 DEF Between, EndsAt, Started
  <2>5. CASE wire' = wire /\ (turn' = turn \/ turn' = None)
    BY <2>1, <2>5 DEF Between, EndsAt, Started
  <2> QED
    BY <1>3, <2>2, <2>3, <2>4, <2>5, TurnSteps
<1>4. CASE ReceiveFails
  BY <1>4 DEF ReceiveFails
<1> QED
  BY <1>1, <1>2, <1>3, <1>4

(* Every step keeps the calls and their answers in order. *)
LEMMA NextCall == TypeOK /\ GoneInv /\ CallInv /\ [Next]_vars => CallInv'
<1> SUFFICES ASSUME TypeOK, GoneInv, CallInv, [Next]_vars PROVE CallInv'
  OBVIOUS
<1>0. Len(wire) \in Nat /\ Len(inbox) \in Nat /\ calls \in Nat
  BY DEF TypeOK
<1> DEFINE InboxPart == \A i \in 1..Len(inbox) : inbox[i].call <= calls
           OrderPart == \A i, j \in 1..Len(inbox) : i < j => inbox[i].call < inbox[j].call
           WirePart == \A i \in 1..Len(wire) : wire[i].kind \in {"accepted", "rejected"} => wire[i].call <= calls
           SteerPart == send = "waiting" => \A i \in 1..Len(inbox) : inbox[i].call = calls => inbox[i].steers = steers
<1>1. CASE Call
  <2>1. wire' = wire /\ calls' = calls + 1 /\ steers' = steers
    BY <1>1 DEF Call
  <2>2. WirePart'
    BY <1>0, <2>1 DEF CallInv, TypeOK, Frames
  <2>5. \A i \in 1..Len(inbox) : inbox[i].call <= calls /\ inbox[i].call \in Nat
    <3>1. ASSUME NEW i \in 1..Len(inbox) PROVE inbox[i].call <= calls /\ inbox[i].call \in Nat
      <4>1. inbox \in Seq(Item)
        BY DEF TypeOK, Item
      <4>2. inbox[i] \in Item
        BY <4>1
      <4> QED
        BY <4>2 DEF CallInv, Item
    <3> QED
      BY <3>1
  <2>3. CASE inbox' = inbox /\ send' = "failed"
    <3>1. InboxPart'
      BY <1>0, <2>1, <2>3, <2>5
    <3> QED
      BY <2>2, <2>3, <3>1 DEF CallInv
  <2>4. CASE inbox' = Append(inbox, [call |-> calls + 1, steers |-> steers])
    <3>1. /\ Len(inbox') = Len(inbox) + 1 /\ \A i \in 1..Len(inbox) : inbox'[i] = inbox[i]
          /\ inbox'[Len(inbox) + 1] = [call |-> calls + 1, steers |-> steers]
      BY <2>4 DEF TypeOK
    <3>2. \A i \in 1..Len(inbox') : i \in 1..Len(inbox) \/ i = Len(inbox) + 1
      BY <1>0, <3>1
    <3>4. InboxPart'
      BY <1>0, <2>1, <3>1, <3>2, <2>5
    <3>5. OrderPart'
      BY <1>0, <2>1, <3>1, <3>2, <2>5 DEF CallInv
    <3>6. SteerPart'
      BY <1>0, <2>1, <3>1, <3>2, <2>5
    <3> QED
      BY <2>2, <3>4, <3>5, <3>6 DEF CallInv
  <2> QED
    BY <1>1, <2>1, <2>3, <2>4 DEF Call
<1>2. CASE Accept \/ Reject
  <2>1. inbox # <<>> /\ inbox' = Tail(inbox) /\ UNCHANGED <<calls, send, steers>>
    BY <1>2 DEF Accept, Reject, sender
  <2>2. PICK S : inbox \in Seq(S)
    BY DEF TypeOK
  <2>3. /\ Len(inbox) \in Nat \ {0} /\ Len(inbox') = Len(inbox) - 1 /\ Head(inbox) = inbox[1]
        /\ \A i \in 1..(Len(inbox) - 1) : inbox'[i] = inbox[i + 1]
    BY <2>1, <2>2, TailOf
  <2>4. InboxPart' /\ SteerPart'
    BY <1>0, <2>1, <2>3 DEF CallInv
  <2>5. OrderPart'
    <3>1. ASSUME NEW i \in 1..Len(inbox'), NEW j \in 1..Len(inbox'), i < j PROVE inbox'[i].call < inbox'[j].call
      <4>1. i + 1 \in 1..Len(inbox) /\ j + 1 \in 1..Len(inbox) /\ i + 1 < j + 1
        BY <1>0, <2>3, <3>1
      <4>2. inbox[i + 1].call < inbox[j + 1].call
        BY <4>1 DEF CallInv
      <4> QED
        BY <1>0, <2>3, <3>1, <4>2
    <3> QED
      BY <3>1
  <2>6. WirePart'
    <3>1. PICK reply : reply.call <= calls /\ wire'[Len(wire) + 1] = reply
      <4>1. inbox[1].call <= calls
        BY <2>3 DEF CallInv
      <4>2. \A kind : Reply(kind).call = inbox[1].call
        BY <2>3 DEF Reply
      <4> QED
        BY <1>2, <4>1, <4>2, WireSteps
    <3>2. Added(1) \/ (Added(2) /\ wire'[Len(wire) + 2].kind = "started")
      BY <1>2, WireSteps
    <3>3. /\ Len(wire') \in {Len(wire) + 1, Len(wire) + 2} /\ \A i \in 1..Len(wire) : wire'[i] = wire[i]
          /\ Len(wire') = Len(wire) + 2 => wire'[Len(wire) + 2].kind = "started"
      BY <1>0, <3>2 DEF Added
    <3>4. \A i \in 1..Len(wire') : i \in 1..Len(wire) \/ i = Len(wire) + 1 \/ (i = Len(wire) + 2 /\ i = Len(wire'))
      BY <1>0, <3>3
    <3> QED
      BY <2>1, <3>1, <3>3, <3>4 DEF CallInv
  <2> QED
    BY <2>4, <2>5, <2>6 DEF CallInv
<1>3. CASE ~Call /\ ~Accept /\ ~Reject
  <2>1. /\ inbox' = inbox \/ inbox' = <<>>
        /\ calls' = calls /\ (send' = "waiting" => send = "waiting" /\ steers' = steers)
    BY <1>3 DEF Next, Devhost, Codex, Check, Dispatch, StopWaiting, Retry, Fail, Answered,
       Close, CloseProcess, Receive, ReceiveFails, Reap, Monitor, Respond, EndTurn, Exit, Ask, Resolve, Settle,
       vars, session, sender, lifetime, codex
  <2>2. InboxPart' /\ OrderPart' /\ SteerPart'
    BY <2>1 DEF CallInv
  <2>3. WirePart'
    <3>1. CASE Taken
      <4>1. \A i \in 1..Len(wire') : i + 1 \in 1..Len(wire) /\ wire'[i] = wire[i + 1]
        BY <1>0, <3>1 DEF Taken
      <4> QED
        BY <2>1, <4>1 DEF CallInv
    <3>2. CASE Added(1) /\ wire'[Len(wire) + 1].kind \notin {"accepted", "rejected"}
      <4>1. \A i \in 1..Len(wire') : i \in 1..Len(wire) \/ i = Len(wire) + 1
        BY <1>0, <3>2 DEF Added
      <4> QED
        BY <2>1, <3>2, <4>1 DEF CallInv, Added
    <3>3. CASE wire' = wire
      BY <2>1, <3>3 DEF CallInv
    <3>4. \A f : Ends(f) => f.kind \notin {"accepted", "rejected"}
      BY DEF Ends
    <3> QED
      BY <1>3, <3>1, <3>2, <3>3, <3>4, WireSteps
  <2> QED
    BY <2>2, <2>3 DEF CallInv
<1> QED
  BY <1>1, <1>2, <1>3

(* Every step keeps a session that knows of a turn active. *)
LEMMA NextActive ==
  TypeOK /\ PendingInv /\ ActiveInv /\ FreshInv /\ [Next]_vars => ActiveInv'
<1> SUFFICES ASSUME TypeOK, PendingInv, ActiveInv, FreshInv, [Next]_vars, ~Gone', turnID' # None
             PROVE  active' /\ (status' = "closed" \/ HasActiveChatSession')
  BY DEF ActiveInv
<1>0. ~Gone
  BY GoneStays
<1>1. CASE UNCHANGED session
  BY <1>0, <1>1 DEF ActiveInv, HasActiveChatSession, session
<1>2. CASE Dispatch
  BY <1>0, <1>2 DEF Dispatch, ActiveInv, PendingInv, HasActiveChatSession, ActiveStatuses
<1>3. CASE Fail
  BY <1>0, <1>3 DEF Fail, ActiveInv, FreshInv, HasActiveChatSession
<1>4. ASSUME NEW a \in Asks, Respond(a) PROVE active' /\ (status' = "closed" \/ HasActiveChatSession')
  <2>1. status # "closed" /\ turnID # None
    BY <1>4 DEF Respond, PendingInv
  <2> QED
    BY <1>0, <1>4, <2>1 DEF Respond, ActiveInv, HasActiveChatSession, ActiveStatuses
<1>5. CASE Close
  BY <1>0, <1>5 DEF Close, ActiveInv
<1>6. CASE Receive /\ ~UNCHANGED session
  <2>1. retained /\ status # "closed" /\ Record(Head(wire))
    BY <1>6 DEF Receive, session
  <2>2. PICK f, open : /\ status' = ReceivedStatus(f, open)
                       /\ turnID' = IF f.kind = "started" THEN f.turn ELSE IF Ends(f) THEN None ELSE turnID
                       /\ active' = IF f.kind = "started" THEN TRUE ELSE IF Ends(f) THEN FALSE ELSE active
    BY <2>1 DEF Record
  <2>3. CASE f.kind = "started"
    BY <2>2, <2>3 DEF ReceivedStatus, Ends, HasActiveChatSession, ActiveStatuses
  <2>4. CASE f.kind # "started"
    <3>1. ~Ends(f) /\ turnID' = turnID /\ active' = active
      BY <2>2, <2>4
    <3>2. status' \in {"requires_action", status}
      BY <2>2, <2>4, <3>1 DEF ReceivedStatus, Ends
    <3> QED
      BY <1>0, <2>1, <3>1, <3>2 DEF ActiveInv, HasActiveChatSession, ActiveStatuses
  <2> QED
    BY <2>3, <2>4
<1>7. CASE ReceiveFails \/ Monitor
  BY <1>0, <1>7 DEF ReceiveFails, Monitor, Gone
<1> QED
  BY <1>1, <1>2, <1>3, <1>4, <1>5, <1>6, <1>7
  DEF Next, Devhost, Codex, Check, Call, StopWaiting, Retry, Answered, CloseProcess, Reap, Accept, Reject, EndTurn,
      Exit, Ask, Resolve, vars

-----------------------------------------------------------------------------
(* What was over up to a frame still is when the session has taken the first one. *)
LEMMA OverTaken ==
  ASSUME TypeOK, Taken, Record(wire[1]), NEW i \in Nat, i + 1 <= Len(wire), Over(i + 1)
  PROVE  Over(i)'
<1>0. Len(wire) \in Nat /\ Len(wire') = Len(wire) - 1
  BY DEF TypeOK, Taken
<1>1. \A k \in 2..(i + 1) : k - 1 \in 1..i /\ wire'[k - 1] = wire[k]
  BY <1>0 DEF Taken
<1>2. \A j \in 1..i : j + 1 \in 2..(i + 1) /\ wire'[j] = wire[j + 1]
  BY <1>0 DEF Taken
<1>3. ASSUME NEW j \in 1..i, wire'[j].kind = "started" PROVE \E k \in j..i : Ends(wire'[k])
  <2>1. PICK k \in (j + 1)..(i + 1) : Ends(wire[k])
    BY <1>2, <1>3 DEF Over, Started, EndsAt
  <2>2. k - 1 \in j..i /\ Ends(wire'[k - 1])
    BY <1>1, <2>1
  <2> QED
    BY <2>2
<1>4. ASSUME turnID' # None PROVE \E k \in 1..i : Ends(wire'[k])
  <2>1. PICK k \in 1..(i + 1) : Ends(wire[k])
    <3>1. CASE wire[1].kind = "started"
      BY <3>1 DEF Over, Started, EndsAt
    <3>2. CASE wire[1].kind # "started"
      BY <1>4, <3>2 DEF Record, Over, EndsAt
    <3> QED
      BY <3>1, <3>2
  <2>2. ~Ends(wire[1])
    BY <1>4, StartIsNoEnd DEF Record
  <2>3. k - 1 \in 1..i /\ Ends(wire'[k - 1])
    BY <1>1, <2>1, <2>2
  <2> QED
    BY <2>3
<1> QED
  BY <1>3, <1>4 DEF Over, Started, EndsAt

(* A frame that is written leaves what was over as it was. *)
LEMMA OverStays ==
  ASSUME TypeOK, Added(1), turnID' = turnID, NEW i \in 1..Len(wire), Over(i)
  PROVE  Over(i)'
<1>1. \A j \in 1..i : wire'[j] = wire[j]
  BY DEF Added, TypeOK
<1> QED
  BY <1>1 DEF Over, Started, EndsAt

(* A frame that concerns no turn does not put an end off. *)
LEMMA OverGrows ==
  ASSUME TypeOK, Aside, turnID' = turnID, Over(Len(wire))
  PROVE  Over(Len(wire))'
<1>1. /\ Len(wire) \in Nat /\ Len(wire') = Len(wire) + 1 /\ wire'[Len(wire) + 1].kind # "started"
      /\ \A j \in 1..Len(wire) : wire'[j] = wire[j]
  BY DEF Aside, Added
<1>2. ASSUME NEW j \in 1..Len(wire'), wire'[j].kind = "started" PROVE \E k \in j..Len(wire') : Ends(wire'[k])
  <2>1. j \in 1..Len(wire)
    BY <1>1, <1>2
  <2>2. PICK k \in j..Len(wire) : Ends(wire[k])
    BY <1>1, <1>2, <2>1 DEF Over, Started, EndsAt
  <2> QED
    BY <1>1, <2>1, <2>2
<1>3. ASSUME turnID' # None PROVE \E k \in 1..Len(wire') : Ends(wire'[k])
  <2>1. PICK k \in 1..Len(wire) : Ends(wire[k])
    BY <1>3 DEF Over, EndsAt
  <2> QED
    BY <1>1, <2>1
<1> QED
  BY <1>2, <1>3 DEF Over, Started, EndsAt

(* Every step keeps a message that found no turn from failing while one runs, if     *)
(* Codex rejects no message for a turn of its own.                                   *)
LEMMA NextFresh ==
  ASSUME ~Strict, TypeOK, GoneInv, TurnInv, CallInv, ActiveInv, FreshInv, PendingInv, [Next]_vars
  PROVE  FreshInv'
<1> SUFFICES ASSUME ~Gone', ~wasActive' PROVE FreshInv'
  BY DEF FreshInv
<1> DEFINE Steers == send \in {"call", "waiting", "rejected"} => ~steers
           Past == send \in {"call", "waiting"} /\ turn = None => Over(Len(wire))
           Rejected(i) == inbox = <<>> /\ Over(i) /\ \A j \in i..Len(wire) : ~Started(j)
           Refused == send = "waiting" => \A i \in 1..Len(wire) :
                        wire[i].kind = "rejected" /\ wire[i].call = calls => Rejected(i)
           Failed == send \in {"rejected", "failed"} =>
                       inbox = <<>> /\ turnID = None /\ \A j \in 1..Len(wire) : ~Started(j)
<1>0. Len(wire) \in Nat /\ Len(inbox) \in Nat /\ calls \in Nat
  BY DEF TypeOK
<1>1. /\ ~Gone /\ process = "up" /\ retained
      /\ ~wasActive => Steers /\ Past /\ Refused /\ Failed
  BY GoneStays DEF FreshInv, Gone
<1>2. SUFFICES Steers' /\ Past' /\ Refused' /\ Failed'
  BY DEF FreshInv
<1>3. CASE send' \notin {"call", "waiting", "rejected", "failed"}
  BY <1>3
<1>4. CASE Dispatch
  <2>1. ~active /\ turnID = None
    BY <1>1, <1>4 DEF Dispatch, ActiveInv
  <2>2. send' = "call" /\ ~steers' /\ turnID' = None /\ UNCHANGED <<wire, turn>>
    BY <1>4, <2>1 DEF Dispatch, codex
  <2>3. Past'
    BY <1>1, <2>2 DEF TurnInv, Over, Started, EndsAt
  <2> QED
    BY <2>2, <2>3
<1>5. CASE Call
  <2>1. send = "call" /\ UNCHANGED <<wire, turn, turnID, wasActive, steers>> /\ calls' = calls + 1
    BY <1>5 DEF Call, session
  <2>2. send' = "waiting"
    BY <1>1, <1>5 DEF Call, Gone
  <2>3. Steers' /\ Past'
    BY <1>1, <2>1, <2>2 DEF Over, Started, EndsAt
  <2>4. Refused'
    <3>1. \A i \in 1..Len(wire') : wire'[i].kind = "rejected" => wire'[i].call <= calls /\ wire'[i].call \in Nat
      BY <2>1 DEF CallInv, TypeOK, Frames
    <3>2. \A i \in 1..Len(wire') : ~(wire'[i].kind = "rejected" /\ wire'[i].call = calls')
      BY <1>0, <2>1, <3>1
    <3> QED
      BY <3>2
  <2> QED
    BY <2>2, <2>3, <2>4
<1>6. CASE Retry
  <2>1. ~wasActive /\ send = "rejected" /\ ~steers
    BY <1>1, <1>6 DEF Retry
  <2> QED
    BY <1>1, <1>6, <2>1 DEF Retry, session, codex, Started
<1>7. CASE UNCHANGED <<send, wasActive, steers, calls, turnID, codex>>
  BY <1>1, <1>7 DEF Over, Started, EndsAt, codex
<1>8. CASE Receive /\ send' \in {"call", "waiting", "rejected", "failed"}
  <2>0. /\ Taken /\ Head(wire) = wire[1] /\ wire[1] \in Frames
        /\ UNCHANGED <<retained, wasActive, steers, calls, inbox, turn>>
    BY <1>8, WireSteps DEF Receive
  <2>1. status # "closed"
    BY <1>1, <1>8 DEF Receive, Gone
  <2>2. Record(wire[1])
    BY <1>1, <1>8, <2>0, <2>1 DEF Receive
  <2>3. /\ Len(wire) \in Nat \ {0} /\ Len(wire') = Len(wire) - 1
        /\ \A i \in 1..Len(wire') : i + 1 \in 1..Len(wire) /\ wire'[i] = wire[i + 1]
    BY <1>0, <2>0 DEF Taken, TypeOK
  <2>4. \A i \in Nat : i + 1 <= Len(wire) /\ Over(i + 1) => Over(i)'
    BY <2>0, <2>2, OverTaken
  <2>5. send' = send \/ (send = "waiting" /\ send' = wire[1].kind /\ wire[1].kind = "rejected" /\ wire[1].call = calls)
    BY <1>8, <2>0 DEF Receive, Settle
  <2>6. CASE send' = send /\ send \in {"call", "waiting"}
    <3>1. Steers'
      BY <1>1, <2>0, <2>6
    <3>2. Past'
      <4>1. ASSUME turn = None PROVE Over(Len(wire))'
        <5>1. Over(Len(wire))
          BY <1>1, <2>0, <2>6, <4>1
        <5>2. PICK n \in Nat : Len(wire) = n + 1
          BY <2>3
        <5>3. Over(n)' /\ Len(wire') = n
          BY <2>3, <2>4, <5>1, <5>2
        <5> QED
          BY <5>3 DEF Over
      <4> QED
        BY <2>0, <4>1
    <3>3. Refused'
      <4>1. ASSUME send = "waiting", NEW i \in 1..Len(wire'), wire'[i].kind = "rejected", wire'[i].call = calls
            PROVE  Rejected(i)'
        <5>1. Rejected(i + 1)
          BY <1>1, <2>0, <2>3, <4>1
        <5>2. Over(i)'
          BY <2>3, <2>4, <5>1
        <5>3. \A j \in i..Len(wire') : j \in 1..Len(wire') /\ j + 1 \in (i + 1)..Len(wire)
          BY <2>3
        <5>4. \A j \in i..Len(wire') : ~Started(j)'
          BY <2>3, <5>1, <5>3 DEF Started
        <5> QED
          BY <2>0, <5>1, <5>2, <5>4
      <4> QED
        BY <2>0, <2>6, <4>1
    <3> QED
      BY <2>6, <3>1, <3>2, <3>3
  <2>7. CASE \/ send = "waiting" /\ send' = "rejected" /\ wire[1].kind = "rejected" /\ wire[1].call = calls
             \/ send' = send /\ send \in {"rejected", "failed"}
    <3>1. Steers'
      BY <1>1, <2>0, <2>7
    <3>2. inbox = <<>> /\ turnID = None /\ \A j \in 1..Len(wire) : ~Started(j)
      <4>1. CASE send = "waiting"
        <5>1. Rejected(1)
          BY <1>1, <2>0, <2>3, <2>7, <4>1
        <5>2. ~Ends(wire[1])
          BY <2>7, <4>1 DEF Ends
        <5> QED
          BY <5>1, <5>2 DEF Over, EndsAt
      <4> QED
        BY <1>1, <2>0, <2>7, <4>1
    <3>3. turnID' = None
      BY <2>2, <2>3, <3>2 DEF Record, Started
    <3>4. \A j \in 1..Len(wire') : ~Started(j)'
      BY <2>3, <3>2 DEF Started
    <3> QED
      BY <2>0, <2>7, <3>1, <3>2, <3>3, <3>4
  <2> QED
    BY <1>8, <2>5, <2>6, <2>7
<1>9. CASE Accept
  <2>1. inbox # <<>> /\ turn' # None /\ UNCHANGED <<send, wasActive, steers, calls, turnID>>
    BY <1>9, WireSteps DEF Accept, session, sender
  <2>2. Steers' /\ Past' /\ Failed'
    BY <1>1, <2>1
  <2>3. /\ wire'[Len(wire) + 1].kind = "accepted"
        /\ Added(1) \/ (Added(2) /\ wire'[Len(wire) + 2].kind = "started")
    BY <1>9, WireSteps DEF Reply
  <2>4. \A i \in 1..Len(wire') : wire'[i].kind = "rejected" => i \in 1..Len(wire) /\ wire'[i] = wire[i]
    BY <1>0, <2>3 DEF Added
  <2>5. Refused'
    BY <1>1, <2>1, <2>4
  <2> QED
    BY <2>2, <2>5
<1>10. CASE Reject
  <2>1. inbox # <<>> /\ inbox' = Tail(inbox) /\ UNCHANGED <<send, wasActive, steers, calls, turnID, turn>>
    BY <1>10 DEF Reject, session, sender
  <2>2. /\ Added(1) /\ wire'[Len(wire) + 1].kind = "rejected" /\ wire'[Len(wire) + 1].call = Head(inbox).call
        /\ Len(wire') = Len(wire) + 1
    BY <1>10, WireSteps DEF Reply, Added
  <2>3. Aside
    BY <1>0, <2>2, OtherKinds DEF Aside
  <2>4. Steers' /\ Past' /\ Failed'
    BY <1>1, <2>1, <2>3, OverGrows
  <2>5. ASSUME send = "waiting", NEW i \in 1..Len(wire'), wire'[i].kind = "rejected", wire'[i].call = calls
        PROVE  Rejected(i)'
    <3>1. i = Len(wire) + 1
      BY <1>0, <1>1, <2>1, <2>2, <2>5 DEF Added
    <3>2. Head(inbox) = inbox[1] /\ inbox[1] \in Item /\ 1 \in 1..Len(inbox) /\ inbox[1].call = calls
      <4>1. inbox \in Seq(Item)
        BY DEF TypeOK, Item
      <4> QED
        BY <2>1, <2>2, <2>5, <3>1, <4>1, TailOf
    <3>3. ~Head(inbox).steers
      BY <1>1, <2>1, <2>5, <3>2 DEF CallInv
    <3>4. turn = None
      BY <1>10, <3>3 DEF Reject
    <3>5. Over(Len(wire))'
      BY <1>1, <2>1, <2>3, <2>5, <3>4, OverGrows
    <3>6. Len(inbox) = 1
      <4>1. ASSUME Len(inbox) # 1 PROVE FALSE
        <5>0. Len(inbox) # 0
          BY <3>2
        <5>1. 2 \in 1..Len(inbox)
          <6>1. \A n \in Nat \ {0, 1} : 2 \in 1..n
            OBVIOUS
          <6> QED
            BY <1>0, <4>1, <5>0, <6>1
        <5>2. inbox[2] \in Item
          <6>1. inbox \in Seq(Item)
            BY DEF TypeOK, Item
          <6> QED
            BY <5>1, <6>1
        <5>3. inbox[1].call < inbox[2].call /\ inbox[2].call <= calls
          BY <3>2, <5>1 DEF CallInv
        <5> QED
          BY <1>0, <3>2, <5>2, <5>3 DEF Item
      <4> QED
        BY <4>1
    <3>7. inbox' = <<>>
      <4>1. inbox \in Seq(Item)
        BY DEF TypeOK, Item
      <4> QED
        BY <2>1, <3>6, <4>1
    <3>8. Over(i)'
      BY <2>2, <3>1, <3>5 DEF Over
    <3>9. \A j \in i..Len(wire') : ~Started(j)'
      BY <1>0, <2>2, <3>1 DEF Started
    <3> QED
      BY <3>7, <3>8, <3>9
  <2> QED
    BY <2>1, <2>4, <2>5
<1>11. ASSUME EndTurn \/ \E a \in Asks : Ask(a) \/ Resolve(a) PROVE Steers' /\ Past' /\ Refused' /\ Failed'
  <2>1. UNCHANGED <<inbox, send, wasActive, steers, calls, turnID>>
    BY <1>11 DEF EndTurn, Ask, Resolve, session, sender
  <2>2. /\ Added(1) /\ wire'[Len(wire) + 1].kind \notin {"started", "rejected"}
        /\ Len(wire') = Len(wire) + 1 /\ \A i \in 1..Len(wire) : wire'[i] = wire[i]
    BY <1>11, WireSteps DEF Added, Ends
  <2>3. Past'
    <3>1. CASE EndTurn
      <4>1. Ends(wire'[Len(wire) + 1])
        BY <3>1, WireSteps
      <4>2. \A j \in 1..Len(wire') : Len(wire) + 1 \in j..Len(wire') /\ Len(wire) + 1 \in 1..Len(wire')
        BY <1>0, <2>2
      <4>3. Len(wire) + 1 \in 1..Len(wire')
        BY <1>0, <2>2
      <4> QED
        BY <4>1, <4>2, <4>3 DEF Over, EndsAt
    <3>2. ASSUME NEW a \in Asks, Ask(a) \/ Resolve(a) PROVE Past'
      <4>1. wire'[Len(wire) + 1].kind \in {"asks", "resolved"} /\ turn' = turn
        BY <3>2, WireSteps DEF Ask, Resolve
      <4>2. Aside
        BY <1>0, <2>2, <4>1, OtherKinds DEF Aside
      <4> QED
        BY <1>1, <2>1, <4>1, <4>2, OverGrows
    <3> QED
      BY <1>11, <3>1, <3>2
  <2>4. ASSUME send = "waiting", NEW i \in 1..Len(wire'), wire'[i].kind = "rejected", wire'[i].call = calls
        PROVE  Rejected(i)'
    <3>1. i \in 1..Len(wire)
      BY <1>0, <2>2, <2>4
    <3>2. Rejected(i)
      BY <1>1, <2>1, <2>2, <2>4, <3>1
    <3>3. Over(i)'
      BY <2>1, <2>2, <3>1, <3>2, OverStays
    <3>4. \A j \in i..Len(wire') : j \in i..Len(wire) \/ j = Len(wire) + 1
      BY <1>0, <2>2, <3>1
    <3>5. \A j \in i..Len(wire') : ~Started(j)'
      BY <1>0, <2>2, <3>1, <3>2, <3>4 DEF Started
    <3> QED
      BY <2>1, <3>2, <3>3, <3>5
  <2>5. Failed'
    <3>1. \A j \in 1..Len(wire') : j \in 1..Len(wire) \/ j = Len(wire) + 1
      BY <1>0, <2>2
    <3> QED
      BY <1>1, <2>1, <2>2, <3>1 DEF Started
  <2>6. Steers'
    BY <1>1, <2>1
  <2> QED
    BY <2>1, <2>3, <2>4, <2>5, <2>6
<1>12. CASE CloseProcess \/ Reap \/ Exit \/ ReceiveFails \/ Monitor
  BY <1>1, <1>12 DEF CloseProcess, Reap, Exit, ReceiveFails, Monitor, Gone
<1>13. CASE Check \/ Fail \/ Answered
  BY <1>3, <1>13 DEF Check, Fail, Answered
<1>14. CASE StopWaiting
  BY <1>1, <1>3, <1>14 DEF StopWaiting
<1>15. CASE Close \/ (\E a \in Asks : Respond(a)) \/ UNCHANGED vars
  BY <1>7, <1>15 DEF Close, Respond, vars, session, sender
<1>16. CASE Receive
  BY <1>3, <1>8, <1>16
<1> QED
  BY <1>4, <1>5, <1>6, <1>9, <1>10, <1>11, <1>12, <1>13, <1>14, <1>15, <1>16 DEF Next, Devhost, Codex

-----------------------------------------------------------------------------
(* The variables have their types. *)
THEOREM TypeCorrect == Spec => []TypeOK
<1> QED
  BY InitType, NextType, PTL DEF Spec

(* What holds of the session, its process and the wire between them. *)
SInv == TypeOK /\ PendingInv /\ GoneInv /\ DoneInv /\ TurnInv /\ FailedInv

(* It holds in every state. *)
LEMMA SessionInvariant == Spec => []SInv
<1>1. Init => SInv
  <2> SUFFICES ASSUME Init PROVE PendingInv /\ GoneInv /\ DoneInv /\ TurnInv /\ FailedInv
    BY InitType DEF SInv
  <2>1. Len(wire) = 0
    BY DEF Init
  <2> QED
    BY <2>1 DEF Init, PendingInv, GoneInv, DoneInv, TurnInv, FailedInv
<1>2. SInv /\ [Next]_vars => SInv'
  BY NextType, NextGone, NextTurn, NextFailed DEF SInv
<1> QED
  BY <1>1, <1>2, PTL DEF Spec

(* A request that waits for an answer shows, or a failure does, in every order of  *)
(* requests, answers, messages, failures and ends of turns.                         *)
THEOREM RequestsAreShown == Spec => []AsksAreShown
<1>1. Init => AsksAreShown
  BY DEF Init, AsksAreShown
<1>2. TypeOK /\ AsksAreShown /\ [Next]_vars => AsksAreShown'
  <2> SUFFICES ASSUME TypeOK, AsksAreShown, [Next]_vars, pending' # {}, status' # "closed"
               PROVE  status' \in {"requires_action", "error"}
    BY DEF AsksAreShown
  <2>1. CASE UNCHANGED <<status, pending>>
    BY <2>1 DEF AsksAreShown
  <2>2. CASE Dispatch
    BY <2>2 DEF Dispatch, AsksAreShown
  <2>3. CASE Fail
    BY <2>3 DEF Fail, AsksAreShown
  <2>4. ASSUME NEW a \in Asks, Respond(a) PROVE status' \in {"requires_action", "error"}
    BY <2>4 DEF Respond, AsksAreShown
  <2>5. CASE Receive /\ ~UNCHANGED <<status, pending>>
    <3>1. PICK f : status' = ReceivedStatus(f, pending')
      BY <2>5 DEF Receive, Record
    <3> QED
      BY <3>1 DEF ReceivedStatus
  <2>6. CASE Close \/ ReceiveFails \/ Monitor
    BY <2>6 DEF Close, ReceiveFails, Monitor, AsksAreShown
  <2> QED
    BY <2>1, <2>2, <2>3, <2>4, <2>5, <2>6
    DEF Next, Devhost, Codex, Check, Call, StopWaiting, Retry, Answered, CloseProcess, Reap, Accept, Reject, EndTurn,
        Exit, Ask, Resolve, vars, session
<1> QED
  BY <1>1, <1>2, TypeCorrect, PTL DEF Spec

(* A failure that a page was shown stays until the next message or turn: Codex can *)
(* end no other turn before it has started one.                                    *)
THEOREM FailuresStay == Spec => FailureStays
<1>1. SInv /\ [Next]_vars => [status = "error" /\ status' \notin {"error", "closed"} => active']_vars
  <2> SUFFICES ASSUME SInv, Next, status = "error", status' \notin {"error", "closed"} PROVE active'
    OBVIOUS
  <2> USE DEF SInv
  <2>1. CASE Receive
    <3>0. Head(wire) = wire[1] /\ Len(wire) \in Nat \ {0} /\ Record(wire[1]) /\ retained
      BY <2>1, TailOf DEF TypeOK, Receive
    <3>1. CASE Ends(wire[1])
      <4>1. \E k \in 1..1 : Started(k)
        BY <3>0, <3>1 DEF FailedInv, Between, EndsAt
      <4> QED
        BY <3>1, <4>1, StartIsNoEnd DEF Started
    <3>2. CASE ~Ends(wire[1])
      <4>1. PICK open : status' = ReceivedStatus(wire[1], open)
        BY <3>0 DEF Record
      <4>2. wire[1].kind = "started"
        BY <3>2, <4>1 DEF ReceivedStatus, Ends
      <4> QED
        BY <3>0, <4>2 DEF Record
    <3> QED
      BY <3>1, <3>2
  <2>2. CASE Dispatch
    BY <2>2 DEF Dispatch
  <2> QED
    BY <2>1, <2>2
    DEF Next, Devhost, Codex, Check, Call, StopWaiting, Retry, Fail, Answered, Close, CloseProcess, ReceiveFails,
        Reap, Monitor, Respond, Accept, Reject, EndTurn, Exit, Ask, Resolve, session
<1> QED
  BY <1>1, SessionInvariant, PTL DEF Spec, FailureStays

(* While a turn that Codex reported runs, the stack is kept up, if Codex rejects no  *)
(* message for a turn of its own.                                                    *)
THEOREM TurnsKeepTheStack == ASSUME ~Strict PROVE Spec => []TurnKeepsStack
<1> DEFINE TInv == CallInv /\ ActiveInv /\ FreshInv
<1>1. Init => TInv
  <2> SUFFICES ASSUME Init PROVE TInv
    OBVIOUS
  <2>1. Len(wire) = 0 /\ Len(inbox) = 0
    BY DEF Init
  <2> QED
    BY <2>1 DEF Init, CallInv, ActiveInv, FreshInv
<1>2. SInv /\ TInv /\ [Next]_vars => TInv'
  BY NextCall, NextActive, NextFresh DEF SInv
<1>3. TInv => TurnKeepsStack
  BY DEF ActiveInv, Gone, TurnKeepsStack
<1> QED
  BY <1>1, <1>2, <1>3, SessionInvariant, PTL DEF Spec

=============================================================================
