------------------------------- MODULE FeedProofs -------------------------------
(* The properties of the two streams that devtools/server.go sends to pages, for *)
(* any number of pages and of those who publish: first the log stream, with the  *)
(* page at its end and any number of lines and retained lines, then the health   *)
(* stream, with any number of changes.                                           *)
EXTENDS LogPage, HealthFeed, TLAPS

(* The lines c is to receive start after what was copied for it. *)
Start(c) == After(snapshot[c])
Had(c, n) == \E i \in 2..Len(frames[c]) : LineAt(c, i) = n
Awaits(c, n) == \E w \in Writers : c \in todo[w] /\ entry[w] = n

(* The retained lines are the last ones, and there are some once a line was published. *)
LogInv == EndsBefore(retained, nextID) /\ (retained = <<>> => nextID = 0)

(* Each writer publishes a line of its own. *)
EntryInv ==
  /\ \A w \in Writers : /\ entry[w] \in Nat => entry[w] < nextID
                        /\ todo[w] # {} => entry[w] \in Nat
  /\ \A v, w \in Writers : entry[v] \in Nat /\ entry[v] = entry[w] => v = w

(* Nothing is under way for a page that has not attached. *)
NewInv == \A c \in Clients : page[c] = "new" =>
  frames[c] = <<>> /\ ~writeMu[c] /\ c \notin members /\ \A w \in Writers : c \notin todo[w]

(* The lines copied for a page begin no later than the retained ones do now. *)
CopyInv == \A c \in Clients : page[c] # "new" =>
  /\ EndsBefore(snapshot[c], Start(c)) /\ Start(c) <= nextID
  /\ Start(c) - Len(snapshot[c]) <= nextID - Len(retained)

(* The write lock keeps lines behind the snapshot. *)
OrderInv == \A c \in Clients :
  /\ writeMu[c] => frames[c] = <<>>
  /\ page[c] = "open" /\ ~writeMu[c] => frames[c] # <<>>
  /\ \A i \in 1..Len(frames[c]) : IF i = 1 THEN frames[c][i] = Snapshot(snapshot[c])
                                  ELSE \E n \in Nat : frames[c][i] = Line(n)

(* A page that is written to has received or awaits each line since its copy, once. *)
OnceEach(c) ==
  /\ \A n \in Nat : (Start(c) <= n /\ n < nextID) <=> (Had(c, n) \/ Awaits(c, n))
  /\ \A n \in Nat : ~(Had(c, n) /\ Awaits(c, n))
  /\ \A i, j \in 2..Len(frames[c]) : LineAt(c, i) = LineAt(c, j) => i = j
LineInv == \A c \in members : page[c] = "open" => OnceEach(c)

StreamInv == LogInv /\ EntryInv /\ NewInv /\ CopyInv /\ OrderInv /\ LineInv

(* The rows hold what came also while the effect of a pause is still to run. *)
RowsInv == ~ended /\ ~hurried =>
  IF pending # None THEN pending = expected /\ (paused \/ effect) ELSE Latest = expected
RowsTypeOK ==
  /\ conn \in Clients \cup {None} /\ taken \in Nat
  /\ shown \in Seq(Nat) /\ expected \in Seq(Nat)
  /\ set \in Seq(Nat) \cup {None} /\ pending \in Seq(Nat) \cup {None}

-----------------------------------------------------------------------------
(* Every step of the page and its server is one of the feed or leaves it alone. *)
THEOREM FeedComposed == PageSpec => Spec
<1>1. PageInit => Init
  BY DEF PageInit
<1> DEFINE ConnInv == conn \in Clients \cup {None}
<1>2. PageInit => ConnInv
  BY DEF PageInit
<1>3. ConnInv /\ [PageNext]_allVars => ConnInv'
  BY DEF PageNext, allVars, pageVars, socket, Server, Connect, Accept, Disconnect, Unmount, Break, Receive, Hover, ShowPending, Render
<1>4. ConnInv /\ [PageNext]_allVars => [Next]_vars
  <2> SUFFICES ASSUME ConnInv, PageNext, vars' # vars PROVE Next
    BY DEF allVars
  <2>1. CASE Server
    BY <2>1 DEF Server, Next
  <2>2. ASSUME NEW c \in Clients, Accept(c) PROVE Next
    BY <2>2 DEF Accept, Next
  <2>3. CASE Unmount \/ Break
    BY <2>3 DEF Unmount, Break, Next
  <2> QED
    BY <2>1, <2>2, <2>3 DEF PageNext, Connect, Disconnect, Receive, Hover, ShowPending, Render
<1> HIDE DEF ConnInv
<1> QED
  BY <1>1, <1>2, <1>3, <1>4, PTL DEF PageSpec, Spec

-----------------------------------------------------------------------------
(* The last elements of a sequence. *)
LEMMA LastOf ==
  ASSUME NEW a \in Seq(Nat), NEW m \in 1..Len(a)
  PROVE  /\ SubSeq(a, m, Len(a)) \in Seq(Nat) /\ Len(SubSeq(a, m, Len(a))) = Len(a) - m + 1
         /\ \A i \in 1..(Len(a) - m + 1) : SubSeq(a, m, Len(a))[i] = a[m + i - 1]
<1>1. SubSeq(a, m, Len(a)) \in Seq(Nat)
  OBVIOUS
<1>2. Len(SubSeq(a, m, Len(a))) = Len(a) - m + 1
  OBVIOUS
<1>3. ASSUME NEW i \in 1..(Len(a) - m + 1) PROVE SubSeq(a, m, Len(a))[i] = a[m + i - 1]
  OBVIOUS
<1> QED
  BY <1>1, <1>2, <1>3

(* The retained lines after one more. *)
LEMMA LimitedAppend ==
  ASSUME NEW s \in Seq(Nat), NEW n \in Nat, EndsBefore(s, n)
  PROVE  LET t == Limited(Append(s, n))
         IN t \in Seq(Nat) /\ t # <<>> /\ EndsBefore(t, n + 1) /\ Len(t) <= Len(s) + 1
<1>0. Append(s, n) \in Seq(Nat)
  OBVIOUS
<1>1. PICK a \in Seq(Nat) : a = Append(s, n)
  BY <1>0
<1>2. Len(a) = Len(s) + 1 /\ EndsBefore(a, n + 1)
  BY <1>1 DEF EndsBefore
<1>3. CASE Len(a) > Retained
  <2>0. Len(a) - Retained + 1 \in 1..Len(a)
    BY <1>3, LogAssumption
  <2>1. PICK m \in 1..Len(a) : m = Len(a) - Retained + 1
    BY <2>0
  <2>2. PICK t : t = SubSeq(a, m, Len(a)) /\ t = Limited(a)
    BY <1>3, <2>1 DEF Limited
  <2>3. t \in Seq(Nat) /\ Len(t) = Retained /\ \A i \in 1..Len(t) : t[i] = a[m + i - 1]
    BY <2>1, <2>2, LastOf, LogAssumption
  <2>4. ASSUME NEW i \in 1..Len(t) PROVE t[i] = n + 1 - Len(t) + i - 1
    <3>1. m + i - 1 \in 1..Len(a)
      BY <1>3, <2>1, <2>3, LogAssumption
    <3>2. a[m + i - 1] = n + 1 - Len(a) + (m + i - 1) - 1
      BY <1>2, <3>1 DEF EndsBefore
    <3> QED
      BY <2>1, <2>3, <3>2, LogAssumption
  <2>5. EndsBefore(t, n + 1)
    BY <2>4 DEF EndsBefore
  <2>6. t # <<>> /\ Len(t) <= Len(s) + 1
    BY <1>2, <1>3, <2>3, LogAssumption
  <2> QED
    BY <1>1, <2>2, <2>3, <2>5, <2>6
<1>4. CASE ~(Len(a) > Retained)
  BY <1>1, <1>2, <1>4 DEF Limited
<1> QED
  BY <1>3, <1>4

(* The retained lines end just before the next ID. *)
LEMMA AfterEnds ==
  ASSUME NEW s \in Seq(Nat), NEW n \in Nat, EndsBefore(s, n), s = <<>> => n = 0
  PROVE  After(s) = n
  BY DEF After, EndsBefore

(* What follows a sequence of lines is a line. *)
LEMMA AfterIsNat == ASSUME NEW s \in Seq(Nat) PROVE After(s) \in Nat
  BY DEF After

(* The stream starts with its types. *)
LEMMA InitType == Init => TypeOK
<1>0. 0 \in 0..MaxEntries
  BY LogAssumption
<1> SUFFICES ASSUME Init PROVE TypeOK
  OBVIOUS
<1> USE DEF Init
<1>1. nextID \in 0..MaxEntries
  BY <1>0
<1>5. members \subseteq Clients /\ stopped \in BOOLEAN
  OBVIOUS
<1>6. retained \in Seq(Nat)
  <2>1. <<>> \in Seq(Nat)
    OBVIOUS
  <2> QED
    BY <2>1, Zenon
<1>2. snapshot \in [Clients -> Seq(Nat)] /\ frames \in [Clients -> Seq(Frame)]
  OBVIOUS
<1>3. entry \in [Writers -> IDs \union {Passed, None}] /\ todo \in [Writers -> SUBSET Clients]
  OBVIOUS
<1>4. writeMu \in [Clients -> BOOLEAN] /\ page \in [Clients -> {"new", "open", "closed"}]
  OBVIOUS
<1> QED
  BY <1>1, <1>2, <1>3, <1>4, <1>5, <1>6 DEF TypeOK

(* What is written to a page is added to its frames, or the page is closed. *)
LEMMA DeliverTyped ==
  ASSUME TypeOK, NEW c \in Clients, NEW frame \in Frame, Deliver(c, frame)
  PROVE  /\ frames' \in [Clients -> Seq(Frame)] /\ members' \subseteq Clients
         /\ page' \in [Clients -> {"new", "open", "closed"}]
<1>1. Append(frames[c], frame) \in Seq(Frame)
  BY DEF TypeOK
<1> QED
  BY <1>1 DEF TypeOK, Deliver, Retire

(* Every step of the stream keeps its types. *)
LEMMA NextType == TypeOK /\ LogInv /\ EntryInv /\ [Next]_vars => TypeOK'
<1> SUFFICES ASSUME TypeOK, LogInv, EntryInv, [Next]_vars PROVE TypeOK'
  OBVIOUS
<1> USE LogAssumption DEF TypeOK
<1>1. \A id \in Nat : Line(id) \in Frame
  BY DEF Line, Frame
<1>2. \A s \in Seq(Nat) : Snapshot(s) \in Frame
  BY DEF Snapshot, Frame
<1>3. ASSUME NEW w \in Writers, Check(w) PROVE TypeOK'
  BY <1>3 DEF Check, log
<1>4. ASSUME NEW w \in Writers, Publish(w) PROVE TypeOK'
  <2>1. retained' \in Seq(Nat)
    BY <1>4, LimitedAppend DEF Publish, LogInv
  <2>2. nextID \in IDs /\ nextID + 1 \in 0..MaxEntries
    BY <1>4 DEF Publish, IDs
  <2> QED
    BY <1>4, <2>1, <2>2 DEF Publish
<1>5. ASSUME NEW w \in Writers, Published(w) PROVE TypeOK'
  BY <1>5 DEF Published, log
<1>6. ASSUME NEW w \in Writers, NEW c \in Clients, Write(w, c) PROVE TypeOK'
  <2>1. todo' \in [Writers -> SUBSET Clients]
    BY <1>6 DEF Write
  <2>2. Line(entry[w]) \in Frame
    BY <1>1, <1>6 DEF Write, IDs, EntryInv
  <2> QED
    BY <1>6, <2>1, <2>2, DeliverTyped DEF Write, log
<1>7. ASSUME NEW c \in Clients, Attach(c) PROVE TypeOK'
  BY <1>7 DEF Attach, log, writers
<1>8. ASSUME NEW c \in Clients, SendSnapshot(c) PROVE TypeOK'
  BY <1>2, <1>8, DeliverTyped DEF SendSnapshot, log, writers
<1>9. ASSUME NEW c \in Clients, Leave(c) PROVE TypeOK'
  BY <1>9 DEF Leave, Retire, log, writers
<1>10. ASSUME NEW c \in Clients, Close(c) PROVE TypeOK'
  BY <1>10 DEF Close, log, writers
<1>11. CASE Stop
  BY <1>11 DEF Stop, log, writers
<1>12. CASE UNCHANGED vars
  BY <1>12 DEF vars, log, writers
<1> QED
  BY <1>3, <1>4, <1>5, <1>6, <1>7, <1>8, <1>9, <1>10, <1>11, <1>12 DEF Next

-----------------------------------------------------------------------------
(* The parts of StreamInv, in the order in which they rest on each other. *)
LEMMA NextLog == TypeOK /\ LogInv /\ [Next]_vars => LogInv'
<1> SUFFICES ASSUME TypeOK, LogInv, [Next]_vars PROVE LogInv'
  OBVIOUS
<1>1. ASSUME NEW w \in Writers, Publish(w) PROVE LogInv'
  <2>1. LET t == Limited(Append(retained, nextID)) IN t # <<>> /\ EndsBefore(t, nextID + 1)
    BY LimitedAppend DEF LogInv, TypeOK
  <2> QED
    BY <1>1, <2>1 DEF Publish, LogInv
<1>2. CASE UNCHANGED log
  BY <1>2 DEF log, LogInv, EndsBefore
<1> QED
  BY <1>1, <1>2 DEF Next, Check, Published, Write, Attach, SendSnapshot, Leave, Close, Stop, vars

(* A line's ID is given out once, under mu. *)
LEMMA NextEntry == TypeOK /\ EntryInv /\ [Next]_vars => EntryInv'
<1> SUFFICES ASSUME TypeOK, EntryInv, [Next]_vars PROVE EntryInv'
  OBVIOUS
<1> USE LogAssumption DEF TypeOK, EntryInv
<1>1. ASSUME NEW w \in Writers, Publish(w) PROVE EntryInv'
  BY <1>1 DEF Publish
<1>2. ASSUME NEW w \in Writers, Check(w) PROVE EntryInv'
  BY <1>2 DEF Check, log
<1>3. ASSUME NEW w \in Writers, Published(w) PROVE EntryInv'
  BY <1>3 DEF Published, log
<1>4. ASSUME NEW w \in Writers, NEW c \in Clients, Write(w, c) PROVE EntryInv'
  BY <1>4 DEF Write, log
<1>5. CASE UNCHANGED <<log, writers>>
  BY <1>5 DEF log, writers
<1> QED
  BY <1>1, <1>2, <1>3, <1>4, <1>5 DEF Next, Attach, SendSnapshot, Leave, Close, Stop, vars

(* Nothing is begun for a page before it attaches. *)
LEMMA NextNew == TypeOK /\ NewInv /\ [Next]_vars => NewInv'
<1> SUFFICES ASSUME TypeOK, NewInv, [Next]_vars PROVE NewInv'
  OBVIOUS
<1> USE DEF TypeOK, NewInv
<1>1. ASSUME NEW w \in Writers, Publish(w) PROVE NewInv'
  BY <1>1 DEF Publish
<1>2. ASSUME NEW w \in Writers, NEW c \in Clients, Write(w, c) PROVE NewInv'
  BY <1>2 DEF Write, Deliver, Retire
<1>3. ASSUME NEW c \in Clients, Attach(c) PROVE NewInv'
  BY <1>3 DEF Attach, writers
<1>4. ASSUME NEW c \in Clients, SendSnapshot(c) PROVE NewInv'
  BY <1>4 DEF SendSnapshot, Deliver, Retire, writers
<1>5. ASSUME NEW c \in Clients, Leave(c) \/ Close(c) PROVE NewInv'
  BY <1>5 DEF Leave, Close, Retire, writers
<1>6. CASE members' \subseteq members /\ UNCHANGED <<todo, writeMu, page, frames>>
  BY <1>6
<1> QED
  BY <1>1, <1>2, <1>3, <1>4, <1>5, <1>6 DEF Next, Check, Published, Stop, writers, vars

(* What was copied for a page stays, while the retained lines move on. *)
LEMMA NextCopy == TypeOK /\ LogInv /\ NewInv /\ CopyInv /\ [Next]_vars => CopyInv'
<1> SUFFICES ASSUME TypeOK, LogInv, NewInv, CopyInv, [Next]_vars, NEW c \in Clients, page'[c] # "new"
             PROVE  (EndsBefore(snapshot[c], Start(c)) /\ Start(c) <= nextID
                     /\ Start(c) - Len(snapshot[c]) <= nextID - Len(retained))'
  BY DEF CopyInv
<1>1. /\ Start(c) \in Nat /\ Len(snapshot[c]) \in Nat /\ nextID \in Nat /\ Len(retained) \in Nat
      /\ retained \in Seq(Nat)
  BY AfterIsNat DEF TypeOK, Start
<1>2. page[c] # "new" => /\ EndsBefore(snapshot[c], Start(c)) /\ Start(c) <= nextID
                         /\ Start(c) - Len(snapshot[c]) <= nextID - Len(retained)
  BY DEF CopyInv
<1>3. CASE Attach(c)
  <2>1. After(retained) = nextID
    BY <1>1, AfterEnds DEF LogInv
  <2>2. snapshot'[c] = retained /\ retained' = retained /\ nextID' = nextID
    BY <1>3 DEF Attach, log, TypeOK
  <2> QED
    BY <1>1, <2>1, <2>2 DEF Start, LogInv, EndsBefore
<1>4. ASSUME ~Attach(c) PROVE page[c] # "new" /\ snapshot'[c] = snapshot[c]
  <2>1. ASSUME NEW d \in Clients, Attach(d) PROVE page[c] # "new" /\ snapshot'[c] = snapshot[c]
    BY <1>4, <2>1 DEF Attach, TypeOK
  <2>2. ASSUME NEW d \in Clients, SendSnapshot(d) \/ Leave(d) \/ Close(d)
        PROVE  page[c] # "new" /\ snapshot'[c] = snapshot[c]
    BY <2>2 DEF NewInv, SendSnapshot, Leave, Close, Deliver, Retire, TypeOK
  <2>3. ASSUME NEW w \in Writers, NEW d \in Clients, Write(w, d) PROVE page[c] # "new" /\ snapshot'[c] = snapshot[c]
    BY <2>3 DEF NewInv, Write, Deliver, Retire, TypeOK
  <2>4. CASE UNCHANGED <<page, snapshot>>
    BY <2>4
  <2>5. ASSUME NEW w \in Writers, Check(w) \/ Publish(w) \/ Published(w) PROVE UNCHANGED <<page, snapshot>>
    BY <2>5 DEF Check, Publish, Published
  <2>6. Stop \/ UNCHANGED vars => UNCHANGED <<page, snapshot>>
    BY DEF Stop, vars
  <2> QED
    BY <2>1, <2>2, <2>3, <2>4, <2>5, <2>6 DEF Next
<1>5. nextID' \in Nat /\ Len(retained') \in Nat /\ nextID <= nextID' /\ nextID - Len(retained) <= nextID' - Len(retained')
  <2>1. ASSUME NEW w \in Writers, Publish(w) PROVE nextID' = nextID + 1 /\ retained' \in Seq(Nat) /\ Len(retained') <= Len(retained) + 1
    BY <1>1, <2>1, LimitedAppend DEF Publish, LogInv
  <2>2. UNCHANGED log \/ \E w \in Writers : Publish(w)
    BY DEF Next, Check, Published, Write, Attach, SendSnapshot, Leave, Close, Stop, vars
  <2>3. CASE UNCHANGED log
    BY <1>1, <2>3 DEF log
  <2>4. CASE \E w \in Writers : Publish(w)
    <3>1. nextID' = nextID + 1 /\ retained' \in Seq(Nat) /\ Len(retained') <= Len(retained) + 1
      BY <2>1, <2>4
    <3>2. Len(retained') \in Nat
      BY <3>1
    <3> QED
      BY <1>1, <3>1, <3>2
  <2> QED
    BY <2>2, <2>3, <2>4
<1>6. CASE ~Attach(c)
  <2>1. Start(c)' = Start(c)
    BY <1>4, <1>6 DEF Start
  <2> QED
    BY <1>1, <1>2, <1>4, <1>5, <1>6, <2>1 DEF EndsBefore
<1> QED
  BY <1>3, <1>6

(* A line is written to a page after the snapshot, which is written under the lock. *)
LEMMA NextOrder == TypeOK /\ EntryInv /\ NewInv /\ OrderInv /\ [Next]_vars => OrderInv'
<1> SUFFICES ASSUME TypeOK, EntryInv, NewInv, OrderInv, [Next]_vars PROVE OrderInv'
  OBVIOUS
<1> DEFINE Ordered(c) == \A i \in 1..Len(frames[c]) : IF i = 1 THEN frames[c][i] = Snapshot(snapshot[c])
                                                     ELSE \E n \in Nat : frames[c][i] = Line(n)
<1>1. \A c \in Clients : /\ writeMu[c] => frames[c] = <<>>
                         /\ page[c] = "open" /\ ~writeMu[c] => frames[c] # <<>>
                         /\ Ordered(c) /\ frames[c] \in Seq(Frame) /\ snapshot[c] \in Seq(Nat)
  BY DEF OrderInv, TypeOK
<1>2. SUFFICES ASSUME NEW c \in Clients
               PROVE  /\ writeMu'[c] => frames'[c] = <<>>
                      /\ page'[c] = "open" /\ ~writeMu'[c] => frames'[c] # <<>>
                      /\ Ordered(c)'
  BY DEF OrderInv
<1> HIDE DEF Ordered
<1>3. ASSUME NEW w \in Writers, Write(w, c)
      PROVE  /\ writeMu'[c] => frames'[c] = <<>>
             /\ page'[c] = "open" /\ ~writeMu'[c] => frames'[c] # <<>>
             /\ Ordered(c)'
  <2>1. entry[w] \in Nat /\ ~writeMu[c] /\ writeMu' = writeMu /\ snapshot' = snapshot
    BY <1>3 DEF Write, EntryInv, TypeOK
  <2>2. CASE page[c] = "open" /\ frames'[c] = Append(frames[c], Line(entry[w]))
    <3>1. frames[c] # <<>> /\ Len(frames[c]) \in Nat \ {0} /\ Len(frames'[c]) = Len(frames[c]) + 1
      BY <1>1, <2>1, <2>2
    <3>2. \A i \in 1..Len(frames'[c]) : frames'[c][i] = IF i <= Len(frames[c]) THEN frames[c][i] ELSE Line(entry[w])
      BY <1>1, <2>2, <3>1
    <3>3. Ordered(c)'
      <4>1. ASSUME NEW i \in 1..Len(frames'[c])
            PROVE  IF i = 1 THEN frames'[c][i] = Snapshot(snapshot'[c]) ELSE \E n \in Nat : frames'[c][i] = Line(n)
        <5>1. CASE i <= Len(frames[c])
          <6>1. i \in 1..Len(frames[c]) /\ frames'[c][i] = frames[c][i]
            BY <3>1, <3>2, <5>1
          <6> QED
            BY <1>1, <2>1, <6>1 DEF Ordered
        <5>2. CASE ~(i <= Len(frames[c]))
          BY <2>1, <3>1, <3>2, <5>2
        <5> QED
          BY <5>1, <5>2
      <4> QED
        BY <4>1 DEF Ordered
    <3> QED
      BY <2>1, <3>1, <3>3
  <2>3. CASE page'[c] = "closed" /\ frames' = frames
    BY <1>1, <2>1, <2>3 DEF Ordered
  <2> QED
    BY <1>3, <2>2, <2>3 DEF Write, Deliver, Retire, TypeOK
<1>4. CASE Attach(c)
  <2>1. frames[c] = <<>> /\ frames' = frames /\ writeMu'[c]
    BY <1>4 DEF Attach, NewInv, TypeOK
  <2> QED
    BY <2>1 DEF Ordered
<1>5. CASE SendSnapshot(c)
  <2>1. frames[c] = <<>> /\ snapshot' = snapshot
    BY <1>1, <1>5 DEF SendSnapshot
  <2>2. CASE frames' = [frames EXCEPT ![c] = Append(@, Snapshot(snapshot[c]))]
    <3>1. frames'[c] = <<Snapshot(snapshot[c])>>
      BY <2>1, <2>2 DEF TypeOK
    <3> QED
      BY <1>5, <2>1, <3>1 DEF Ordered, SendSnapshot, TypeOK
  <2>3. CASE page'[c] = "closed" /\ frames' = frames
    BY <1>5, <2>1, <2>3 DEF Ordered, SendSnapshot, TypeOK
  <2> QED
    BY <1>5, <2>2, <2>3 DEF SendSnapshot, Deliver, Retire, TypeOK
<1>6. CASE /\ writeMu'[c] = writeMu[c] /\ frames'[c] = frames[c] /\ snapshot'[c] = snapshot[c]
           /\ page'[c] = "open" => page[c] = "open"
  BY <1>1, <1>6 DEF Ordered
<1>7. ASSUME NEW d \in Clients, d # c, Attach(d) \/ SendSnapshot(d) \/ \E w \in Writers : Write(w, d)
      PROVE  /\ writeMu'[c] = writeMu[c] /\ frames'[c] = frames[c] /\ snapshot'[c] = snapshot[c]
             /\ page'[c] = page[c]
  BY <1>7 DEF Attach, SendSnapshot, Write, Deliver, Retire, TypeOK
<1>8. ASSUME NEW d \in Clients, Leave(d) \/ Close(d)
      PROVE  /\ writeMu'[c] = writeMu[c] /\ frames'[c] = frames[c] /\ snapshot'[c] = snapshot[c]
             /\ page'[c] = "open" => page[c] = "open"
  BY <1>8 DEF Leave, Close, Retire, TypeOK
<1>9. CASE UNCHANGED <<writeMu, frames, snapshot, page>>
  BY <1>6, <1>9
<1> QED
  BY <1>3, <1>4, <1>5, <1>6, <1>7, <1>8, <1>9 DEF Next, Check, Publish, Published, Stop, vars

(* Each step hands a page at most the line it awaits, and each line is awaited by *)
(* the pages that are members when it is published.                               *)
LEMMA NextLine == TypeOK /\ LogInv /\ EntryInv /\ NewInv /\ CopyInv /\ OrderInv /\ LineInv /\ [Next]_vars => LineInv'
<1> SUFFICES ASSUME TypeOK, LogInv, EntryInv, NewInv, CopyInv, OrderInv, LineInv, [Next]_vars,
                    NEW c \in members', page'[c] = "open"
             PROVE  OnceEach(c)'
  BY DEF LineInv
<1>1. c \in Clients /\ nextID \in Nat /\ frames[c] \in Seq(Frame) /\ Len(frames[c]) \in Nat
  <2>1. c \in Clients
    BY DEF TypeOK, Next, Check, Publish, Published, Write, Deliver, Retire, Attach, SendSnapshot, Leave, Close, Stop, vars
  <2> QED
    BY <2>1 DEF TypeOK
<1>2. CASE Attach(c)
  <2>1. frames'[c] = <<>> /\ (\A w \in Writers : c \notin todo'[w]) /\ nextID' = nextID /\ snapshot'[c] = retained
    BY <1>1, <1>2 DEF Attach, NewInv, TypeOK, log, writers
  <2>2. Start(c)' = nextID
    BY <2>1, AfterEnds DEF Start, LogInv, TypeOK
  <2>3. \A n : ~Had(c, n)' /\ ~Awaits(c, n)'
    BY <2>1 DEF Had, Awaits
  <2>4. 2..Len(frames'[c]) = {}
    BY <2>1
  <2> QED
    BY <1>1, <2>1, <2>2, <2>3, <2>4 DEF OnceEach
<1>3. CASE c \in members /\ page[c] = "open"
  <2>1. OnceEach(c)
    BY <1>3 DEF LineInv
  <2>2. ASSUME frames'[c] = frames[c], snapshot'[c] = snapshot[c], nextID' = nextID,
               \A n \in Nat : Awaits(c, n)' <=> Awaits(c, n)
        PROVE  OnceEach(c)'
    BY <2>1, <2>2 DEF OnceEach, Had, LineAt, Start
  <2>3. ASSUME NEW w \in Writers, Publish(w) PROVE OnceEach(c)'
    <3>1. frames' = frames /\ snapshot' = snapshot /\ nextID' = nextID + 1
      BY <2>3 DEF Publish
    <3>2. \A n \in Nat : Awaits(c, n)' <=> Awaits(c, n) \/ n = nextID
      <4>1. c \notin todo[w] /\ c \in todo'[w] /\ entry'[w] = nextID
        BY <1>3, <2>3, LogAssumption DEF Publish, EntryInv, TypeOK
      <4>2. \A v \in Writers : v # w => todo'[v] = todo[v] /\ entry'[v] = entry[v]
        BY <2>3 DEF Publish, TypeOK
      <4> QED
        BY <1>1, <4>1, <4>2 DEF Awaits
    <3>3. \A n \in Nat : Had(c, n)' <=> Had(c, n)
      BY <3>1 DEF Had, LineAt
    <3>4. Start(c)' = Start(c) /\ Start(c) \in Nat /\ Start(c) <= nextID
      BY <1>1, <1>3, <3>1, AfterIsNat DEF Start, TypeOK, CopyInv, NewInv
    <3>5. ~Had(c, nextID) /\ ~Awaits(c, nextID)
      BY <1>1, <2>1 DEF OnceEach
    <3>6. \A n \in Nat : (Start(c) <= n /\ n < nextID + 1) <=> (Had(c, n) \/ Awaits(c, n) \/ n = nextID)
      <4>1. \A n \in Nat : (Start(c) <= n /\ n < nextID) <=> (Had(c, n) \/ Awaits(c, n))
        BY <2>1 DEF OnceEach
      <4> QED
        BY <1>1, <3>4, <4>1
    <3>7. \A n \in Nat : ~(Had(c, n) /\ (Awaits(c, n) \/ n = nextID))
      BY <2>1, <3>5 DEF OnceEach
    <3>8. (\A i, j \in 2..Len(frames[c]) : LineAt(c, i) = LineAt(c, j) => i = j)'
      BY <2>1, <3>1 DEF OnceEach, LineAt
    <3> QED
      BY <3>1, <3>2, <3>3, <3>4, <3>6, <3>7, <3>8 DEF OnceEach
  <2>4. ASSUME NEW w \in Writers, Write(w, c) PROVE OnceEach(c)'
    <3>0. PICK id, len : id = entry[w] /\ len = Len(frames[c])
      OBVIOUS
    <3>1. /\ c \in todo[w] /\ id \in Nat /\ snapshot' = snapshot /\ nextID' = nextID /\ entry' = entry
          /\ todo' = [todo EXCEPT ![w] = @ \ {c}] /\ ~writeMu[c]
          /\ frames' = [frames EXCEPT ![c] = Append(@, Line(id))]
      BY <1>1, <2>4, <3>0 DEF Write, Deliver, Retire, log, EntryInv, TypeOK
    <3>2. /\ len >= 1 /\ Len(frames'[c]) = len + 1 /\ frames'[c][len + 1] = Line(id)
          /\ \A i \in 1..len : frames'[c][i] = frames[c][i]
      BY <1>1, <1>3, <3>0, <3>1 DEF OrderInv, TypeOK
    <3>3. LineAt(c, len + 1)' = id /\ \A i \in 2..len : LineAt(c, i)' = LineAt(c, i)
      BY <1>1, <3>0, <3>2 DEF LineAt, Line
    <3>4. \A n \in Nat : Had(c, n)' <=> Had(c, n) \/ n = id
      <4>1. \A i : i \in 2..(len + 1) <=> i \in 2..len \/ i = len + 1
        BY <1>1, <3>0, <3>2
      <4> QED
        BY <3>0, <3>2, <3>3, <4>1 DEF Had
    <3>5. \A n \in Nat : Awaits(c, n)' <=> Awaits(c, n) /\ n # id
      <4>1. \A v \in Writers : c \in todo'[v] <=> c \in todo[v] /\ v # w
        BY <3>1 DEF TypeOK
      <4>2. \A v \in Writers : entry[v] = id <=> v = w
        BY <3>0, <3>1 DEF EntryInv
      <4> QED
        BY <3>1, <4>1, <4>2 DEF Awaits
    <3>6. Awaits(c, id) /\ ~Had(c, id)
      BY <2>1, <3>0, <3>1 DEF Awaits, OnceEach
    <3>7. (\A i, j \in 2..Len(frames[c]) : LineAt(c, i) = LineAt(c, j) => i = j)'
      <4>1. \A i \in 2..len : LineAt(c, i) # id
        BY <3>0, <3>6 DEF Had
      <4>2. \A i, j \in 2..len : LineAt(c, i) = LineAt(c, j) => i = j
        BY <2>1, <3>0 DEF OnceEach
      <4>3. \A i \in 2..(len + 1) : i \in 2..len \/ i = len + 1
        BY <1>1, <3>0
      <4> QED
        BY <3>2, <3>3, <4>1, <4>2, <4>3
    <3>8. Start(c)' = Start(c)
      BY <3>1 DEF Start
    <3> QED
      BY <2>1, <3>1, <3>4, <3>5, <3>6, <3>7, <3>8 DEF OnceEach
  <2>5. CASE SendSnapshot(c)
    <3>1. /\ frames[c] = <<>> /\ snapshot' = snapshot /\ nextID' = nextID /\ UNCHANGED writers
          /\ frames' = [frames EXCEPT ![c] = Append(@, Snapshot(snapshot[c]))]
      BY <1>1, <2>5 DEF SendSnapshot, Deliver, Retire, log, OrderInv, TypeOK
    <3>2. 2..Len(frames[c]) = {} /\ 2..Len(frames'[c]) = {}
      BY <1>1, <3>1 DEF TypeOK
    <3> QED
      BY <2>1, <3>1, <3>2 DEF OnceEach, Had, Awaits, Start, writers
  <2>6. ASSUME NEW w \in Writers, Check(w) \/ Published(w) PROVE OnceEach(c)'
    <3>1. frames' = frames /\ snapshot' = snapshot /\ nextID' = nextID /\ todo' = todo /\ todo[w] = {}
      BY <2>6, LogAssumption DEF Check, Published, log, EntryInv, TypeOK
    <3>2. \A v \in Writers : v # w => entry'[v] = entry[v]
      BY <2>6 DEF Check, Published, TypeOK
    <3> QED
      BY <2>2, <3>1, <3>2 DEF Awaits
  <2>7. ASSUME NEW d \in Clients, d # c, Attach(d) \/ SendSnapshot(d) PROVE OnceEach(c)'
    <3>1. /\ frames'[c] = frames[c] /\ snapshot'[c] = snapshot[c] /\ nextID' = nextID
          /\ todo' = todo /\ entry' = entry
      BY <1>1, <2>7 DEF Attach, SendSnapshot, Deliver, Retire, log, writers, TypeOK
    <3> QED
      BY <2>2, <3>1 DEF Awaits
  <2>8. ASSUME NEW w \in Writers, NEW d \in Clients, d # c, Write(w, d) PROVE OnceEach(c)'
    <3>1. /\ frames'[c] = frames[c] /\ snapshot'[c] = snapshot[c] /\ nextID' = nextID /\ entry' = entry
          /\ \A v \in Writers : c \in todo'[v] <=> c \in todo[v]
      BY <1>1, <2>8 DEF Write, Deliver, Retire, log, TypeOK
    <3> QED
      BY <2>2, <3>1 DEF Awaits
  <2>9. CASE UNCHANGED <<nextID, snapshot, todo, entry, frames>>
    BY <2>2, <2>9 DEF Awaits
  <2> QED
    BY <1>1, <1>3, <2>3, <2>4, <2>5, <2>6, <2>7, <2>8, <2>9
       DEF Next, Leave, Close, Stop, Attach, vars, log, writers
<1>4. CASE ~(c \in members /\ page[c] = "open") /\ ~Attach(c)
  BY <1>1, <1>4 DEF Next, Check, Publish, Published, Write, Deliver, Retire, Attach, SendSnapshot, Leave, Close, Stop,
     vars, TypeOK
<1> QED
  BY <1>2, <1>3, <1>4

(* The stream's types and the invariant hold throughout. *)
LEMMA AlwaysStream == Spec => [](TypeOK /\ StreamInv)
<1>1. Init => TypeOK /\ StreamInv
  <2>1. Init => LogInv /\ EntryInv /\ NewInv /\ CopyInv /\ LineInv
    BY LogAssumption DEF Init, LogInv, EndsBefore, EntryInv, NewInv, CopyInv, LineInv
  <2>2. Init => OrderInv
    <3>1. Init => \A c \in Clients : frames[c] = <<>> /\ ~writeMu[c] /\ page[c] = "new"
      BY DEF Init
    <3>2. Len(<<>>) = 0
      OBVIOUS
    <3>3. 1..0 = {}
      OBVIOUS
    <3> QED
      BY <3>1, <3>2, <3>3 DEF OrderInv
  <2> QED
    BY InitType, <2>1, <2>2 DEF StreamInv
<1>2. TypeOK /\ StreamInv /\ [Next]_vars => (TypeOK /\ StreamInv)'
  BY NextType, NextLog, NextEntry, NextNew, NextCopy, NextOrder, NextLine DEF StreamInv
<1> QED
  BY <1>1, <1>2, PTL DEF Spec

(* A page that is caught up has the retained lines and each later one, once. *)
THEOREM NeitherGapNorDuplicate == PageSpec => []NoGapNoDuplicate
<1>1. TypeOK /\ StreamInv => NoGapNoDuplicate
  <2> SUFFICES ASSUME TypeOK, StreamInv PROVE NoGapNoDuplicate
    OBVIOUS
  <2> USE DEF StreamInv
  <2>1. ASSUME NEW c \in Clients PROVE SnapshotFirst(c)
    <3>1. DOMAIN frames[c] = 1..Len(frames[c])
      BY DEF TypeOK
    <3>2. ASSUME NEW i \in 1..Len(frames[c]) PROVE frames[c][i].type = IF i = 1 THEN "snapshot" ELSE "entry"
      <4>1. CASE i = 1
        <5>1. frames[c][i] = Snapshot(snapshot[c])
          BY <4>1 DEF OrderInv
        <5> QED
          BY <4>1, <5>1 DEF Snapshot
      <4>2. CASE i # 1
        <5>1. PICK n \in Nat : frames[c][i] = Line(n)
          BY <4>2 DEF OrderInv
        <5> QED
          BY <4>2, <5>1 DEF Line
      <4> QED
        BY <4>1, <4>2
    <3> QED
      BY <3>1, <3>2 DEF SnapshotFirst
  <2>2. ASSUME NEW c \in members, page[c] = "open", ~writeMu[c], \A w \in Writers : c \notin todo[w]
        PROVE  LET first == frames[c][1].entries
                   lines == 2..Len(frames[c])
               IN /\ EndsBefore(first, After(first))
                  /\ After(first) - Len(first) <= nextID - Len(retained)
                  /\ {LineAt(c, i) : i \in lines} = After(first)..(nextID - 1)
                  /\ \A i, j \in lines : LineAt(c, i) = LineAt(c, j) => i = j
    <3>0. c \in Clients /\ Len(frames[c]) \in Nat \ {0}
      BY <2>2 DEF TypeOK, OrderInv
    <3>1. frames[c][1].entries = snapshot[c]
      <4>1. frames[c][1] = Snapshot(snapshot[c])
        BY <3>0 DEF OrderInv
      <4> QED
        BY <4>1 DEF Snapshot
    <3>2. /\ EndsBefore(snapshot[c], Start(c)) /\ Start(c) - Len(snapshot[c]) <= nextID - Len(retained)
      BY <2>2 DEF TypeOK, CopyInv
    <3>3. \A n \in Nat : (Start(c) <= n /\ n < nextID) <=> Had(c, n)
      BY <2>2 DEF LineInv, OnceEach, Awaits
    <3>4. \A i \in 2..Len(frames[c]) : LineAt(c, i) \in Nat
      <4> SUFFICES ASSUME NEW i \in 2..Len(frames[c]) PROVE LineAt(c, i) \in Nat
        OBVIOUS
      <4>1. PICK n \in Nat : frames[c][i] = Line(n)
        BY <3>0 DEF OrderInv
      <4> QED
        BY <4>1 DEF LineAt, Line
    <3>5. {LineAt(c, i) : i \in 2..Len(frames[c])} = Start(c)..(nextID - 1)
      <4>1. Start(c) \in Nat /\ nextID \in Nat
        BY <2>2, AfterIsNat DEF TypeOK, Start
      <4>2. \A n \in Nat : n \in Start(c)..(nextID - 1) <=> Had(c, n)
        BY <3>3, <4>1
      <4> QED
        BY <3>4, <4>1, <4>2 DEF Had
    <3> QED
      BY <2>2, <3>1, <3>2, <3>5 DEF LineInv, OnceEach, Start
  <2> QED
    BY <2>1, <2>2 DEF NoGapNoDuplicate
<1> QED
  BY <1>1, AlwaysStream, FeedComposed, PTL

-----------------------------------------------------------------------------
(* Limited keeps a sequence of lines. *)
LEMMA LimitedTyped == ASSUME NEW s \in Seq(Nat) PROVE Limited(s) \in Seq(Nat)
<1>1. CASE Len(s) > Retained
  <2>1. Len(s) - Retained + 1 \in 1..Len(s)
    BY <1>1, LogAssumption
  <2>2. SubSeq(s, Len(s) - Retained + 1, Len(s)) \in Seq(Nat)
    BY <2>1, LastOf
  <2> QED
    BY <1>1, <2>2 DEF Limited
<1>2. CASE ~(Len(s) > Retained)
  BY <1>2 DEF Limited
<1> QED
  BY <1>1, <1>2

(* A frame holds the retained lines, or one line. *)
LEMMA FrameOf ==
  ASSUME TypeOK, OrderInv, NEW c \in Clients, NEW i \in 1..Len(frames[c])
  PROVE  \/ frames[c][i].type = "snapshot" /\ frames[c][i].entries \in Seq(Nat)
         \/ frames[c][i].type = "entry" /\ \E n \in Nat : frames[c][i].entries = <<n>>
<1>1. CASE i = 1
  <2>1. frames[c][i] = Snapshot(snapshot[c])
    BY <1>1 DEF OrderInv
  <2> QED
    BY <2>1 DEF Snapshot, TypeOK
<1>2. CASE i # 1
  <2>1. PICK n \in Nat : frames[c][i] = Line(n)
    BY <1>2 DEF OrderInv
  <2> QED
    BY <2>1 DEF Line
<1> QED
  BY <1>1, <1>2

(* What a message leaves is told to the page and shown or put aside alike. *)
LEMMA HandleKeeps ==
  ASSUME RowsTypeOK, RowsInv, TypeOK, OrderInv, ~ended,
         NEW c \in Clients, NEW i \in 1..Len(frames[c]), Handle(frames[c][i]),
         UNCHANGED <<conn, timer, ended, shown, hovered, paused, effect>>, taken' \in Nat
  PROVE  RowsTypeOK' /\ RowsInv'
<1> USE PageAssumption DEF RowsTypeOK
<1>1. PICK told : /\ told = Limited(IF frames[c][i].type = "snapshot" THEN frames[c][i].entries
                                    ELSE expected \o frames[c][i].entries)
                  /\ expected' = told
  BY DEF Handle
<1>2. PICK rows : /\ rows = Limited(IF frames[c][i].type = "snapshot" THEN frames[c][i].entries
                                    ELSE Grown(frames[c][i].entries[1]))
                  /\ Apply(rows)
  BY DEF Handle
<1>3. CASE frames[c][i].type = "snapshot"
  <2>1. rows = told /\ rows \in Seq(Nat)
    BY <1>1, <1>2, <1>3, FrameOf, LimitedTyped
  <2>2. hurried' = (pending # None /\ ~paused)
    BY <1>3 DEF Handle
  <2>3. RowsTypeOK'
    BY <1>1, <1>2, <2>1 DEF Apply
  <2>4. CASE paused
    BY <1>1, <1>2, <2>1, <2>4 DEF Apply, RowsInv
  <2>5. CASE ~paused
    BY <1>1, <1>2, <2>1, <2>2, <2>5 DEF Apply, RowsInv, Latest
  <2> QED
    BY <2>3, <2>4, <2>5
<1>4. CASE frames[c][i].type = "entry"
  <2>1. PICK n \in Nat : frames[c][i].entries = <<n>>
    BY <1>4, FrameOf
  <2>2. /\ rows = Limited(Append(IF pending # None THEN pending ELSE shown, n))
        /\ told = Limited(Append(expected, n))
    <3>1. frames[c][i].type # "snapshot" /\ <<n>>[1] = n /\ expected \o <<n>> = Append(expected, n)
      BY <1>4
    <3> QED
      BY <1>1, <1>2, <2>1, <3>1 DEF Grown
  <2>3. rows \in Seq(Nat) /\ told \in Seq(Nat)
    <3>1. \A s \in Seq(Nat) : Append(s, n) \in Seq(Nat)
      OBVIOUS
    <3> QED
      BY <2>2, <3>1, LimitedTyped
  <2>4. hurried' = (hurried \/ set # None \/ (effect /\ ~paused))
    BY <1>4 DEF Handle
  <2>5. RowsTypeOK'
    BY <1>1, <1>2, <2>3 DEF Apply
  <2>6. CASE hurried'
    BY <2>5, <2>6 DEF RowsInv
  <2>7. CASE ~hurried' /\ paused
    BY <1>1, <1>2, <2>2, <2>3, <2>4, <2>7 DEF Apply, RowsInv, Latest
  <2>8. CASE ~hurried' /\ ~paused
    BY <1>1, <1>2, <2>2, <2>3, <2>4, <2>8 DEF Apply, RowsInv, Latest
  <2> QED
    BY <2>5, <2>6, <2>7, <2>8
<1> QED
  BY <1>3, <1>4, FrameOf

(* While React catches up between lines, the page has the rows it was told of. *)
THEOREM RowsKept == PageSpec => []KeepsWhatCame
<1>1. PageInit => RowsTypeOK /\ RowsInv
  <2>1. <<>> \in Seq(Nat)
    OBVIOUS
  <2> QED
    BY <2>1, PageAssumption DEF PageInit, RowsTypeOK, RowsInv, Latest
<1>2. TypeOK /\ OrderInv /\ RowsTypeOK /\ RowsInv /\ [PageNext]_allVars => RowsTypeOK' /\ RowsInv'
  <2> SUFFICES ASSUME TypeOK, OrderInv, RowsTypeOK, RowsInv, [PageNext]_allVars
               PROVE  RowsTypeOK' /\ RowsInv'
    OBVIOUS
  <2>1. CASE Receive
    <3>1. conn \in Clients /\ taken + 1 \in 1..Len(frames[conn]) /\ taken' = taken + 1 /\ taken' \in Nat
      BY <2>1 DEF Receive, RowsTypeOK, TypeOK
    <3>2. CASE ended
      BY <2>1, <3>1, <3>2 DEF Receive, RowsTypeOK, RowsInv, react, observer
    <3>3. CASE ~ended
      BY <2>1, <3>1, <3>3, HandleKeeps DEF Receive
    <3> QED
      BY <3>2, <3>3
  <2>2. CASE ShowPending
    BY <2>2 DEF ShowPending, socket, observer, RowsTypeOK, RowsInv, Latest
  <2>3. CASE Render
    <3>1. RowsTypeOK' /\ Latest' = Latest
      BY <2>3 DEF Render, socket, observer, RowsTypeOK, Latest
    <3>2. paused' \/ effect' \/ ~paused
      BY <2>3 DEF Render
    <3> QED
      BY <2>3, <3>1, <3>2 DEF Render, socket, observer, RowsInv
  <2>4. CASE Hover
    BY <2>4 DEF Hover, socket, observer, RowsTypeOK, RowsInv, Latest
  <2>5. CASE Unmount
    BY <2>5 DEF Unmount, react, observer, RowsTypeOK, RowsInv
  <2>6. ASSUME NEW c \in Clients, Connect(c) \/ Accept(c) PROVE RowsTypeOK' /\ RowsInv'
    BY <2>6 DEF Connect, Accept, react, observer, RowsTypeOK, RowsInv, Latest
  <2>7. CASE Disconnect
    BY <2>7 DEF Disconnect, react, observer, RowsTypeOK, RowsInv, Latest
  <2>8. CASE UNCHANGED pageVars
    BY <2>8 DEF pageVars, socket, react, observer, RowsTypeOK, RowsInv, Latest
  <2> QED
    BY <2>1, <2>2, <2>3, <2>4, <2>5, <2>6, <2>7, <2>8 DEF PageNext, Server, Break, allVars
<1>3. RowsInv => KeepsWhatCame
  BY DEF RowsInv, KeepsWhatCame
<1> QED
  BY <1>1, <1>2, <1>3, FeedComposed, AlwaysStream, PTL DEF PageSpec, StreamInv

-----------------------------------------------------------------------------
(* The health stream. It shares nothing with the log stream but that the server *)
(* stops.                                                                       *)

\* What is being sent is what was recorded.
SenderInv == \A p \in Procs : pc[p] = "send" => message[p] = board

\* A page is attached by its own handler, which has not begun while it is new.
UnattachedInv == \A c \in Clients : connection[c] = "new" => pc[c] = "idle" /\ c \notin healthClients

\* A page that lacks the recorded health is about to be sent it.
DeliverInv ==
  \A c \in healthClients : connection[c] = "open" =>
    held[c] = board \/ \E p \in Procs : pc[p] = "send" /\ c \in recipients[p]

HealthInv == HealthTypeOK /\ SenderInv /\ UnattachedInv /\ DeliverInv

-----------------------------------------------------------------------------
\* Nobody sends and no page is attached when the server starts.
LEMMA InitHealth == HealthInit => HealthInv
<1> SUFFICES ASSUME HealthInit PROVE HealthInv
  OBVIOUS
<1>1. HealthTypeOK
  <2>1. 0 \in Versions
    BY HealthFeedAssumption DEF Versions
  <2>2. \A p \in Procs : pc[p] = "send" <=> mutex = p
    BY HealthFeedAssumption DEF HealthInit
  <2> QED
    BY <2>1, <2>2 DEF HealthInit, HealthTypeOK
<1>2. SenderInv /\ UnattachedInv /\ DeliverInv
  BY DEF HealthInit, SenderInv, UnattachedInv, DeliverInv, Procs
<1> QED
  BY <1>1, <1>2 DEF HealthInv

\* A step that writes to no page, records nothing and ends no publish keeps
\* what the recorded health and the pages have to do with each other.
LEMMA QuietStep ==
  ASSUME HealthInv, UNCHANGED <<board, held>>,
         \A p \in Procs : pc'[p] = "send" <=> pc[p] = "send",
         \A p \in Procs : pc[p] = "send" => message'[p] = message[p] /\ recipients'[p] = recipients[p],
         healthClients' \subseteq healthClients,
         \A c \in healthClients : connection'[c] = "open" => connection[c] = "open"
  PROVE  SenderInv' /\ DeliverInv'
<1> USE DEF HealthInv
<1>1. SenderInv'
  BY DEF SenderInv
<1>2. DeliverInv'
  <2> SUFFICES ASSUME NEW c \in healthClients', connection'[c] = "open"
               PROVE  held'[c] = board' \/ \E p \in Procs : pc'[p] = "send" /\ c \in recipients'[p]
    BY DEF DeliverInv
  <2> QED
    BY DEF DeliverInv
<1> QED
  BY <1>1, <1>2

\* The recording of a message makes it what is sent, to every page that lacks it.
LEMMA RecordStep == ASSUME HealthInv, NEW p \in Procs, Record(p) PROVE HealthInv'
<1> USE HealthFeedAssumption DEF HealthInv
<1>1. \A q \in Procs : pc[q] # "send"
  BY DEF Record, HealthTypeOK, Procs
<1>2. HealthTypeOK'
  <2>1. Joined(p) \subseteq Clients /\ {p} \intersect Clients \subseteq Clients
    BY DEF Joined, HealthTypeOK
  <2>2. recipients' \in [Procs -> SUBSET Clients]
    BY <2>1 DEF Record, HealthTypeOK
  <2>3. board' \in Versions \union {None}
    BY DEF Record, HealthTypeOK
  <2>4. pc' \in [Procs -> {"idle", "read", "lock", "send", "attached"}]
    BY DEF Record, HealthTypeOK
  <2>5. \A q \in Procs : pc'[q] = "send" <=> mutex' = q
    BY <1>1 DEF Record, HealthTypeOK
  <2> QED
    BY <2>1, <2>2, <2>3, <2>4, <2>5 DEF Record, HealthTypeOK, pages
<1>3. SenderInv'
  BY <1>1 DEF Record, SenderInv, HealthTypeOK
<1>4. UnattachedInv'
  BY DEF Record, UnattachedInv, HealthTypeOK, Joined, pages
<1>5. DeliverInv'
  <2> SUFFICES ASSUME NEW c \in healthClients', connection'[c] = "open"
               PROVE  held'[c] = board' \/ \E q \in Procs : pc'[q] = "send" /\ c \in recipients'[q]
    BY DEF DeliverInv
  <2>1. pc'[p] = "send"
    BY DEF Record, HealthTypeOK
  <2>2. c \in Joined(p) /\ connection[c] = "open" /\ held'[c] = held[c] /\ board' = message[p]
    BY DEF Record, pages
  <2>3. recipients'[p] = IF message[p] # board THEN Joined(p) ELSE {p} \intersect Clients
    BY DEF Record, HealthTypeOK
  <2>4. CASE message[p] # board
    BY <2>1, <2>2, <2>3, <2>4
  <2>5. CASE message[p] = board /\ c \in {p} \intersect Clients
    BY <2>1, <2>3, <2>5
  <2>6. CASE message[p] = board /\ c \in healthClients
    BY <1>1, <2>2, <2>6 DEF DeliverInv
  <2> QED
    BY <2>2, <2>4, <2>5, <2>6 DEF Joined
<1> QED
  BY <1>2, <1>3, <1>4, <1>5

\* A write gives the page the recorded health, or removes the page.
LEMMA SendStep ==
  ASSUME HealthInv, NEW p \in Procs, NEW c \in Clients, Send(p, c) PROVE HealthInv'
<1> USE DEF HealthInv
<1>1. pc[p] = "send" /\ message[p] = board /\ \A q \in Procs : pc[q] = "send" => q = p
  BY DEF Send, SenderInv, HealthTypeOK
<1>2. HealthTypeOK'
  BY DEF Send, HealthTypeOK
<1>3. SenderInv'
  BY DEF Send, SenderInv
<1>4. UnattachedInv'
  BY DEF Send, UnattachedInv, HealthTypeOK
<1>5. DeliverInv'
  <2> SUFFICES ASSUME NEW d \in healthClients', connection'[d] = "open"
               PROVE  held'[d] = board' \/ \E q \in Procs : pc'[q] = "send" /\ d \in recipients'[q]
    BY DEF DeliverInv
  <2>1. d \in healthClients /\ d \in Clients
    BY DEF Send, HealthTypeOK
  <2>2. CASE d = c
    BY <1>1, <2>1, <2>2 DEF Send, HealthTypeOK
  <2>3. CASE d # c
    <3>1. connection[d] = "open" /\ held'[d] = held[d] /\ board' = board /\ pc' = pc
      BY <2>1, <2>3 DEF Send, HealthTypeOK
    <3>2. recipients'[p] = recipients[p] \ {c}
      BY DEF Send, HealthTypeOK
    <3> QED
      BY <1>1, <2>1, <2>3, <3>1, <3>2 DEF DeliverInv
  <2> QED
    BY <2>2, <2>3
<1> QED
  BY <1>2, <1>3, <1>4, <1>5

\* When the holder of healthMu has written to everyone, every page has it.
LEMMA ReleaseStep == ASSUME HealthInv, NEW p \in Procs, Release(p) PROVE HealthInv'
<1> USE HealthFeedAssumption DEF HealthInv
<1>1. pc[p] = "send" /\ \A q \in Procs : pc[q] = "send" => q = p
  BY DEF Release, HealthTypeOK
<1>2. \A q \in Procs : pc'[q] # "send"
  BY <1>1 DEF Release, HealthTypeOK
<1>3. HealthTypeOK'
  BY <1>2 DEF Release, HealthTypeOK, pages
<1>4. SenderInv'
  BY <1>2 DEF SenderInv
<1>5. UnattachedInv'
  BY <1>1 DEF Release, UnattachedInv, HealthTypeOK, pages
<1>6. DeliverInv'
  BY <1>1 DEF Release, DeliverInv, pages
<1> QED
  BY <1>3, <1>4, <1>5, <1>6

\* The remaining steps are quiet.
LEMMA OtherSteps ==
  ASSUME HealthInv,
         \/ Change \/ StopHealth
         \/ \E p \in Procs : Begin(p) \/ Read(p) \/ ReadFails(p)
         \/ \E c \in Clients : AttachHealth(c) \/ LeaveHealth(c) \/ Remove(c) \/ CloseHealth(c)
  PROVE  HealthInv'
<1> USE HealthFeedAssumption DEF HealthInv
<1>1. CASE Change \/ StopHealth
  <2>1. HealthTypeOK'
    <3>1. health' \in Versions
      BY <1>1 DEF Change, StopHealth, HealthTypeOK, Versions
    <3> QED
      BY <1>1, <3>1 DEF Change, StopHealth, HealthTypeOK, procs, pages
  <2>2. UnattachedInv'
    BY <1>1 DEF Change, StopHealth, UnattachedInv, procs, pages
  <2>3. SenderInv' /\ DeliverInv'
    BY <1>1, QuietStep DEF Change, StopHealth, procs, pages
  <2> QED
    BY <2>1, <2>2, <2>3
<1>2. ASSUME NEW p \in Procs, Begin(p) \/ Read(p) \/ ReadFails(p) PROVE HealthInv'
  <2>1. HealthTypeOK'
    <3>1. pc' \in [Procs -> {"idle", "read", "lock", "send", "attached"}]
      BY <1>2 DEF Begin, Read, ReadFails, HealthTypeOK
    <3>2. message' \in [Procs -> Versions \union {None}]
      BY <1>2 DEF Begin, Read, ReadFails, HealthTypeOK
    <3>3. connection' \in [Clients -> {"new", "open", "closed"}]
      BY <1>2 DEF Begin, Read, ReadFails, HealthTypeOK, pages
    <3>4. \A q \in Procs : pc'[q] = "send" <=> mutex' = q
      BY <1>2 DEF Begin, Read, ReadFails, HealthTypeOK
    <3> QED
      BY <1>2, <3>1, <3>2, <3>3, <3>4 DEF Begin, Read, ReadFails, HealthTypeOK, pages
  <2>2. UnattachedInv'
    <3> SUFFICES ASSUME NEW c \in Clients, connection'[c] = "new"
                 PROVE  pc'[c] = "idle" /\ c \notin healthClients'
      BY DEF UnattachedInv
    <3>1. connection[c] = "new" /\ healthClients' = healthClients
      BY <1>2 DEF Begin, Read, ReadFails, HealthTypeOK, pages
    <3>2. pc[c] = "idle" /\ c \notin healthClients
      BY <3>1 DEF UnattachedInv
    <3>3. p # c
      BY <1>2, <3>2 DEF Begin, Read, ReadFails
    <3>4. c \in Procs
      BY DEF Procs
    <3> QED
      BY <1>2, <3>1, <3>2, <3>3, <3>4 DEF Begin, Read, ReadFails, HealthTypeOK
  <2>3. SenderInv' /\ DeliverInv'
    <3>1. /\ UNCHANGED <<board, held, healthClients, recipients>>
          /\ pc[p] # "send" /\ pc'[p] # "send"
          /\ \A q \in Procs : q # p => pc'[q] = pc[q] /\ message'[q] = message[q]
      BY <1>2 DEF Begin, Read, ReadFails, HealthTypeOK, pages
    <3>2. \A c \in healthClients : connection'[c] = "open" => connection[c] = "open"
      BY <1>2 DEF Begin, Read, ReadFails, HealthTypeOK, pages
    <3> QED
      BY <3>1, <3>2, QuietStep
  <2> QED
    BY <2>1, <2>2, <2>3
<1>3. ASSUME NEW c \in Clients, AttachHealth(c) \/ LeaveHealth(c) \/ Remove(c) \/ CloseHealth(c) PROVE HealthInv'
  <2>1. HealthTypeOK'
    <3>1. pc' \in [Procs -> {"idle", "read", "lock", "send", "attached"}]
      BY <1>3 DEF AttachHealth, LeaveHealth, Remove, CloseHealth, HealthTypeOK, procs
    <3>2. connection' \in [Clients -> {"new", "open", "closed"}]
      BY <1>3 DEF AttachHealth, LeaveHealth, Remove, CloseHealth, HealthTypeOK, pages
    <3>3. \A q \in Procs : pc'[q] = "send" <=> mutex' = q
      BY <1>3 DEF AttachHealth, LeaveHealth, Remove, CloseHealth, HealthTypeOK, UnattachedInv, procs
    <3> QED
      BY <1>3, <3>1, <3>2, <3>3 DEF AttachHealth, LeaveHealth, Remove, CloseHealth, HealthTypeOK, procs, pages
  <2>2. UnattachedInv'
    BY <1>3 DEF AttachHealth, LeaveHealth, Remove, CloseHealth, UnattachedInv, HealthTypeOK, procs, pages, Procs
  <2>3. SenderInv' /\ DeliverInv'
    <3>1. /\ UNCHANGED <<board, held, recipients, message>> /\ healthClients' \subseteq healthClients
          /\ \A q \in Procs : pc'[q] = "send" <=> pc[q] = "send"
      BY <1>3 DEF AttachHealth, LeaveHealth, Remove, CloseHealth, UnattachedInv, HealthTypeOK, procs, pages, Procs
    <3>2. \A d \in healthClients : connection'[d] = "open" => connection[d] = "open"
      BY <1>3 DEF AttachHealth, LeaveHealth, Remove, CloseHealth, UnattachedInv, HealthTypeOK, procs, pages
    <3> QED
      BY <3>1, <3>2, QuietStep
  <2> QED
    BY <2>1, <2>2, <2>3
<1> QED
  BY <1>1, <1>2, <1>3

\* Every step of the server keeps the invariant.
LEMMA NextHealth == ASSUME HealthInv, [HealthNext]_healthVars PROVE HealthInv'
<1>1. CASE UNCHANGED healthVars
  BY <1>1 DEF HealthInv, HealthTypeOK, SenderInv, UnattachedInv, DeliverInv, healthVars, procs, pages
<1>2. CASE \E p \in Procs : Record(p)
  BY <1>2, RecordStep
<1>3. CASE \E p \in Procs, c \in Clients : Send(p, c)
  BY <1>3, SendStep
<1>4. CASE \E p \in Procs : Release(p)
  BY <1>4, ReleaseStep
<1>5. CASE \/ Change \/ StopHealth
           \/ \E p \in Procs : Begin(p) \/ Read(p) \/ ReadFails(p)
           \/ \E c \in Clients : AttachHealth(c) \/ LeaveHealth(c) \/ Remove(c) \/ CloseHealth(c)
  BY <1>5, OtherSteps
<1> QED
  BY <1>1, <1>2, <1>3, <1>4, <1>5 DEF HealthNext, PublishHealth

-----------------------------------------------------------------------------
\* The state keeps its types and healthMu excludes a second sender
\* (publishHealth), for any pages, publishers and changes.
THEOREM HealthTypeCorrect == HealthSpec => []HealthTypeOK
<1>1. HealthInv => HealthTypeOK
  BY DEF HealthInv
<1> QED
  BY InitHealth, NextHealth, <1>1, PTL DEF HealthSpec

\* The comment of healthMu: the health every client holds is the recorded one
\* whenever no publish is under way, for any pages, publishers and changes.
THEOREM HealthIsRecorded == HealthSpec => []HoldsRecorded
<1>1. HealthInv => HoldsRecorded
  BY DEF HealthInv, DeliverInv, HoldsRecorded
<1> QED
  BY InitHealth, NextHealth, <1>1, PTL DEF HealthSpec
===============================================================================
