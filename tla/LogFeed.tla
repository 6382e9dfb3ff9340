------------------------------- MODULE LogFeed -------------------------------
(***************************************************************************)
(* The log stream of the devtools control server (devtools/server.go,      *)
(* PublishLogEntry and handleLogsWebsocket): the goroutines that read the  *)
(* services' output publish lines under mu and write them to the pages     *)
(* after it, while pages attach and are sent a snapshot first.             *)
(***************************************************************************)
EXTENDS DevtoolsServer, Integers, Sequences

CONSTANTS
  Writers,     \* goroutines that publish lines, one per output stream
  MaxEntries,  \* lines published in a behaviour; a line is its ID
  Retained,    \* maximumRetainedLogEntries
  Passed       \* marks a writer between isClosed and mu

ASSUME LogAssumption ==
  /\ MaxEntries \in Nat /\ Retained \in Nat \ {0}
  /\ Passed \notin Nat /\ None \notin Nat

VARIABLES
  retained,  \* retainedLogEntries
  nextID,    \* nextLogEntryID
  members,   \* logsClients
  writeMu,   \* writeMu[c]: is c's write lock held by its handler?
  snapshot,  \* snapshot[c]: what c's handler copied under mu
  entry,     \* entry[w]: the line w is publishing, Passed, or None
  todo,      \* todo[w]: the recipients w has not written to yet
  page,      \* page[c]: is c's connection "new", "open" or "closed"?
  frames     \* frames[c]: the frames written to c so far, in order

log == <<retained, nextID>>
writers == <<entry, todo>>
vars == <<log, members, writeMu, snapshot, writers, page, frames, stopped>>

IDs == 0..(MaxEntries - 1)
Line(id) == [type |-> "entry", entries |-> <<id>>]
Snapshot(entries) == [type |-> "snapshot", entries |-> entries]
Frame == [type : {"entry", "snapshot"}, entries : Seq(Nat)]

TypeOK ==
  /\ retained \in Seq(Nat) /\ nextID \in 0..MaxEntries
  /\ members \subseteq Clients
  /\ writeMu \in [Clients -> BOOLEAN]
  /\ snapshot \in [Clients -> Seq(Nat)]
  /\ entry \in [Writers -> IDs \union {Passed, None}]
  /\ todo \in [Writers -> SUBSET Clients]
  /\ page \in [Clients -> {"new", "open", "closed"}]
  /\ frames \in [Clients -> Seq(Frame)]
  /\ stopped \in BOOLEAN

Init ==
  /\ retained = <<>> /\ nextID = 0
  /\ members = {}
  /\ writeMu = [c \in Clients |-> FALSE]
  /\ snapshot = [c \in Clients |-> <<>>]
  /\ entry = [w \in Writers |-> None]
  /\ todo = [w \in Writers |-> {}]
  /\ page = [c \in Clients |-> "new"]
  /\ frames = [c \in Clients |-> <<>>]
  /\ stopped = FALSE

-----------------------------------------------------------------------------
Limited(s) == IF Len(s) > Retained THEN SubSeq(s, Len(s) - Retained + 1, Len(s)) ELSE s

\* isClosed, before mu is taken: a line that passes is published even when the
\* server stops meanwhile.
Check(w) ==
  /\ entry[w] = None /\ ~stopped
  /\ nextID < MaxEntries
  /\ entry' = [entry EXCEPT ![w] = Passed]
  /\ UNCHANGED <<log, members, writeMu, snapshot, todo, page, frames, stopped>>

\* PublishLogEntry under mu: the line gets its ID, is retained, and the pages
\* it is to be written to are chosen.
Publish(w) ==
  /\ entry[w] = Passed
  /\ nextID < MaxEntries
  /\ entry' = [entry EXCEPT ![w] = nextID]
  /\ nextID' = nextID + 1
  /\ retained' = Limited(Append(retained, nextID))
  /\ todo' = [todo EXCEPT ![w] = members]
  /\ UNCHANGED <<members, writeMu, snapshot, page, frames, stopped>>

\* removeLogsClient.
Retire(c) ==
  /\ members' = members \ {c}
  /\ page' = [page EXCEPT ![c] = "closed"]

\* One write to c, which fails on a broken connection, or on an open one at the
\* deadline; c is removed and closed then.
Deliver(c, frame) ==
  \/ /\ page[c] = "open"
     /\ frames' = [frames EXCEPT ![c] = Append(@, frame)]
     /\ UNCHANGED <<members, page>>
  \/ Retire(c) /\ UNCHANGED frames

\* broadcast after mu, one recipient at a time under its write lock.
Write(w, c) ==
  /\ c \in todo[w] /\ ~writeMu[c]
  /\ todo' = [todo EXCEPT ![w] = @ \ {c}]
  /\ Deliver(c, Line(entry[w]))
  /\ UNCHANGED <<log, writeMu, snapshot, entry, stopped>>

Published(w) ==
  /\ entry[w] \in IDs /\ todo[w] = {}
  /\ entry' = [entry EXCEPT ![w] = None]
  /\ UNCHANGED <<log, members, writeMu, snapshot, todo, page, frames, stopped>>

\* handleLogsWebsocket under mu: the page joins, the retained lines are copied,
\* and its write lock is taken before mu is released.  A handler that Stop
\* overtakes does the same.
Attach(c) ==
  /\ page[c] = "new"
  /\ page' = [page EXCEPT ![c] = "open"]
  /\ members' = members \union {c}
  /\ snapshot' = [snapshot EXCEPT ![c] = retained]
  /\ writeMu' = [writeMu EXCEPT ![c] = TRUE]
  /\ UNCHANGED <<log, writers, frames, stopped>>

\* Faulty variant: the snapshot is read when it is sent, after mu.
SendRetained(c) ==
  /\ writeMu[c]
  /\ writeMu' = [writeMu EXCEPT ![c] = FALSE]
  /\ Deliver(c, Snapshot(retained))
  /\ UNCHANGED <<log, snapshot, writers, stopped>>

\* The snapshot is written under the write lock.
SendSnapshot(c) ==
  /\ writeMu[c]
  /\ writeMu' = [writeMu EXCEPT ![c] = FALSE]
  /\ Deliver(c, Snapshot(snapshot[c]))
  /\ UNCHANGED <<log, snapshot, writers, stopped>>

\* The page goes away; its reader removes it, or the snapshot that is being
\* written when there is no reader yet.
Leave(c) ==
  /\ page[c] = "open"
  /\ IF writeMu[c]
     THEN page' = [page EXCEPT ![c] = "closed"] /\ UNCHANGED members
     ELSE Retire(c)
  /\ UNCHANGED <<log, writeMu, snapshot, writers, frames, stopped>>

\* Stop takes the pages over under mu, and closes each under its write lock.
Stop ==
  /\ ~stopped
  /\ stopped' = TRUE
  /\ members' = {}
  /\ UNCHANGED <<log, writeMu, snapshot, writers, page, frames>>

Close(c) ==
  /\ stopped /\ c \notin members
  /\ page[c] = "open" /\ ~writeMu[c]
  /\ page' = [page EXCEPT ![c] = "closed"]
  /\ UNCHANGED <<log, members, writeMu, snapshot, writers, frames, stopped>>

Next ==
  \/ Stop
  \/ \E w \in Writers : Check(w) \/ Publish(w) \/ Published(w)
  \/ \E w \in Writers, c \in Clients : Write(w, c)
  \/ \E c \in Clients : Attach(c) \/ SendSnapshot(c) \/ Leave(c) \/ Close(c)

Spec == Init /\ [][Next]_vars

-----------------------------------------------------------------------------
(* Properties.                                                             *)

\* The browser replaces its list with the snapshot: it is one frame, before any line.
SnapshotFirst(c) ==
  \A i \in DOMAIN frames[c] : (frames[c][i].type = "snapshot") <=> (i = 1)

\* The IDs of s are those before `next`, in order and none left out.
EndsBefore(s, next) == \A i \in 1..Len(s) : s[i] = next - Len(s) + i - 1
After(s) == IF s = <<>> THEN 0 ELSE s[Len(s)] + 1
LineAt(c, i) == frames[c][i].entries[1]

\* A page gets its snapshot first, and once nothing is under way for it, it has
\* received the lines retained when it attached and every later one, none twice
\* and none left out.
NoGapNoDuplicate ==
  /\ \A c \in Clients : SnapshotFirst(c)
  /\ \A c \in members :
       (page[c] = "open" /\ ~writeMu[c] /\ \A w \in Writers : c \notin todo[w]) =>
         LET first == frames[c][1].entries
             lines == 2..Len(frames[c])
         IN /\ EndsBefore(first, After(first))
            /\ After(first) - Len(first) <= nextID - Len(retained)
            /\ {LineAt(c, i) : i \in lines} = After(first)..(nextID - 1)
            /\ \A i, j \in lines : LineAt(c, i) = LineAt(c, j) => i = j
=============================================================================
